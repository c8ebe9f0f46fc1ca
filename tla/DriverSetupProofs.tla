-------------------------- MODULE DriverSetupProofs --------------------------
(***************************************************************************)
(* The properties of DriverSetup for any number of goroutines, hosts and    *)
(* requests.  The config is shared and changed in place, so the inductive   *)
(* invariant says what it may have become at every point of NewUltipaDriver *)
(* that some goroutine is at.                                               *)
(***************************************************************************)
EXTENDS DriverSetup, TLAPS

Ints == (-MaxInt - 1) .. MaxInt
Filled(t) == IF t = 0 THEN MaxInt ELSE t
FilledMethod(m) == IF m = "" THEN "MD5" ELSE m
Settled == {"encrypt", "store", "dial", "ready"}
Hashed == given.encrypt \notin {"LDAP", "NOTHING"}
Sent == Encrypt(given.encrypt, given.password)

\* The config is the given one, or the given one filled, and filled for good
\* once some goroutine is past FillDefault.
ConfigInv ==
  /\ config \in [timeout : Ints, encrypt : Methods, graph : Graphs, password : Nat]
  /\ config.timeout \in {given.timeout, Filled(given.timeout)}
  /\ config.encrypt \in {given.encrypt, FilledMethod(given.encrypt)}
  /\ \A d \in Drivers : pc[d] \in Settled => config.timeout = Filled(given.timeout)

\* The password before and after it was stored for the first time.
PasswordInv ==
  /\ stored = 0 => config.password = given.password
  /\ stored = 1 \/ ~Hashed => config.password \in {given.password, Sent}
  /\ stored = 1 => config.password = Sent
  /\ \A d \in Drivers :
       /\ pc[d] = "store" /\ (stored = 0 \/ ~Hashed) => pwd[d] = Sent
       /\ pc[d] \in {"dial", "ready"} \/ last[d].kind # "none" => stored > 0

\* What one driver's map and the loops that close it have to do with the open
\* connections.  As long as no two calls of Close met, at most one loop runs, and
\* it has before it exactly the connections that are open, or none is: then it is
\* a later call, which ends at the first connection.
OpenKept(d) == {i \in Kept : Conn(d, i) \in open}
Unmet(d) ==
  /\ \A j, k \in Closing(d) : j = k
  /\ \A k \in Closing(d) : OpenKept(d) = {} \/ OpenKept(d) = left[d][k]
  /\ closes[d] > 0 /\ Closing(d) = {} => OpenKept(d) = {}
LoopInv(d) ==
  /\ pc[d] # "start" => tries[d] > 0
  /\ pc[d] # "ready" => closes[d] = 0
  /\ closes[d] = 0 => Closing(d) = {}
  /\ pc[d] = "ready" /\ closes[d] = 0 => OpenKept(d) = Kept
  /\ pc[d] = "ready" /\ <<d, tries[d]>> \notin met => Unmet(d)

\* A connection is abandoned, or one of its goroutine's present driver.
Known(x) ==
  \E d \in Drivers : \E t, i :
    x = <<d, t, i>> /\ (Abandoned(x) \/ (pc[d] = "ready" /\ t = tries[d]))

\* The process runs, with these facts, or has ended for every goroutine.
Running == \A d \in Drivers : pc[d] # "panic"
OpenInv ==
  /\ Running \/ \A d \in Drivers : pc[d] = "panic"
  /\ Running => (\A x \in open : Known(x)) /\ \A d \in Drivers : LoopInv(d)

\* What the last requests were built of.
LastInv == /\ last = [d \in Drivers |-> last[d]]
           /\ ClientOutwaitsServer /\ HeadersMatchRequest /\ RequestsAreIndependent /\ PasswordIsSent

IInv == TypeOK /\ ConfigInv /\ PasswordInv /\ OpenInv /\ LastInv
-----------------------------------------------------------------------------
(* The operators of the configuration. *)

LEMMA SmallModulo ==
  ASSUME NEW n \in Nat, NEW a \in Nat, a < n
  PROVE  a % n = a
BY SMT

LEMMA SignedRange == /\ Ints \subseteq Int /\ Modulus \in Nat
                     /\ \A t \in Ints : t >= 0 => t < Modulus
                     /\ MaxInt \in Ints /\ MaxInt > 0
BY SetupAssumption DEF Ints, Modulus

LEMMA EncryptInNat == ASSUME NEW m, NEW p \in Nat PROVE Encrypt(m, p) \in Nat
<1>1. p + 1 \in Nat OBVIOUS
<1> QED BY <1>1 DEF Encrypt

\* The two ways of choosing a time zone agree.
LEMMA ZonesAgree == ASSUME NEW r \in Asked PROVE ZoneHeader(r) = TzFields(r)
BY SetupAssumption DEF ZoneHeader, TzFields, RequestConfigs

\* What NewContext and buildQueryRequest make of one timeout.
LEMMA TimeoutsAgree ==
  ASSUME NEW c \in [timeout : Ints, encrypt : Methods, graph : Graphs, password : Nat],
         NEW r \in Asked, NEW t \in Deadline(c, r)
  PROVE  buildQueryRequest(MergeRequestConfig(c, r), r).timeout <= t
<1> DEFINE m == MergeRequestConfig(c, r)
<1>1. r.timeout \in Ints /\ c.timeout \in Ints /\ MinTimeout \in Nat
  <2>1. Timeouts \subseteq Ints /\ Asked \subseteq RequestConfigs BY SetupAssumption DEF Ints
  <2>2. r.timeout \in Timeouts BY <2>1 DEF RequestConfigs
  <2>3. c.timeout \in Ints OBVIOUS
  <2>4. MinTimeout \in Nat BY SetupAssumption
  <2> QED BY <2>1, <2>2, <2>3, <2>4
<1>2. m.timeout = IF r.timeout > 0 THEN r.timeout ELSE c.timeout
      BY DEF MergeRequestConfig
<1>3. 0 <= m.timeout /\ m.timeout <= t /\ m.timeout \in Ints
      BY <1>1, <1>2, SignedRange, SetupAssumption DEF Deadline, Ints
<1>4. m.timeout % Modulus = m.timeout 
  <2>1. m.timeout \in Int /\ Modulus \in Nat BY <1>3, SignedRange
  <2>2. m.timeout < Modulus BY <1>3, SignedRange
  <2>3. m.timeout \in Nat BY <1>3, <2>1
  <2> QED BY <2>1, <2>2, <2>3, SmallModulo
<1> QED BY <1>3, <1>4 DEF buildQueryRequest

\* The timeout of a request, from a config that has been filled.
LEMMA TimeoutIsGiven ==
  ASSUME NEW r \in Asked, IInv, config.timeout = Filled(given.timeout)
  PROVE  buildQueryRequest(MergeRequestConfig(config, r), r).timeout
           = FillDefault(MergeRequestConfig(given, r)).timeout % Modulus
<1>1. given \in [timeout : Timeouts, encrypt : Methods, graph : Graphs, password : {0}]
      BY DEF IInv, TypeOK, Configs
<1>2. config \in [timeout : Ints, encrypt : Methods, graph : Graphs, password : Nat]
      BY DEF IInv, ConfigInv
<1>3. MergeRequestConfig(config, r).timeout = IF r.timeout > 0 THEN r.timeout ELSE config.timeout
      BY <1>2 DEF MergeRequestConfig
<1>4. /\ MergeRequestConfig(given, r).timeout = IF r.timeout > 0 THEN r.timeout ELSE given.timeout
      /\ MergeRequestConfig(given, r) \in [timeout : Int, encrypt : Methods, graph : Graphs, password : {0}]
  <2>1. Timeouts \subseteq Ints /\ Asked \subseteq RequestConfigs BY SetupAssumption DEF Ints
  <2>2. r.timeout \in Timeouts BY <2>1 DEF RequestConfigs
  <2> QED BY <1>1, <2>1, <2>2, SignedRange DEF MergeRequestConfig
<1>5. FillDefault(MergeRequestConfig(given, r)).timeout = Filled(MergeRequestConfig(given, r).timeout)
      BY <1>4 DEF FillDefault, Filled
<1>6. MergeRequestConfig(config, r).timeout = FillDefault(MergeRequestConfig(given, r)).timeout
      BY <1>3, <1>4, <1>5 DEF Filled
<1> QED BY <1>6 DEF buildQueryRequest
-----------------------------------------------------------------------------
LEMMA InitInv == Init => IInv
<1> SUFFICES ASSUME Init PROVE IInv
    OBVIOUS
<1>1. given \in [timeout : Timeouts, encrypt : Methods, graph : Graphs, password : {0}]
      BY SetupAssumption DEF Init, Configs
<1>2. Timeouts \subseteq Ints BY SetupAssumption DEF Ints
<1>3. TypeOK
  <2>1. config.timeout \in Int /\ config.encrypt \in Methods /\ config.password \in Nat
    <3>1. config = given BY DEF Init
    <3>2. given.timeout \in Ints BY <1>1, <1>2
    <3>3. given.timeout \in Int BY <3>2, SignedRange
    <3>4. given.encrypt \in Methods /\ given.password \in Nat BY <1>1
    <3> QED BY <3>1, <3>3, <3>4
  <2>2. /\ closes = [d \in Drivers |-> closes[d]] /\ left = [d \in Drivers |-> left[d]]
        BY DEF Init
  <2>3. ASSUME NEW d \in Drivers
        PROVE  closes[d] \in 0 .. MaxCloses[d] /\ left[d] \in [1 .. MaxCloses[d] -> SUBSET Kept]
    <3>1. MaxCloses[d] \in Nat BY SetupAssumption
    <3>2. closes[d] = 0 BY DEF Init
    <3>3. closes[d] \in 0 .. MaxCloses[d] BY <3>1, <3>2
    <3>4. left[d] = [k \in 1 .. MaxCloses[d] |-> {}] BY DEF Init
    <3>5. left[d] \in [1 .. MaxCloses[d] -> SUBSET Kept] BY <3>4
    <3> QED BY <3>3, <3>5
  <2>4. given \in Configs BY <1>1 DEF Configs
  <2> QED BY <2>1, <2>2, <2>3, <2>4 DEF Init, TypeOK
<1>4. ConfigInv BY <1>1, <1>2 DEF Init, ConfigInv, Settled
<1>5. PasswordInv BY <1>1 DEF Init, PasswordInv, None
<1>6. OpenInv BY SetupAssumption DEF Init, OpenInv, Running, LoopInv, Closing
<1>7. LastInv BY DEF Init, LastInv, None, ClientOutwaitsServer, HeadersMatchRequest,
                     RequestsAreIndependent, PasswordIsSent
<1> QED BY <1>3, <1>4, <1>5, <1>6, <1>7 DEF IInv

\* A request stays what it was as long as nothing that it is compared with changes.
LEMMA LastKept ==
  ASSUME IInv, UNCHANGED <<given, last>>,
         stored' = stored \/ (stored' = stored + 1)
  PROVE  LastInv'
<1>1. stored \in Nat /\ (stored = 0 => \A d \in Drivers : last[d].kind = "none")
      BY DEF IInv, TypeOK, PasswordInv
<1>2. PasswordIsSent' BY <1>1 DEF IInv, LastInv, PasswordIsSent
<1> QED BY <1>2 DEF IInv, LastInv, ClientOutwaitsServer, HeadersMatchRequest, RequestsAreIndependent

\* A step of one goroutine leaves the others their drivers, loops and connections.
LEMMA LoopKept ==
  ASSUME NEW e \in Drivers, LoopInv(e), met \subseteq met',
         pc'[e] = pc[e], closes'[e] = closes[e], left'[e] = left[e], tries'[e] = tries[e],
         \A i \in Kept : <<e, tries[e], i>> \in open' <=> <<e, tries[e], i>> \in open
  PROVE  LoopInv(e)'
<1>1. OpenKept(e)' = OpenKept(e) BY DEF OpenKept, Conn, Kept, Indexes
<1>2. Closing(e)' = Closing(e) BY DEF Closing
<1>3. Unmet(e) => Unmet(e)' BY <1>1, <1>2 DEF Unmet
<1> QED BY <1>1, <1>2, <1>3 DEF LoopInv, Kept, Indexes

LEMMA OthersKeep ==
  ASSUME NEW d \in Drivers, Running, pc'[d] # "panic",
         \A x \in open : Known(x), \A e \in Drivers : LoopInv(e), LoopInv(d)',
         \A e \in Drivers \ {d} :
           /\ pc'[e] = pc[e] /\ closes'[e] = closes[e] /\ left'[e] = left[e] /\ tries'[e] = tries[e]
           /\ \A i \in Kept : <<e, tries[e], i>> \in open' <=> <<e, tries[e], i>> \in open,
         failed \subseteq failed', met \subseteq met',
         \A x \in open' : x \in open \/ Known(x)',
         \A t, i : <<d, t, i>> \in open /\ <<d, t, i>> \in open' => Known(<<d, t, i>>)'
  PROVE  OpenInv'
<1>1. Running' BY DEF Running
<1>2. ASSUME NEW e \in Drivers PROVE LoopInv(e)'
  <2>1. CASE e = d BY <2>1
  <2>2. CASE e # d BY <2>2, LoopKept
  <2> QED BY <2>1, <2>2
<1>3. ASSUME NEW x \in open' PROVE Known(x)'
  <2>1. CASE x \notin open BY <2>1
  <2>2. CASE x \in open
    <3>0. PICK e \in Drivers : \E t, i :
            x = <<e, t, i>> /\ (Abandoned(x) \/ (pc[e] = "ready" /\ t = tries[e]))
          BY <2>2 DEF Known
    <3>1. PICK t, i : x = <<e, t, i>> /\ (Abandoned(x) \/ (pc[e] = "ready" /\ t = tries[e]))
          BY <3>0
    <3>2. CASE e = d BY <2>2, <3>1, <3>2
    <3>3. CASE e # d
      <4>1. Abandoned(x) => Abandoned(x)' BY DEF Abandoned, Kept, Indexes
      <4> QED BY <3>1, <3>3, <4>1 DEF Known
    <3> QED BY <3>2, <3>3
  <2> QED BY <2>1, <2>2
<1> QED BY <1>1, <1>2, <1>3 DEF OpenInv

\* A goroutine that can take a step lives in a process that runs.
LEMMA Lives ==
  ASSUME IInv, NEW d \in Drivers, pc[d] # "panic"
  PROVE  Running /\ (\A x \in open : Known(x)) /\ \A e \in Drivers : LoopInv(e)
BY DEF IInv, OpenInv, Running

LEMMA FillStep == ASSUME IInv, NEW d \in Drivers, Fill(d) PROVE IInv'
<1>1. /\ config \in [timeout : Ints, encrypt : Methods, graph : Graphs, password : Nat]
      /\ given \in [timeout : Timeouts, encrypt : Methods, graph : Graphs, password : {0}]
      BY DEF IInv, TypeOK, ConfigInv, Configs
<1>2. /\ config'.timeout = Filled(config.timeout) /\ config'.encrypt = FilledMethod(config.encrypt)
      /\ config'.graph = config.graph /\ config'.password = config.password
      /\ config' \in [timeout : Ints, encrypt : Methods, graph : Graphs, password : Nat]
      BY <1>1, SignedRange DEF Fill, FillDefault, Filled, FilledMethod, Methods
<1>3. config'.timeout = Filled(given.timeout)
      BY <1>2, SignedRange DEF IInv, ConfigInv, Filled
<1>4. /\ UNCHANGED <<given, pwd, open, left, requests, stored, failed, met, last>> /\ pc[d] \in {"start", "ready"}
      /\ closes' = [closes EXCEPT ![d] = 0] /\ (pc[d] = "ready" => closes[d] > 0 /\ Closing(d) = {})
      /\ pc' = [pc EXCEPT ![d] = "encrypt"] /\ tries' = [tries EXCEPT ![d] = @ + 1]
      BY DEF Fill, Goto
<1>5. TypeOK'
  <2>1. config'.timeout \in Int /\ config'.encrypt \in Methods /\ config'.password \in Nat
        BY <1>2, SignedRange
  <2>2. /\ closes' = [e \in Drivers |-> closes'[e]] /\ left' = [e \in Drivers |-> left'[e]]
        BY <1>4 DEF IInv, TypeOK
  <2>3. \A e \in Drivers : /\ closes'[e] \in 0 .. MaxCloses[e]
                           /\ left'[e] \in [1 .. MaxCloses[e] -> SUBSET Kept]
    <3>1. \A e \in Drivers : /\ closes[e] \in 0 .. MaxCloses[e] /\ MaxCloses[e] \in Nat
                             /\ left[e] \in [1 .. MaxCloses[e] -> SUBSET Kept]
          BY SetupAssumption DEF IInv, TypeOK
    <3>2. closes = [e \in Drivers |-> closes[e]] BY DEF IInv, TypeOK
    <3>3. \A e \in Drivers : closes'[e] = IF e = d THEN 0 ELSE closes[e] BY <1>4, <3>2
    <3>4. left' = left BY <1>4
    <3>5. \A e \in Drivers : closes'[e] \in 0 .. MaxCloses[e] BY <3>1, <3>3
    <3> QED BY <3>1, <3>4, <3>5
  <2>4. Kept' = Kept BY DEF Kept, Indexes
  <2>5. tries' \in [Drivers -> Nat] BY <1>4 DEF IInv, TypeOK
  <2> QED BY <2>1, <2>2, <2>3, <2>4, <2>5, <1>2, <1>4 DEF IInv, TypeOK
<1>6. ConfigInv'
  <2>1. config'.encrypt \in {given'.encrypt, FilledMethod(given'.encrypt)}
        BY <1>2, <1>4 DEF IInv, ConfigInv, FilledMethod
  <2> QED BY <1>2, <1>3, <1>4, <2>1 DEF ConfigInv, IInv, TypeOK
<1>7. PasswordInv' BY <1>2, <1>4 DEF IInv, TypeOK, PasswordInv, Sent, Hashed
<1>8. OpenInv'
  <2>1. Running /\ (\A x \in open : Known(x)) /\ \A e \in Drivers : LoopInv(e)
        BY <1>4, Lives
  <2>2. /\ pc'[d] = "encrypt" /\ tries'[d] = tries[d] + 1 /\ tries[d] \in Nat /\ closes'[d] = 0
        /\ Closing(d) = {}
        BY <1>4, <2>1 DEF IInv, TypeOK, LoopInv
  <2>3. LoopInv(d)'
    <3>1. Closing(d)' = Closing(d) BY <1>4 DEF Closing
    <3> QED BY <2>2, <3>1 DEF LoopInv
  <2>4. ASSUME NEW t, NEW i, <<d, t, i>> \in open PROVE Known(<<d, t, i>>)'
    <3> DEFINE x == <<d, t, i>>
    <3>1. Abandoned(x) \/ (pc[d] = "ready" /\ t = tries[d]) BY <2>1, <2>4 DEF Known
    <3>2. Abandoned(x)
      <4> SUFFICES ASSUME pc[d] = "ready", t = tries[d], ~Abandoned(x) PROVE FALSE
          BY <3>1
      <4>1. i \in Kept /\ <<d, tries[d]>> \notin met BY DEF Abandoned
      <4>2. OpenKept(d) = {} BY <1>4, <2>1, <2>2, <4>1 DEF LoopInv, Unmet
      <4>3. i \in OpenKept(d) BY <2>4, <4>1 DEF OpenKept, Conn
      <4> QED BY <4>2, <4>3
    <3>3. Abandoned(x)' BY <1>4, <3>2 DEF Abandoned, Kept, Indexes
    <3> QED BY <3>3 DEF Known
  <2> QED BY <1>4, <2>1, <2>2, <2>3, <2>4, OthersKeep DEF IInv, TypeOK
<1>9. LastInv' BY <1>4, LastKept
<1> QED BY <1>5, <1>6, <1>7, <1>8, <1>9 DEF IInv

\* Nothing happens to connections between two points of NewUltipaDriver.
LEMMA Between ==
  ASSUME IInv, NEW d \in Drivers, pc[d] \in {"encrypt", "store"},
         pc'[d] \in {"start", "store", "dial"}, \A e \in Drivers \ {d} : pc'[e] = pc[e],
         UNCHANGED <<open, closes, left, tries, failed, met>>
  PROVE  OpenInv'
<1>1. Running /\ (\A x \in open : Known(x)) /\ \A e \in Drivers : LoopInv(e)
      BY Lives
<1>2. LoopInv(d)'
  <2>1. Closing(d)' = Closing(d) BY DEF Closing
  <2> QED BY <1>1, <2>1 DEF LoopInv
<1>3. ASSUME NEW t, NEW i, <<d, t, i>> \in open PROVE Known(<<d, t, i>>)'
  <2>1. Abandoned(<<d, t, i>>) BY <1>1, <1>3 DEF Known
  <2>2. Abandoned(<<d, t, i>>)' BY <2>1 DEF Abandoned, Kept, Indexes
  <2> QED BY <2>2 DEF Known
<1> QED BY <1>1, <1>2, <1>3, OthersKeep

LEMMA EncryptStep == ASSUME IInv, NEW d \in Drivers, EncryptPassword(d) PROVE IInv'
<1>1. /\ UNCHANGED <<given, config, open, closes, left, tries, requests, stored, failed, met, last>>
      /\ pc[d] = "encrypt"
      /\ \/ pc' = [pc EXCEPT ![d] = "start"] /\ pwd' = pwd
         \/ /\ pc' = [pc EXCEPT ![d] = "store"]
            /\ pwd' = [pwd EXCEPT ![d] = Encrypt(config.encrypt, config.password)]
      BY DEF EncryptPassword, Goto
<1>2. TypeOK'
  <2>1. Encrypt(config.encrypt, config.password) \in Nat BY EncryptInNat DEF IInv, TypeOK
  <2> QED BY <1>1, <2>1 DEF IInv, TypeOK
<1>3. ConfigInv' BY <1>1 DEF IInv, TypeOK, ConfigInv, Settled
<1>4. PasswordInv'
  <2>1. Encrypt(config.encrypt, config.password) = Encrypt(given.encrypt, config.password)
        BY DEF IInv, ConfigInv, Encrypt, FilledMethod
  <2>2. stored = 0 \/ ~Hashed => Encrypt(given.encrypt, config.password) = Sent
        BY DEF IInv, PasswordInv, Sent, Encrypt, Hashed
  <2> QED BY <1>1, <2>1, <2>2 DEF IInv, TypeOK, PasswordInv, Sent, Hashed
<1>5. OpenInv'
  <2>1. pc'[d] \in {"start", "store"} /\ \A e \in Drivers \ {d} : pc'[e] = pc[e]
        BY <1>1 DEF IInv, TypeOK
  <2> QED BY <1>1, <2>1, Between
<1>6. LastInv' BY <1>1, LastKept
<1> QED BY <1>2, <1>3, <1>4, <1>5, <1>6 DEF IInv

LEMMA StoreStep == ASSUME IInv, NEW d \in Drivers, StorePassword(d) PROVE IInv'
<1>1. /\ UNCHANGED <<given, pwd, open, closes, left, tries, requests, failed, met, last>>
      /\ pc[d] = "store" /\ pc' = [pc EXCEPT ![d] = "dial"] /\ stored' = stored + 1
      /\ config' = [config EXCEPT !.password = pwd[d]]
      BY DEF StorePassword, Goto
<1>2. config \in [timeout : Ints, encrypt : Methods, graph : Graphs, password : Nat]
      BY DEF IInv, ConfigInv
<1>3. /\ config'.timeout = config.timeout /\ config'.encrypt = config.encrypt
      /\ config'.graph = config.graph /\ config'.password = pwd[d] /\ pwd[d] \in Nat
      /\ config' \in [timeout : Ints, encrypt : Methods, graph : Graphs, password : Nat]
      BY <1>1, <1>2 DEF IInv, TypeOK
<1>4. TypeOK' BY <1>1, <1>3 DEF IInv, TypeOK
<1>5. ConfigInv' BY <1>1, <1>3 DEF IInv, TypeOK, ConfigInv, Settled
<1>6. PasswordInv' BY <1>1, <1>3 DEF IInv, TypeOK, PasswordInv, Sent, Hashed
<1>7. OpenInv'
  <2>1. pc'[d] = "dial" /\ \A e \in Drivers \ {d} : pc'[e] = pc[e] BY <1>1 DEF IInv, TypeOK
  <2> QED BY <1>1, <2>1, Between
<1>8. LastInv' BY <1>1, LastKept
<1> QED BY <1>4, <1>5, <1>6, <1>7, <1>8 DEF IInv

LEMMA DialStep == ASSUME IInv, NEW d \in Drivers, NewConnectionPool(d) PROVE IInv'
<1>1. PICK nil \in SUBSET Indexes :
        /\ open' = open \cup {Conn(d, i) : i \in Indexes \ nil}
        /\ \/ pc' = [e \in Drivers |-> "panic"] /\ failed' = failed
           \/ nil \cap Kept = {} /\ pc' = [pc EXCEPT ![d] = "ready"] /\ failed' = failed
           \/ pc' = [pc EXCEPT ![d] = "start"] /\ failed' = failed \cup {<<d, tries[d]>>}
      BY DEF NewConnectionPool, Goto, Panic
<1>2. UNCHANGED <<given, config, pwd, closes, left, tries, requests, stored, met, last>> /\ pc[d] = "dial"
      BY DEF NewConnectionPool
<1>3. TypeOK' BY <1>1, <1>2 DEF IInv, TypeOK
<1>4. ConfigInv' BY <1>1, <1>2 DEF IInv, TypeOK, ConfigInv, Settled
<1>5. PasswordInv' BY <1>1, <1>2 DEF IInv, TypeOK, PasswordInv, Sent, Hashed
<1>6. OpenInv'
  <2>1. CASE pc' = [e \in Drivers |-> "panic"] BY <2>1 DEF OpenInv, Running
  <2>2. CASE /\ pc' = [pc EXCEPT ![d] = pc'[d]] /\ failed \subseteq failed'
             /\ \/ nil \cap Kept = {} /\ pc'[d] = "ready"
                \/ pc'[d] = "start" /\ <<d, tries[d]>> \in failed'
    <3>1. Running /\ (\A x \in open : Known(x)) /\ \A e \in Drivers : LoopInv(e)
          BY <1>2, Lives
    <3>2. \A e \in Drivers \ {d} : pc'[e] = pc[e] BY <2>2 DEF IInv, TypeOK
    <3>3. LoopInv(d)'
      <4>1. Closing(d)' = Closing(d) BY <1>2 DEF Closing
      <4>2. Closing(d) = {} /\ closes[d] = 0 /\ tries[d] > 0 BY <1>2, <3>1 DEF LoopInv
      <4>3. nil \cap Kept = {} => OpenKept(d)' = Kept
        <5> SUFFICES ASSUME nil \cap Kept = {}, NEW i \in Kept PROVE Conn(d, i) \in open'
            BY <1>2 DEF OpenKept, Kept, Indexes, Conn
        <5>1. i \in Indexes \ nil BY DEF Kept
        <5> QED BY <1>1, <5>1
      <4>4. nil \cap Kept = {} => (OpenKept(d) = Kept)' BY <4>3 DEF Kept, Indexes
      <4>5. pc'[d] = "ready" => Unmet(d)' BY <1>2, <4>1, <4>2 DEF Unmet
      <4>6. closes'[d] = 0 /\ tries'[d] > 0 BY <1>2, <4>2
      <4> QED BY <2>2, <4>1, <4>2, <4>4, <4>5, <4>6 DEF LoopInv
    <3>4. ASSUME NEW x, NEW i, x = <<d, tries[d], i>> PROVE Known(x)'
      <4>1. pc'[d] = "ready" \/ Abandoned(x)' BY <2>2, <3>4 DEF Abandoned
      <4>2. tries' = tries BY <1>2
      <4> QED BY <3>4, <4>1, <4>2 DEF Known
    <3>5. ASSUME NEW x \in open', x \notin open PROVE Known(x)'
      <4>1. PICK i \in Indexes : x = <<d, tries[d], i>> BY <1>1, <3>5 DEF Conn
      <4> QED BY <3>4, <4>1
    <3>6. ASSUME NEW t, NEW i, <<d, t, i>> \in open PROVE Known(<<d, t, i>>)'
      <4>1. Abandoned(<<d, t, i>>) BY <1>2, <3>1, <3>6 DEF Known
      <4>2. Abandoned(<<d, t, i>>)' BY <1>2, <2>2, <4>1 DEF Abandoned, Kept, Indexes
      <4> QED BY <4>2 DEF Known
    <3>7. ASSUME NEW e \in Drivers \ {d}, NEW i
          PROVE  <<e, tries[e], i>> \in open' <=> <<e, tries[e], i>> \in open
          BY <1>1 DEF Conn
    <3>8. pc'[d] # "panic" BY <2>2
    <3> QED BY <1>2, <2>2, <3>1, <3>2, <3>3, <3>5, <3>6, <3>7, <3>8, OthersKeep
  <2>3. pc \in [Drivers -> {"start", "encrypt", "store", "dial", "ready", "panic"}] BY DEF IInv, TypeOK
  <2> QED BY <1>1, <2>1, <2>2, <2>3
<1>7. LastInv' BY <1>2, LastKept
<1> QED BY <1>3, <1>4, <1>5, <1>6, <1>7 DEF IInv

LEMMA CloseStep == ASSUME IInv, NEW d \in Drivers, Close(d) PROVE IInv'
<1> DEFINE n == closes[d] + 1
<1>1. /\ UNCHANGED <<given, config, pc, pwd, open, tries, requests, stored, failed, last>>
      /\ pc[d] = "ready" /\ closes[d] < MaxCloses[d]
      /\ closes' = [closes EXCEPT ![d] = n]
      /\ left' = [left EXCEPT ![d] = [left[d] EXCEPT ![closes'[d]] = Kept]]
      /\ met' = IF Closing(d) # {} THEN met \cup {<<d, tries[d]>>} ELSE met
      BY DEF Close
<1>2. /\ closes'[d] = n /\ n \in 1 .. MaxCloses[d] /\ closes[d] \in Nat
      /\ left'[d] = [left[d] EXCEPT ![n] = Kept] /\ left[d] \in [1 .. MaxCloses[d] -> SUBSET Kept]
  <2>1. /\ closes = [e \in Drivers |-> closes[e]] /\ left = [e \in Drivers |-> left[e]]
        /\ closes[d] \in 0 .. MaxCloses[d] /\ left[d] \in [1 .. MaxCloses[d] -> SUBSET Kept]
        BY DEF IInv, TypeOK
  <2>2. closes'[d] = n BY <1>1, <2>1
  <2>3. MaxCloses[d] \in Nat BY SetupAssumption
  <2>4. n \in 1 .. MaxCloses[d] /\ closes[d] \in Nat BY <1>1, <2>1, <2>3
  <2>5. left'[d] = [left[d] EXCEPT ![n] = Kept] BY <1>1, <2>1, <2>2
  <2> QED BY <2>1, <2>2, <2>4, <2>5
<1>3. TypeOK'
  <2>1. \A e \in Drivers : /\ closes'[e] \in 0 .. MaxCloses[e]
                           /\ left'[e] \in [1 .. MaxCloses[e] -> SUBSET Kept]
    <3> TAKE e \in Drivers
    <3>1. CASE e = d
      <4>1. n \in 0 .. MaxCloses[d]
        <5>1. MaxCloses[d] \in Nat BY SetupAssumption
        <5> QED BY <1>2, <5>1
      <4>2. [left[d] EXCEPT ![n] = Kept] \in [1 .. MaxCloses[d] -> SUBSET Kept] BY <1>2
      <4> QED BY <1>2, <3>1, <4>1, <4>2
    <3>2. CASE e # d BY <1>1, <3>2 DEF IInv, TypeOK
    <3> QED BY <3>1, <3>2
  <2>2. /\ closes' = [e \in Drivers |-> closes'[e]] /\ left' = [e \in Drivers |-> left'[e]]
        BY <1>1 DEF IInv, TypeOK
  <2>3. Kept' = Kept BY DEF Kept, Indexes
  <2> QED BY <1>1, <2>1, <2>2, <2>3 DEF IInv, TypeOK
<1>4. ConfigInv' BY <1>1 DEF IInv, TypeOK, ConfigInv, Settled
<1>5. PasswordInv' BY <1>1 DEF IInv, TypeOK, PasswordInv, Sent, Hashed
<1>6. OpenInv'
  <2>1. Running /\ (\A x \in open : Known(x)) /\ \A e \in Drivers : LoopInv(e)
        BY <1>1, Lives
  <2>2. OpenKept(d)' = OpenKept(d) BY <1>1 DEF OpenKept, Conn, Kept, Indexes
  <2>3. LoopInv(d)'
    <3>1. closes'[d] # 0 /\ tries'[d] > 0 /\ pc'[d] = "ready"
      <4>1. tries[d] > 0 BY <1>1, <2>1 DEF LoopInv
      <4>2. n # 0 BY <1>2
      <4> QED BY <1>1, <1>2, <4>1, <4>2
    <3>2. ASSUME <<d, tries[d]>> \notin met' PROVE Unmet(d)'
      <4>1. Closing(d) = {} /\ <<d, tries[d]>> \notin met BY <1>1, <3>2
      <4>2. OpenKept(d) = {} \/ OpenKept(d) = Kept
        <5>1. CASE closes[d] = 0 BY <1>1, <2>1, <5>1 DEF LoopInv
        <5>2. CASE closes[d] > 0 BY <1>1, <2>1, <4>1, <5>2 DEF LoopInv, Unmet
        <5> QED BY <1>2, <5>1, <5>2
      <4>3. \A k \in 1 .. MaxCloses[d] : k # n => left'[d][k] = {} BY <1>2, <4>1 DEF Closing
      <4>4. left'[d][n] = Kept BY <1>2
      <4>5. \A k \in Closing(d)' : k = n /\ left'[d][k] = Kept BY <4>3, <4>4 DEF Closing
      <4>6. Closing(d)' = {} => Kept = {} BY <1>2, <4>4 DEF Closing
      <4>7. OpenKept(d) \subseteq Kept BY DEF OpenKept
      <4> QED BY <2>2, <4>2, <4>5, <4>6, <4>7 DEF Unmet
    <3> QED BY <1>1, <3>1, <3>2 DEF LoopInv
  <2>4. ASSUME NEW t, NEW i, <<d, t, i>> \in open PROVE Known(<<d, t, i>>)'
    <3>1. Abandoned(<<d, t, i>>) \/ (pc[d] = "ready" /\ t = tries[d]) BY <2>1, <2>4 DEF Known
    <3>2. Abandoned(<<d, t, i>>) => Abandoned(<<d, t, i>>)' BY <1>1 DEF Abandoned, Kept, Indexes
    <3> QED BY <1>1, <3>1, <3>2 DEF Known
  <2>5. \A e \in Drivers \ {d} : /\ pc'[e] = pc[e] /\ closes'[e] = closes[e]
                                 /\ left'[e] = left[e] /\ tries'[e] = tries[e]
        BY <1>1 DEF IInv, TypeOK
  <2> QED BY <1>1, <2>1, <2>3, <2>4, <2>5, OthersKeep
<1>7. LastInv' BY <1>1, LastKept
<1> QED BY <1>3, <1>4, <1>5, <1>6, <1>7 DEF IInv

LEMMA CloseConnStep == ASSUME IInv, NEW d \in Drivers, CloseConn(d) PROVE IInv'
<1>1. PICK k \in Closing(d) : \E i \in left[d][k] :
        /\ open' = open \ {Conn(d, i)}
        /\ left' = [left EXCEPT ![d] = [left[d] EXCEPT ![k] =
                      IF Conn(d, i) \in open THEN left[d][k] \ {i} ELSE {}]]
      BY DEF CloseConn
<1>2. PICK i \in left[d][k] :
        /\ open' = open \ {Conn(d, i)}
        /\ left' = [left EXCEPT ![d] = [left[d] EXCEPT ![k] =
                      IF Conn(d, i) \in open THEN left[d][k] \ {i} ELSE {}]]
      BY <1>1
<1>3. /\ UNCHANGED <<given, config, pc, pwd, closes, tries, requests, stored, failed, met, last>>
      /\ pc[d] = "ready"
      BY DEF CloseConn
<1> DEFINE rest == IF Conn(d, i) \in open THEN left[d][k] \ {i} ELSE {}
<1>4. /\ k \in 1 .. MaxCloses[d] /\ left[d] \in [1 .. MaxCloses[d] -> SUBSET Kept]
      /\ left'[d] = [left[d] EXCEPT ![k] = rest] /\ rest \subseteq left[d][k] /\ i \in Kept
  <2>1. /\ left = [e \in Drivers |-> left[e]] /\ left[d] \in [1 .. MaxCloses[d] -> SUBSET Kept]
        BY DEF IInv, TypeOK
  <2>2. k \in 1 .. MaxCloses[d] BY <1>1 DEF Closing
  <2>3. left'[d] = [left[d] EXCEPT ![k] = rest] BY <1>2, <2>1
  <2> QED BY <2>1, <2>2, <2>3
<1>5. TypeOK'
  <2>1. \A e \in Drivers : left'[e] \in [1 .. MaxCloses[e] -> SUBSET Kept]
    <3> TAKE e \in Drivers
    <3>1. CASE e = d BY <1>4, <3>1
    <3>2. CASE e # d BY <1>2, <3>2 DEF IInv, TypeOK
    <3> QED BY <3>1, <3>2
  <2>2. left' = [e \in Drivers |-> left'[e]] BY <1>2 DEF IInv, TypeOK
  <2>3. Kept' = Kept BY DEF Kept, Indexes
  <2> QED BY <1>3, <2>1, <2>2, <2>3 DEF IInv, TypeOK
<1>6. ConfigInv' BY <1>3 DEF IInv, TypeOK, ConfigInv, Settled
<1>7. PasswordInv' BY <1>3 DEF IInv, TypeOK, PasswordInv, Sent, Hashed
<1>8. OpenInv'
  <2>1. Running /\ (\A x \in open : Known(x)) /\ \A e \in Drivers : LoopInv(e)
        BY <1>3, Lives
  <2>2. OpenKept(d)' = OpenKept(d) \ {i} BY <1>2, <1>3 DEF OpenKept, Conn, Kept, Indexes
  <2>3. LoopInv(d)'
    <3>1. closes[d] # 0 /\ tries[d] > 0 BY <1>1, <1>3, <2>1 DEF LoopInv
    <3>2. ASSUME <<d, tries[d]>> \notin met PROVE Unmet(d)'
      <4>1. /\ \A j \in Closing(d) : j = k
            /\ OpenKept(d) = {} \/ OpenKept(d) = left[d][k]
            BY <1>1, <1>3, <2>1, <3>2 DEF LoopInv, Unmet
      <4>2. Closing(d)' \subseteq {k} 
        <5>1. \A j \in 1 .. MaxCloses[d] : j # k => left'[d][j] = left[d][j] BY <1>4
        <5> QED BY <4>1, <5>1 DEF Closing
      <4>3. left'[d][k] = rest BY <1>4
      <4>4. CASE OpenKept(d) = {} BY <2>2, <4>2, <4>4 DEF Unmet
      <4>5. CASE OpenKept(d) = left[d][k]
        <5>1. Conn(d, i) \in open BY <4>5 DEF OpenKept
        <5>2. OpenKept(d)' = left'[d][k] BY <2>2, <4>3, <4>5, <5>1
        <5>3. Closing(d)' = {} => left'[d][k] = {} BY <1>4 DEF Closing
        <5> QED BY <4>2, <5>2, <5>3 DEF Unmet
      <4> QED BY <4>1, <4>4, <4>5
    <3> QED BY <1>3, <3>1, <3>2 DEF LoopInv
  <2>4. ASSUME NEW t, NEW j, <<d, t, j>> \in open PROVE Known(<<d, t, j>>)'
    <3>1. Abandoned(<<d, t, j>>) \/ (pc[d] = "ready" /\ t = tries[d]) BY <2>1, <2>4 DEF Known
    <3>2. Abandoned(<<d, t, j>>) => Abandoned(<<d, t, j>>)' BY <1>3 DEF Abandoned, Kept, Indexes
    <3> QED BY <1>3, <3>1, <3>2 DEF Known
  <2>5. \A e \in Drivers \ {d} : /\ pc'[e] = pc[e] /\ closes'[e] = closes[e]
                                 /\ left'[e] = left[e] /\ tries'[e] = tries[e]
        BY <1>2, <1>3 DEF IInv, TypeOK
  <2>6. \A x \in open' : x \in open BY <1>2
  <2>7. ASSUME NEW e \in Drivers \ {d}, NEW j
        PROVE  <<e, tries[e], j>> \in open' <=> <<e, tries[e], j>> \in open
        BY <1>2 DEF Conn
  <2> QED BY <1>3, <2>1, <2>3, <2>4, <2>5, <2>6, <2>7, OthersKeep
<1>9. LastInv' BY <1>3, LastKept
<1> QED BY <1>5, <1>6, <1>7, <1>8, <1>9 DEF IInv

\* The password that a request of a ready driver carries.
LEMMA HeaderPassword ==
  ASSUME IInv, NEW d \in Drivers, pc[d] = "ready", NEW r \in Asked,
         stored = 1 \/ given.encrypt \in {"LDAP", "NOTHING"}
  PROVE  ToContextKV(config, r).password = Sent
<1>1. ToContextKV(config, r).password = config.password BY DEF ToContextKV
<1>2. CASE stored = 1 BY <1>1, <1>2 DEF IInv, PasswordInv
<1>3. CASE given.encrypt \in {"LDAP", "NOTHING"}
  <2>1. Sent = given.password BY <1>3 DEF Sent, Encrypt
  <2> QED BY <1>1, <1>3, <2>1 DEF IInv, PasswordInv, Hashed
<1> QED BY <1>2, <1>3

LEMMA RequestStep == ASSUME IInv, NEW d \in Drivers, Request(d) PROVE IInv'
<1>1. PICK r \in Asked :
        /\ pc[d] = "ready" /\ requests' = [requests EXCEPT ![d] = @ + 1]
        /\ open' = IF r.host THEN open \cup {<<d, 0, requests'[d]>>} ELSE open
        /\ IF KnownZone(r)
           THEN /\ last' = [last EXCEPT ![d] =
                     [kind |-> "query", config |-> r, header |-> ToContextKV(config, r),
                      deadline |-> Deadline(config, r),
                      request |-> buildQueryRequest(MergeRequestConfig(config, r), r)]]
                /\ UNCHANGED pc
           ELSE Panic /\ UNCHANGED last
        /\ UNCHANGED <<given, config, pwd, closes, left, tries, stored, failed, met>>
      BY DEF Request
<1>2. TypeOK' BY <1>1 DEF IInv, TypeOK, Panic
<1>3. ConfigInv' BY <1>1 DEF IInv, TypeOK, ConfigInv, Settled, Panic
<1>4. config.timeout = Filled(given.timeout) /\ stored > 0
      BY <1>1 DEF IInv, ConfigInv, PasswordInv, Settled
<1>5. PasswordInv' BY <1>1, <1>4 DEF IInv, TypeOK, PasswordInv, Sent, Hashed, Panic
<1>6. OpenInv'
  <2>1. CASE pc' = [e \in Drivers |-> "panic"] BY <2>1 DEF OpenInv, Running
  <2>2. CASE UNCHANGED pc
    <3>1. Running /\ (\A x \in open : Known(x)) /\ \A e \in Drivers : LoopInv(e)
          BY <1>1, Lives
    <3>2. open \subseteq open' /\ \A x \in open' : x \in open \/ \E n : x = <<d, 0, n>>
          BY <1>1
    <3>3. ASSUME NEW e \in Drivers PROVE LoopInv(e)'
      <4>1. CASE pc[e] = "ready"
        <5>1. tries[e] # 0
          <6>1. tries[e] > 0 BY <3>1, <4>1 DEF LoopInv
          <6>2. tries[e] \in Nat BY DEF IInv, TypeOK
          <6> QED BY <6>1, <6>2
        <5>2. \A i \in Kept : <<e, tries[e], i>> \in open' <=> <<e, tries[e], i>> \in open
              BY <3>2, <5>1
        <5> QED BY <1>1, <2>2, <3>1, <5>2, LoopKept
      <4>2. CASE pc[e] # "ready"
        <5>1. Closing(e)' = Closing(e) BY <1>1 DEF Closing
        <5> QED BY <1>1, <2>2, <3>1, <4>2, <5>1 DEF LoopInv
      <4> QED BY <4>1, <4>2
    <3>4. ASSUME NEW x \in open PROVE Known(x)'
      <4>1. Abandoned(x) => Abandoned(x)' BY <1>1 DEF Abandoned, Kept, Indexes
      <4> QED BY <1>1, <2>2, <3>1, <4>1 DEF Known
    <3>5. ASSUME NEW n PROVE Known(<<d, 0, n>>)' BY DEF Known, Abandoned
    <3> QED BY <2>2, <3>1, <3>2, <3>3, <3>4, <3>5 DEF OpenInv, Running
  <2> QED BY <1>1, <2>1, <2>2 DEF Panic
<1>7. LastInv'
  <2>1. CASE UNCHANGED last BY <1>1, <2>1, LastKept
  <2>2. CASE last' = [last EXCEPT ![d] =
                 [kind |-> "query", config |-> r, header |-> ToContextKV(config, r),
                  deadline |-> Deadline(config, r),
                  request |-> buildQueryRequest(MergeRequestConfig(config, r), r)]]
    <3> USE <1>1, <2>2
    <3>1. ClientOutwaitsServer'
          BY TimeoutsAgree DEF IInv, ConfigInv, LastInv, ClientOutwaitsServer
    <3>2. HeadersMatchRequest'
      <4>1. ToContextKV(config, r).zone = buildQueryRequest(MergeRequestConfig(config, r), r).zone
            BY ZonesAgree DEF ToContextKV, buildQueryRequest
      <4>2. config \in [timeout : Ints, encrypt : Methods, graph : Graphs, password : Nat]
            BY DEF IInv, ConfigInv
      <4>3. MergeRequestConfig(config, r).graph = config.graph BY <4>2 DEF MergeRequestConfig
      <4>4. ToContextKV(config, r).graph = buildQueryRequest(MergeRequestConfig(config, r), r).graph
            BY <4>3 DEF ToContextKV, buildQueryRequest
      <4> QED BY <4>1, <4>4 DEF IInv, LastInv, HeadersMatchRequest
    <3>3. RequestsAreIndependent'
          BY <1>4, TimeoutIsGiven DEF IInv, LastInv, RequestsAreIndependent
    <3>4. PasswordIsSent'
          BY HeaderPassword DEF IInv, LastInv, PasswordIsSent, Sent
    <3>5. (last = [e \in Drivers |-> last[e]])'
      <4>1. last = [e \in Drivers |-> last[e]] BY DEF IInv, LastInv
      <4> QED BY <4>1
    <3> QED BY <3>1, <3>2, <3>3, <3>4, <3>5 DEF LastInv
  <2> QED BY <1>1, <2>1, <2>2
<1> QED BY <1>2, <1>3, <1>5, <1>6, <1>7 DEF IInv

LEMMA OpenKeeps ==
  ASSUME IInv, UNCHANGED <<pc, open, closes, left, tries, failed, met>>
  PROVE  OpenInv'
BY DEF IInv, OpenInv, Running, Known, Abandoned, LoopInv, Unmet, OpenKept, Closing, Conn, Kept, Indexes

LEMMA TestStep == ASSUME IInv, NEW d \in Drivers, Test(d) PROVE IInv'
<1>1. PICK r \in Asked :
        /\ pc[d] = "ready" /\ requests' = [requests EXCEPT ![d] = @ + 1]
        /\ \/ last' = [last EXCEPT ![d] = None]
           \/ last' = [last EXCEPT ![d] =
                [kind |-> "test", config |-> r, header |-> ToContextKV(config, r),
                 deadline |-> Deadline(config, r)]]
        /\ UNCHANGED <<given, config, pc, pwd, open, closes, left, tries, stored, failed, met>>
      BY DEF Test
<1>2. TypeOK' BY <1>1 DEF IInv, TypeOK
<1>3. ConfigInv' BY <1>1 DEF IInv, TypeOK, ConfigInv
<1>4. stored > 0 BY <1>1 DEF IInv, PasswordInv
<1>5. PasswordInv' BY <1>1, <1>4 DEF IInv, TypeOK, PasswordInv, Sent, Hashed
<1>6. OpenInv' BY <1>1, OpenKeeps
<1>7. last = [e \in Drivers |-> last[e]] BY DEF IInv, LastInv
<1>8. \A e \in Drivers : last'[e] = last[e] \/ last'[e].kind # "query" BY <1>1, <1>7 DEF None
<1>9. /\ ClientOutwaitsServer' /\ HeadersMatchRequest' /\ RequestsAreIndependent'
      BY <1>1, <1>8 DEF IInv, LastInv, ClientOutwaitsServer, HeadersMatchRequest, RequestsAreIndependent
<1>10. (last = [e \in Drivers |-> last[e]])' BY <1>1, <1>7
<1>11. PasswordIsSent'
  <2> SUFFICES ASSUME NEW e \in Drivers, last'[e].kind # "none",
                      stored = 1 \/ given.encrypt \in {"LDAP", "NOTHING"}
               PROVE  last'[e].header.password = Sent
      BY <1>1 DEF PasswordIsSent, Sent
  <2>1. CASE last'[e] = last[e] BY <2>1 DEF IInv, LastInv, PasswordIsSent, Sent
  <2>2. CASE last'[e] # last[e]
    <3>1. last'[e].header = ToContextKV(config, r) BY <1>1, <1>7, <2>2 DEF None
    <3> QED BY <1>1, <3>1, HeaderPassword
  <2> QED BY <2>1, <2>2
<1> QED BY <1>2, <1>3, <1>5, <1>6, <1>9, <1>10, <1>11 DEF IInv, LastInv

LEMMA NextInv == IInv /\ [Next]_vars => IInv'
<1> SUFFICES ASSUME IInv, [Next]_vars PROVE IInv'
    OBVIOUS
<1>1. CASE UNCHANGED vars
      BY <1>1, LastKept, OpenKeeps DEF vars, IInv, TypeOK, ConfigInv, PasswordInv, Sent, Hashed, Kept, Indexes
<1>2. CASE Next
      BY <1>2, FillStep, EncryptStep, StoreStep, DialStep, RequestStep, TestStep,
         CloseStep, CloseConnStep DEF Next
<1> QED BY <1>1, <1>2

LEMMA Invariant == Spec => []IInv
BY InitInv, NextInv, PTL DEF Spec
-----------------------------------------------------------------------------
\* However many goroutines share a config, whatever timeouts it and the requests
\* give: the context of a query outlives the timeout that the server is given.
THEOREM ClientOutwaits == Spec => []ClientOutwaitsServer
<1>1. IInv => ClientOutwaitsServer BY DEF IInv, LastInv
<1> QED BY Invariant, <1>1, PTL

\* NewContext and buildQueryRequest choose the same graph and the same time zone.
THEOREM HeadersMatch == Spec => []HeadersMatchRequest
<1>1. IInv => HeadersMatchRequest BY DEF IInv, LastInv
<1> QED BY Invariant, <1>1, PTL

\* MergeRequestConfig keeps a request's timeout out of the shared config.
THEOREM Independent == Spec => []RequestsAreIndependent
<1>1. IInv => RequestsAreIndependent BY DEF IInv, LastInv
<1> QED BY Invariant, <1>1, PTL

\* The password of a config that was used once, or is not hashed, is sent as it should be.
THEOREM PasswordSent == Spec => []PasswordIsSent
<1>1. IInv => PasswordIsSent BY DEF IInv, LastInv
<1> QED BY Invariant, <1>1, PTL

\* The connections of any number of drivers of one config, hosts listed twice,
\* failed constructions, calls with a host and repeated or overlapping Close
\* included: nothing is open but what a driver holds and what Abandoned names.
THEOREM NothingElseStaysOpen == Spec => []OpenIsHeldOrAbandoned
<1>1. IInv => OpenIsHeldOrAbandoned
  <2> SUFFICES ASSUME IInv, \A d \in Drivers : pc[d] # "panic"
               PROVE  /\ \A x \in open : Held(x) \/ Abandoned(x)
                      /\ \A d \in Drivers : pc[d] = "ready" /\ closes[d] = 0 => \A i \in Kept : Conn(d, i) \in open
      BY DEF OpenIsHeldOrAbandoned
  <2>1. (\A x \in open : Known(x)) /\ \A d \in Drivers : LoopInv(d)
        BY DEF IInv, OpenInv, Running
  <2>2. ASSUME NEW x \in open, ~Abandoned(x) PROVE Held(x)
    <3>0. PICK d \in Drivers : \E t, i : x = <<d, t, i>> /\ pc[d] = "ready" /\ t = tries[d]
          BY <2>1, <2>2 DEF Known
    <3>1. PICK t, i : x = <<d, t, i>> /\ pc[d] = "ready" /\ t = tries[d] BY <3>0
    <3>2. i \in Kept /\ <<d, tries[d]>> \notin met BY <2>2, <3>1 DEF Abandoned
    <3>3. x = Conn(d, i) /\ i \in OpenKept(d) BY <3>1, <3>2 DEF OpenKept, Conn
    <3>4. closes[d] = 0 \/ \E k \in Closing(d) : i \in left[d][k]
      <4>1. Unmet(d) /\ closes[d] \in Nat BY <2>1, <3>1, <3>2 DEF LoopInv, IInv, TypeOK
      <4>2. closes[d] = 0 \/ closes[d] > 0 BY <4>1
      <4> QED BY <3>3, <4>1, <4>2 DEF Unmet
    <3> QED BY <3>1, <3>2, <3>3, <3>4 DEF Held
  <2>3. ASSUME NEW d \in Drivers, pc[d] = "ready", closes[d] = 0, NEW i \in Kept PROVE Conn(d, i) \in open
        BY <2>1, <2>3 DEF LoopInv, OpenKept
  <2> QED BY <2>2, <2>3
<1> QED BY Invariant, <1>1, PTL
=============================================================================
