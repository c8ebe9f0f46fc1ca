# TLA+ model of the Ultipa Go driver

This directory holds TLA+ modules that model the driver, TLC configurations that
check them on small instances, and TLAPS proofs of the most important properties
for every size. `PROJECT.json` is the machine-readable side: components, runs,
mutants, the map from definitions to source lines, findings, hazards, theorems.

## 1. The system

The driver is a library: an application builds a `UltipaConfig`, calls
`sdk.NewUltipaDriver`, and then calls methods of `UltipaAPI` from any number of
goroutines. There is no background goroutine; concurrency comes from the
application and from goroutines that single calls start.

| Part | State | Operations | Interacts with |
|---|---|---|---|
| Driver entry and configuration (`sdk/ultipa.go`, `sdk/configuration`) | `UltipaConfig`, shared by pointer and changed in place | `NewUltipaDriver`, `FillDefault`, `Encrypt`, `MergeRequestConfig`, `ToContextKV` | pool, every request |
| Connection pool (`sdk/connection/connection.pool.go`) | `Connections`, `Actives`, `LastActivesTime`, `RandomTick`, a mutex | `NewConnectionPool`, `RefreshActives[WithSeconds]`, `RefreshClusterInfo`, `GetConn`/`GetRandomConn`, `Close`, `NewContext` | one probe goroutine per host; every API call |
| Connection (`connection.go`) | grpc channel, `Active` | `NewConnection`, `GetClient`, `Close` | pool |
| Query execution (`sdk/api/api.go`, `sdk/http/response.query.go`, `responseStream.go`, `sdk/utils/merge.reply.go`) | context, response under construction | `Uql`, `Gql`, `UqlStream`, `GqlStream`, `Get`, `Alias` | pool, a server stream, the caller's callback |
| Batch insert of one schema (`insert.nodes.go`, `insert.edges.go`, `check.rows.go`) | shared `err`, `nodeRows`, a wait group, a cancel context | `Insert{Nodes,Edges}BatchBySchema` | one converter goroutine per row; one request |
| Batch insert of several schemas (same files, `response.insert.go`) | `batches`, `m`, `resps` | `Insert{Nodes,Edges}BatchAuto` | `ShowNodeSchema`, one request per schema |
| Catalog (`graph.go`, `schema.go`, `property.go`, `index.go`, `model.go`) | on the server; fields of the caller's structs | create, create-if-not-exist, alter, drop, `InitModel` | the query call, several times per operation; other clients |
| Export, download, install (`export.go`, `download.file.go`, `algo.go`) | a stream, slots, `parseErr`, `err` | `Export`, `DownloadAlgoResultFile`, `DownloadAllAlgoResultFile`, `InstallHDCAlgo` | converter goroutines, callbacks, the server |
| Administration calls (users, policies, jobs, tasks, algorithms, HDC graphs, backup, ...) | on the server | one statement each | the query call |
| Value codec (`serilizer.go`, `null.go`, `time.go`, `point.go`, names of types in `property.go`) | none | values to and from bytes, texts to values | inserts, results |
| Results (`dataitem.go`, ...) | none | `AsNodes`, `AsPaths`, `AsSchemas`, ... | query responses |
| Structures, printers, statement builder, generated RPC code | none of their own | | |

What is hard:

* the probes of a refresh share `pool.Actives` and the loop variable `idx`
  without synchronisation (`go.mod` says `go 1.13`, so a loop has one variable);
* refreshes, picks, cluster checks and closes of several goroutines overlap,
  and only two of the four take the mutex;
* the converters of a batch share one `err` with the loop that starts them;
* one `UltipaConfig` is changed by every driver that is made of it;
* a reply is a stream of records that may fail, break off, or stop, and whose
  records do not all have the same lists;
* several requests of one call, one of which fails, or whose answer is lost;
* check-then-create sequences against a server that others use;
* rows of an export are converted by goroutines whose error is tested while
  they may not have run;
* values whose bytes are those of a null, numbers that do not fit, dates whose
  zone several parameters decide;
* columns that are found by position here and by name there.

The hazards are listed in `PROJECT.json`, each at its line and with the
properties that would catch it going wrong.

## 2. The modules

| Module | Models | Kind |
|---|---|---|
| `ConnectionPool` | the pool and its connections | state machine, word-level races |
| `BatchBySchema`, `BatchAuto` | the batch inserts | state machines |
| `QueryExec` | a query or a stream, the merge of its records, `Get` | state machine, server external |
| `Calls` | every call that is one statement | a table |
| `Catalog` | clients of one server that make those calls and the composite ones | state machine, composes `Calls` |
| `CreateOnce` | what the creating calls promise | abstract specification, implemented by `Catalog` |
| `ControlStreams` | export, downloads, upload | state machine, server external |
| `StreamConsumer` | what a streaming call promises the application | abstract specification, implemented by the streams of `QueryExec` and the single download of `ControlStreams` |
| `DriverSetup` | configs, drivers, requests | state machine |
| `Codec` | declare, parse, encode, keep, decode | pure operators in a pipeline |
| `Tables`, `Results` | what callers read from result items | a table of readers, operators, one action per call |
| `MC...` | instances of the above | |
| `...Proofs` | theorems about every state machine above; `BatchProofs` has those of both batch inserts | |

### ConnectionPool

One state per moment between two accesses to shared memory. The caller's
variables (`pc`, `ret`, `secs`, `left`) are kept for the goroutine that runs
`NewConnectionPool` (`Boot`) and for the application's goroutines (`Threads`),
which may call nothing before construction has succeeded. `aptr`, `alen`,
`acap` are the three words of the slice header `Actives`; `mem[h]` is the array
that the append of host `h` allocated, if it did.

`append(pool.Actives, localConn)` at line 137 is a data race, so its outcome is
what the build can produce: three loads in any order (`AppendLoad`), then either
the element fits (`AppendFits`: length and element are stored) or `growslice`
copies what the loaded header shows (`AppendGrow`: the whole header and the
element are stored), then the stores in any order (`AppendStore`). An element
stored outside its array sets `stray`; a load from there yields `Wild`.
`connErrors[idx]` is written with the value that the shared `idx` has at that
moment (`RecordResult`). `RefreshClusterInfo` reads `Actives` without the
mutex: while a refresh runs, any of its outcomes is possible.

| Action | Code |
|---|---|
| `CallRefresh`, `RefreshFast`, `RefreshBegin`, `SpawnProbe`, `RefreshReturn` | `RefreshActivesWithSeconds` as seen by its caller |
| `ProbeOk`, `ProbeError`, `ProbeDenied`, `ProbeDeadline`, `Append*`, `RecordResult` | the goroutine of one host |
| `RefreshClusterInfo` | `RefreshClusterInfo`, `doRefreshClusterInfo` |
| `GetRandomConn` | `GetRandomConn`, `GetConn` |
| `CloseConn` | one iteration of `Close` |
| `Expire` | five seconds after `LastActivesTime` |

### BatchBySchema

One call. `err` is an interface value of two words, `errType` and `errRow` (the
row that its message names). `CheckRow`/`Checked` are the two stores of the loop
and its test, `Convert`/`Assign` the two stores of a converter and its test,
`Store` fills the slot of `nodeRows`, `SelectDone`/`SelectDefault` are the
`select`, `WaitGroup` is `wg.Wait()`. After either of them `err` is loaded one
word at a time (`LoadType`, `LoadData`). A test right after an assignment uses
the assigned value. Converters go on after the call has returned. What a row is
(`good`, `badCheck`, `badConvert`) is chosen in `Init`, for every combination.

### BatchAuto

One call of the nodes' or the edges' variant (`edges`). `Show` fetches any set
of schemas, `Group`/`Refuse` treat one row, and `Respond`, `RpcFails`,
`ClientFails` treat one schema that the map iteration comes to, in any order.
The reply carries any set of ignored positions, of rows of the table or not, with
as many, fewer or more error codes: the nodes' response drops the items when the
numbers differ, the edges' one panics when codes are missing, and a position that
`m` lacks is translated to row 0 (`Translate`). `replies` keeps what the replies
said, as it came; `ErrorItemsAreTheIgnored` compares `ErrorItem` with it through
the caller's slice alone (`Rank`: how many rows of the schema come before), and
says which replies are not noted and when row 0 is blamed. The names differ from those of
`BatchBySchema` (`AutoSpec`, `at` for the loop's `index`, `requests`, `outcome`),
so that one module can hold the proofs of both.

### QueryExec

One call of `query` or `queryStream` and the server's side of the stream
(`ServerSend`, `ServerEnd`, marked external). A record lists the aliases or
not, has rows for a subset of them, and may report a failure or carry
statistics that do not parse. `MergeUQLReply` is the loop over the aliases with
its early returns, `FindAliasDataInReply` and `Get` are what a caller reads
afterwards. `Expire` is the timer of the context, which runs on after the call.
Outcomes that are a panic in the code (deferring a nil `cancel`, reading the
aliases of a reply that never came) are the result `"panic"`.

### Calls, Catalog, CreateOnce

`Calls` is a table: for every method of `UltipaAPI` that executes one statement,
what the statement does to an object, which arguments the method rejects before
it sends anything, and what it makes of the answer. `Catalog` runs them, and the
methods made of several statements one statement per step (`HasGraph`,
`CreateGraphStep`, `GetSchemaStep`, `CreateSchemaStep`, `CreateProperties`,
`GetPropertyStep`, `CreatePropertyStep`), for several clients of one server. An
object is its path (`<<graph, schema, property>>`). The server executes a
statement, refuses it, or an error comes back with the effect or without it (the
answer was lost). `resp` is the response a method carries along, `named` the
properties of the caller's structs whose field `Schema` the driver has set.

`CreateOnce` is the abstract specification: a call that reports "created" made
the object itself, and one that reports "exists" saw it during the call. The
histories `added` and `seen` are variables of both, and `told` is what the
results of a call say in those terms (`Claim`), so the refinement mapping is the
identity on them; `ImplementsCreateOnce` is checked and proved.

### ControlStreams

One call of `Export`, of one of the downloads or of `InstallHDCAlgo`. A row of
an export is converted by its own goroutine (`Spawn`, `Convert`), the test of
`parseErr` (`ParseError`) may come before, after or in the middle, and the
callback comes after `wg.Wait` (`Callback`). The downloads find their files in
the result of a job (`FilesOf`, `Resolve`, names are sequences so that one can
end with another), and `InstallHDCAlgo` sends chunks file by file. `delivered`
is what the callbacks were given: a table with its record and its slots, or a
part of a file with the file's place in the job, since a job may list a name twice.

### StreamConsumer

The abstract specification that streaming calls share. The callback is given the
records one at a time, in order and none left out, no record that reports a
failure and none after it, and none once the call has returned; a call returns
once, and `nil` only at the end of the stream when every record was delivered.
Transport, contexts and retries are not in it. `QueryExec` implements it with
`told` mapped to what the call returned; a call that is given a host is mapped to
one that never returns, because `queryStream` then returns `nil` without reading
the stream, and so is a query that collects a response. `ControlStreams` implements
it with the call `DownloadAlgoResultFile` and the numbers of the parts.
`DownloadAllAlgoResultFile` does not: it returns `nil` on a record that reports a
failure (`MCDownloadAll.cfg`, section 6). An export hands over up to two tables per record and has
no record that reports a failure, so it has its own property.

### DriverSetup

Goroutines that make drivers of one config: `Fill`, `EncryptPassword`,
`StorePassword` and `NewConnectionPool` are the separate accesses to the shared
config, and each may interleave with those of others. A password is the number
of times it was hashed. `Request` is what a query does up to the sending, with
`Deadline` (`NewContext`), `ToContextKV` and `buildQueryRequest` computed from
the same two configs by different code; the timeout has its 32-bit width
(`Modulus`).

`Hosts` is a sequence: `NewConnectionPool` dials every entry, a host that is
listed again overwrites its connection in the map (`Kept` are the entries that
stay), and any of the dials may have left a nil. `Close` starts the loop of
`ConnectionPool.Close` and `CloseConn` is one turn of it: it closes a connection
in the order of a map, or meets one that is closed already, whose error ends the
loop. Several calls of `Close` of one driver may run at once; a goroutine may make
another driver after a failure and after a `Close`. `open` is the set of the
connections that are open. `OpenIsHeldOrAbandoned` says that each is still held
by its driver, or was given up in one of four ways that the code has: it was
dialled for one call (`Host`), by a construction that failed, for a host that is
listed again later, or two calls of `Close` met. TLC finds the property violated
when any of the four is left out, so each of them happens.

### Codec

A property is declared (`Declare`: the name of its type) and read back (`Show`),
a text is parsed (`Parse`), a value encoded (`Encode`), kept by the server
(`Store`) and decoded (`Decode`). Bytes are digits of base `Base`, integers wrap
at `Base^Short` and `Base^Long`, the fields of a date are packed by multiplying
and taking remainders, and the null of a type is the sentinel that the code
compares with. A list is its `IsNull` flag and the bytes of its elements, or no
bytes when it is empty (`Data`). The server keeps bytes as they are, but a point,
which is sent as a text, as two doubles, inside lists too (`Kept`, `KeptData`,
marked external). `RoundTrip` states what comes back, as a reference definition
that does not go through bytes; `Comparable` and `Unstorable` say for which values.
A string for a DATETIME or a TIMESTAMP is an input with a text of its own, which
`Parse` reads; as an element of a list it is left out (`Undated`).

### Tables, Results

`Tables` is a table of the `As...` readers: the table they accept, how they find
a column (position, header, key, map), and what becomes of a cell that does not
parse. `Position` is where a reader looks: the last header of the name
(`HeaderIndex`) or, for a reader by position, for a column that the headers lack
and for a `pinned` one (the total of `AsSchemas`), a given place (`ByPlace`).
`FieldsComeFromTheirColumns` is about all of them: it says of each way of finding
a column whose cell a field may hold, also where that is the cell of another. `Results` adds entities, paths, graphs, nested attributes and the totals
that `ShowSchema` computes from three tables, and one action per call. The loops
that append to a slice are written as the concatenation of what each turn
appends, and the loop that adds up a total as a recursive function.
`PathsAreClosed` is also about the order of the uuids, and `TotalIsExact`
compares the sum with the cardinality of what was counted, on top of the number
in the description, from which `AsSchemas` starts the total. That a total is
what was counted and no more is `TotalIsCount`, which `MCSchemaTotal.cfg` refutes.

### How they fit together

`DriverSetup` is construction and the request, `ConnectionPool` what happens
inside `NewConnectionPool` and to the connections, `QueryExec` what happens to
the request, `Catalog` uses a query as one step with the outcomes that
`QueryExec` has, `Results` reads what `QueryExec`'s merge returns, `Codec` is the
content of the cells. Where one module uses another's result it takes it as a
choice over the outcomes that the other allows.

## 3. Runs

| Run | Instance | What it shows |
|---|---|---|
| `pool_ops` | 2 hosts, 2 goroutines, every sequence of calls | `ActivesSound`: racing appends never put a host that did not answer, or one host twice, into `Actives`. `ExactWithoutRace`: without overlap it is exact. `NoProbeOutlivesRefresh`, `FastPathMeansAllAlive`, `CloseNilMeansAllClosed`, and what the results can be relied on for: `AllFailedMeansNoneAlive`, `ReadyMeansSomeAlive`. |
| `pool_live` | 1 host, 2 goroutines, seconds -1 and 6 | `CallsReturn`. |
| `batch` | 3 rows of 3 kinds | `ErrorIsGenuine`, `GoodBatchIsSentWhole`, `FirstBadRowIsNamed`, and the liveness property `CallReturns`. |
| `batch_lost` | 2 rows | violation, see section 6. |
| `batch_auto` | 4 rows, 2 schemas, positions 0 to 3 | `ValidatedBeforeSent`, `RequestsAreWhole`, `NilMeansAnswered`, `ErrorItemsAreTheIgnored`. |
| `query` | 3 aliases of 2 types, 3 records | `MergeIsExact` (the merged reply has the rows of all records, but exactly those that the early returns lose, and `Get` gives them), `ResponseIsFinal`, `ImplementsConsumer` (a streaming call implements `StreamConsumer`), `CallReturns`. |
| `catalog` | 2 clients; 2 calls and 1 call | `ImplementsCreateOnce`, `NoSilentFailure` (but for the calls that drop responses), `SchemaBuiltInOrder`. |
| `catalog_model` | 1 client that calls `InitModel` twice | violation, see section 6. |
| `streams` | 2 records, tables of up to 2 rows, 3 jobs, 3 lists of files | `ExportIsExact`, `DownloadIsExact`, `UploadIsWhole`, `CallReturns`. |
| `setup` | 2 goroutines of one config, one that makes 2 drivers with 2 calls of `Close` each, one that makes 1 and sends 2 requests; 3 hosts, one listed twice | `ClientOutwaitsServer`, `HeadersMatchRequest`, `RequestsAreIndependent`, `PasswordIsSent`, `OpenIsHeldOrAbandoned`. |
| `codec` | the edges of 14 types, lists, sets, texts, zones | `RoundTrip`, `NullRoundTrip`, `TextIsExact`. |
| `results` | every reader with its columns in order, reordered, repeated, missing or bad; paths, attributes; counts with descriptions that are a number or not | `FieldsComeFromTheirColumns`, `PathsAreClosed`, `ListsKeepTheirPlace`, `TotalIsExact`. |

Every property has a mutant: a definition with a plausible bug, under which TLC
finds the property violated.

Why the bounds are enough. Two overlapping appends already mix headers;
`MCPoolBoot.cfg` is a further configuration with three hosts, where one append
can extend the array of a second while a third has loaded its header, and a
capacity of 2 and 4 occurs. Two goroutines are enough for any pair of calls to
overlap; a third only waits for the same mutex. `MaxTick` bounds the calls of
`GetRandomConn` so that both entries of a list of two are picked. Three rows
allow a bad row before, between and after good ones and two converters behind
the loop. Four rows of two schemas give batches of every size and every
interleaving of positions, and with positions from 0 to 3 every batch of fewer
than four rows meets positions that no row of it has. Three aliases, two of one type around one of the
other, make every early return of the merge happen before and after rows were
merged, and a third record meets a reply that an earlier merge returned;
`Window = 1` lets the server be one record ahead of the client, which is all
that a client that reads one record at a time can tell. In `catalog`, one client
makes two calls so that the second meets what the first left behind, while the
other puts any call between any two of its statements; the schema has a property
of an id type, one to be ignored and two that are created, another one a bad
name in the middle. In `setup`, two tries let a config be used again after a
failure and after a success, three connections in the map are what two loops of
`Close` need to stop at each other and leave one open, and the entry of the host
that is listed twice is one that the map forgets; the goroutine that closes sends no request and the one
that sends closes nothing, because neither reads what the other changes but the
config, and those steps do interleave. Five configs have every method and kind of
timeout, six requests every kind of zone, known, unknown and with an offset.
Integers of six bits keep the minimum timeout,
the default and a negative timeout apart. In `codec`, bytes of five bits
(`Base = 32`), integers of three and six of them and clock fields of two bits
keep every edge (the greatest, the least, the sentinel, one beside it) and dates
from year 0 to beyond the field. The proofs (section 5) remove the bounds for
all the safety properties.

Hosts are interchangeable in `pool_ops` and schemas in `batch_auto`, which
symmetry uses; it is not used with liveness. `CHECK_DEADLOCK FALSE` is set where
what is modelled ends (a call, a construction, a value that was read back) or an
application may stop calling.

## 4. Fairness

* The Go scheduler runs every goroutine that can run: weak fairness of each
  goroutine's steps (`Main`, `Converter(r)`, `Workers`, `Client`, the steps of a
  refresh).
* Timers fire: weak fairness of `ProbeDeadline` and of `Expire`.
* `sync.Mutex` hands itself to a waiter that has starved for a millisecond:
  strong fairness of the two steps that take the mutex in the pool.
* No server owes an answer: `ProbeOk`, `ServerSend`, `ServerEnd` have none, so
  `CallReturns` in `query` and `streams` is about calls with a deadline.
  In `BatchBySchema` the request returns because its context expires, and in
  `QueryExec` and `ControlStreams` the caller's callback is assumed to return.

## 5. Proofs

The eight `...Proofs` modules are checked by TLAPS for every value of the
constants. Assumptions: `PoolAssumption` (finitely many hosts, at least one; the
special values are different), `RowsAssumption`, `BatchAssumption`,
`QueryAssumption` (numbers are naturals; aliases are listed once),
`SetupAssumption` (timeouts are 32-bit integers, the minimum is positive),
`CatalogAssumption`, `RequestsAssumption` (objects are non-empty paths; a call
that creates takes no second name), `SchemasAssumption` (the properties of a
schema are a list of names), `StreamsAssumption` (tables, files and jobs are
sequences), `ItemsAssumption` (tables, rows and lists are sequences, and a cell
is "of" the header above it and of its row: this names the server's cells, it
does not restrict them), `CodecAssumption` (widths and units are positive, a byte
has at least two values), `InputsAssumption` (a value has the shape that its Go
type gives it: an int32 is in the range of 32 bits, a date has a month and a day;
a string for a date is a text)
and `DateAssumption` (the date of the greatest year, packed, is below the greatest
number of 64 bits, as 10081 is in the code).

*ConnectionPoolProofs.* `IInv` is `TypeOK` and
`LockInv` (a caller is inside a refresh iff it holds the mutex, and probes run
only then), `BootInv` (nobody calls the pool before it is ready), `ActiveInv`
(`Active` agrees with what the probe found), `SlotInv` (a connection in any
array stands at the index that its own append computed, whoever copied it),
`LenInv` (the length that any append has loaded or stored is at most the number
of appends that have stored a length: this is the pigeonhole argument behind
`LengthBounded`) and `ErrInv` (an entry of `connErrors` names a host whose probe
failed, and distinct entries name distinct hosts). `SlotInv` gives
`ActivesSound`; `ErrInv` with counting gives `AllFailedMeansNoneAlive`: N
entries with N different failed hosts leave none that answered. `LenInv` also
gives `FastPathMeansAllAlive`: a length of N needs N appends that have stored
one. `CloseInv` (a Close has closed what it has visited) gives
`CloseNilMeansAllClosed`. For `ExactWithoutRace` the three words of the header
are followed through each append: as long as no two have overlapped, what an
append has loaded is what the header holds (`LoadInv`), what it stores extends
what was there (`StoreInv`), and between two appends `Actives` shows exactly the
connections appended so far (`SerialInv`), for any capacity that growing gives.

*BatchProofs.* First `BatchBySchema`. Both words of `err` can only come from a bad row; as long
as the loop has met good rows only, nothing has been cancelled (`OrderInv`), so
the first row that fails its check is the one that is returned.

Then `BatchAuto`. The rows below `at` passed (`PassedInv`); `batches[s]` is
increasing, has exactly the rows of `s` below `at`, and `m[s][k]` is its
element `k + 1` (`BatchInv`); a schema was sent or is left, not both
(`SentInv`); a row passed is left or answered (`LeftInv`). `ErrorInv` says that
`ErrorItem` has the translations of the positions of the noted replies and nothing
else. `RankIsPosition` (the element `k + 1` of a whole batch has k rows of its
schema before it) and `TranslateFinds` turn that into the rows that the replies
mean, and row 0 for the positions that no row has.

*QueryExecProofs.* What was received agrees with what was sent and, in a
stream, with what was delivered (`StreamInv`); no record before the last one
received reported a failure (`ResponseInv`). `MergeInv` says that the rows of
the reply are increasing and came in the records received so far, and are all
of them if those were regular. That `MergeUQLReply` keeps this is the lemma
`Merged`, an induction over the aliases with the loop's early returns
(`MergeLoopStep`); that `Get` then finds the rows is `Found`. `StreamPromised`
maps the receiving steps to steps of `StreamConsumer` and `OthersPromised` the
rest; `StreamsImplement` is `Spec => Consumer!Spec`. `StreamsAreExact` is the same
promise as a state invariant, `StreamIsExact`.

*DriverSetupProofs.* The shared config is the given one or the given one with its
defaults, and has its defaults as soon as some goroutine is past `Fill`
(`ConfigInv`); until the first `StorePassword` the password is the given one, and
after it the encrypted one (`PasswordInv`). `OpenInv` follows the connections: each
one that is open was abandoned or is of its goroutine's present driver (`Known`);
before the first `Close` of a driver all of its map is open (`LoopInv`); and as
long as no two calls of `Close` have met, at most one loop runs and has left
exactly what is open of the map, or nothing is (`Unmet`). That is what makes the
first loop run to its end: it meets no connection that is closed already. `OthersKeep` says that a step of one goroutine leaves the
connections of another alone. The lemmas
`TimeoutsAgree`, `TimeoutIsGiven` and `ZonesAgree` are about the operators alone:
what the two computations of timeout and zone make of the same configs.

*CatalogProofs.* The invariant is one of a single client: which calls are at
which point (`ControlInv`), a call that is about to claim something has the right
to (`ClaimInv`), and a failed write is the last statement of the call or is kept
in `resp` (`FailureInv`). A step of one client leaves the invariant of another
alone (`OthersKept`). `ExecutePromised` and `LookPromised` map a statement to a
step of `CreateOnce` or a stutter; `Implements` is `Spec => Promise!Spec`.
`BuildingInv` is a second invariant on top of it: there is a number k such that
the properties still to be created are the list without its first k, and the
ones that the call has added are those of the first k; it gives
`SchemaBuiltInOrder`.

*ControlStreamsProofs.* One invariant per kind of call. `ExportInv`: every table
delivered is one of the stream with all of its rows (`Faithful`), the tables are
in order, and of the record at hand those before `pc` were delivered
(`Progress`). That a table is complete when the callback gets it, however late
its goroutines ran, is the wait group's part of it. `DownloadInv`: the last part
delivered is the last record received of the file at hand, and parts grow by one.
`UploadInv`: the chunks of the files before the one at hand are complete, and
those of that file have no gap. `DownloadImplements` is the refinement of
`StreamConsumer`; it needs on top that the stream is empty until it is opened
(`FreshInv`), since `Open` resets it. `ChunkPromised` has the step that matters:
the numbers of the parts delivered grow by exactly the next one. No run lists
`DownloadImplementsConsumer`; TLC confirms it under `MCStreams.cfg` with that
line added to its `PROPERTIES`.

*ResultsProofs.* A call reads the item and changes nothing, so the invariants are
short (`ItemInv`, `ReplyInv`) and the work is in lemmas about the loops:
`FlattenPlaces` (where the pieces of a concatenation end up), `NotNullPlaces`,
`ListValues`, `CellIsInPlace`, `CountedGrows`. `HeaderFound` says which index the headers give a column, from the greatest
element of a set of numbers (`Greatest`). `TotalsAreExact` needs no assumption on
descriptions, and none on the types of counts: one of an unknown type counts as
nodes.

*CodecProofs.* The state is a pipeline: `CodecInv` says what each stage has made
of the input (the column is the declared one, the bytes are the encoding of the
value). The work is in lemmas about the operators. Numbers: powers of the base
are a recursive function whose values are established first (`PowersAre`,
`PowersAdd`); a quotient is characterised by its two inequalities (`QuotientIs`);
then `NumberOfDigits`, that `Number` inverts `Digits` for every base and width, and
`SignedBack` for two's complement. `DateBack` unpacks a date with seven quotients,
`FormatTwice` says that rounding to six decimals is idempotent, `NullTable` which
bytes are a null. There is one lemma per type (`SignedValueBack`, `StringBack`,
`DecimalBack`, `DatetimeBack`, `PointBack`, ...), joined in `ScalarBack`; `ListBack`
lifts it to the elements of lists and sets, and `NameBack` says that a declared
type is read back as the same one.

Induction over data. The library's induction theorems cannot be instantiated by
the provers at hand, because they take an operator. The proofs about loops use
the existence of a least element instead (`Least`, from `WFMin` and
`NatLessThanWellFounded`) and derive induction over a set of numbers
(`SetInduction`); that a recursive function exists is proved the same way
before its values are used (`LoopDefined`, `FlattenDefined`, `TotalDefined`, `NumberDefined`).
A `CASE` whose arms overlap may choose any of them, so nothing can be proved
about it: where the code tests one condition after another, the modules have
`IF ... ELSE IF`.

Only model-checked: liveness, which needs `ENABLED` (`CallsReturn`, and
`CallReturns` of `BatchBySchema`, `QueryExec` and `ControlStreams`).

## 6. Findings

* `batch_lost`: a row fails its conversion, and between the two stores of its
  converter's assignment to `err` the loop checks the next row and assigns nil
  (`insert.nodes.go:140`). The `select` finds the context cancelled, `err` is
  returned as nil, and the batch is sent with an empty row and reported as
  inserted. A converter of a good row that assigns its nil after the failing one
  has the same effect.
* `catalog_model`: `InitModel` creates properties only for schemas that exist
  already, and then fails, because nobody has set the field `Schema` of the
  model's properties.

Seven further configurations each end in a counterexample to what a document, a
comment or a test takes for granted (`tlc -config <cfg> <module>`):

| Configuration | Module | Counterexample |
|---|---|---|
| `MCPoolNil.cfg` | `MCConnectionPool` | `NilMeansSomeAlive`: two hosts fail, both probes write `connErrors[1]`, and the refresh returns nil. `ReadyMeansSomeAlive` holds all the same, because `NewConnectionPool` then checks that `Actives` is not empty. |
| `MCPoolLost.cfg` | `MCConnectionPool` | `ActivesComplete`: two hosts answer and `Actives` has one of them. |
| `MCQueryLeak.cfg` | `MCQueryExec` | `NoContextOutlivesCall`: the cancel function of a query's context is dropped. |
| `MCQueryZone.cfg` | `MCQueryExec` | `AnyZoneReturns`: a time zone that cannot be loaded makes the call panic. |
| `MCDownloadAll.cfg` | `MCControlStreams` | `DownloadAllNilIsWhole`: `DownloadAllAlgoResultFile` returns the nil error of `Recv` for a failed status (`download.file.go:101`). |
| `MCSetupPassword.cfg` | `MCDriverSetup` | `PasswordIsAlwaysSent`: the second driver of a config sends the hash of the hash (`ultipa.go:23`). |
| `MCSchemaTotal.cfg` | `MCResults` | `TotalIsCount` when a description is a number: the total of a schema starts from its fourth column, the description. |

### Observations

What the models contain because the code does it, and no property states:

* Pool: nothing refreshes `Actives` after construction (`connection.pool.go:367`),
  so a host that dies later is handed out and one that comes back is not. The
  error of `grpc.Dial` is dropped and the nil connection dereferenced by its
  probe. Failed constructions, calls with a host, hosts that are listed twice and
  calls of `Close` that meet leave connections open.
* Query: with `Host`, `queryStream` returns without receiving (`api.go:162`).
  `AliasList` is empty on a failed response, so `Get` gives UNSET.
* Catalog: `CreateSchemaIfNotExist` drops the response of `CreateSchema`;
  `CreateSchema` does not look at the status of its first statement;
  `CreateGraphIfNotExist` drops the error of `HasGraph`. `InitModel` puts schemas
  into the graph of the config and properties into the default graph. The branch
  "Only modify the description" of `AlterSchema` cannot be reached
  (`schema.go:254`). `GetUser` and `ShowLicense` take element 0 unchecked, and
  `ShowNodeProperty`/`ShowEdgeProperty` drop the error of `AsProperties`.
* Streams: a row of an export whose schema is missing is a nil dereference; the
  error of the callback for nodes is overwritten by that for edges; a bad row may
  be delivered as nil.
* Codec: an `int` is written as 4 bytes; a nil SET or BLOB comes back empty; the
  values of `Unstorable` come back as null; a point loses what six decimals do
  not hold; a year read as 70 stays 70; "+0530" is taken for 19080 seconds
  instead of 19800 (`serilizer.go:631`), and "+0000" for the local zone, so
  `TextIsExact` is about the requests that are `Clear`. A timestamp is written
  modulo 2^32 seconds; an empty decimal comes back as null; a list of points
  with other elements than points cannot be read.
  `GetStringType` panics on a decimal without its extra, and `SetTypeByString`
  appends to `SubTypes` at each call.
* Results: a null list of attributes panics in `AsAttrNodes`; a set of nodes is an
  error; lists of an unknown kind are dropped and shift those after them;
  `AsSchemas` and `AsProperties` end the process on a text that does not parse;
  `AsGraphSets` drops such errors; `AsStats` panics without rows; a count of an
  unknown type is counted as nodes.
* Helpers without callers: `OrderedMap.Delete` leaves the data behind, and
  `ConvertStringNodes` prints an empty string for a value that is not one.

## 7. Abstractions, and what is not modelled

* Messages, logging, formatting; an error is the row, the host or the call that
  caused it. The text of statements: a statement is what it does to an object.
* Building a request and marshalling it are one step (`Send`, `Respond`,
  `Request`). A slot of the table that holds no row is sent as an empty one.
* Statistics are not summed. Result lists are those that the merge handles; an
  attribute alias without values and the types that the merge skips are left out.
* `ShowProperty` for neither nodes nor edges runs two reads and drops the error of
  the first (`property.go:146`); the table has the second, whose error it returns.
* Nodes and edges themselves are no part of the catalog: inserts and `Truncate`
  leave the objects of `Catalog` as they are.
* What the goroutines of an export do after the call has returned: nobody reads
  the slots they write.
* The layouts that `NewTimeFromString` tries are abstracted to two- and four-digit years
  with or without a zone; the formatting of floats for decimals, numbers as texts
  of a DATETIME, texts of dates as elements of a list, and lists of lists in
  results are left out.
* Generated code (`rpc/*.pb.go`, more than a quarter of all lines), printers,
  logging, statement building and parsing, TLS credentials, the command line
  helpers in `utils/` and files that are commented out as a whole
  (`sdk/connect.go`, `sdk/raft.connect.go`, `connection/graph.manager.go`,
  `connection/cluster.manager.go`, `api/delete.go`, `api/exta.go`).

## 8. Plan

1. Composing `QueryExec` with `ConnectionPool`, so that the connection of a query
   is one that a refresh is replacing.
2. The statement builder (`sdk/utils/uql.maker.go`) has no caller in the
   repository; it is worth a module when it gets one.
