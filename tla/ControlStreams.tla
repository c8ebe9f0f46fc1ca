---------------------------- MODULE ControlStreams ----------------------------
(***************************************************************************)
(* The calls of UltipaAPI on the control service that stream: Export        *)
(* (api/export.go), DownloadAlgoResultFile and DownloadAllAlgoResultFile    *)
(* (api/download.file.go) and InstallHDCAlgo (api/algo.go).  One call is    *)
(* made; the server, the callback, the network and the deadline may each    *)
(* fail it at any point.                                                    *)
(*                                                                          *)
(* A record of Export holds a table of nodes and one of edges, each nil     *)
(* (<<>> here) or there (<<table>>).  Its rows are "good", "bad" (a value   *)
(* does not convert) or "orphan" (their schema is not among the record's    *)
(* schemas).  A record of a download is a chunk, or the report of a         *)
(* failure.                                                                 *)
(***************************************************************************)
EXTENDS Naturals, Sequences, FiniteSets

CONSTANTS
  Jobs,        \* results of jobs: the values of output_file, output_file1, ..., <<>> for a missing key
  Wanted,      \* the names that callers of DownloadAlgoResultFile ask for
  Uploads,     \* lists of files for InstallHDCAlgo: sequences of numbers of chunks
  Tables,      \* tables of an export
  MaxRecords   \* bound: records per stream of the server

\* Names of files are sequences, so that one may be the end of another.
ASSUME StreamsAssumption ==
  /\ \A job \in Jobs : job \in Seq(Seq(STRING))
  /\ Wanted \subseteq Seq(STRING)
  /\ Uploads \subseteq Seq(Nat)
  /\ Tables \subseteq Seq({"good", "bad", "orphan"})
  /\ MaxRecords \in Nat

Optional(S) == {<<>>} \cup {<<x>> : x \in S}
ExportRecords == [nodes : Optional(Tables), edges : Optional(Tables)]
ChunkRecords == {"chunk", "failure"}
Calls == [mode : {"export"}, deadline : BOOLEAN]
         \cup [mode : {"download"}, want : Wanted, job : Jobs, deadline : BOOLEAN]
         \cup [mode : {"downloadAll"}, job : Jobs, deadline : BOOLEAN]
         \cup [mode : {"install"}, uploads : Uploads, server : BOOLEAN, deadline : BOOLEAN]

VARIABLES
  call,       \* the caller's arguments, and the job that they name
  pc, ctx,
  files,      \* the files that the call transfers; n is the one it is at
  n,
  sent, ended, got,  \* the open stream: its records, its end, and how many were received
  row,        \* rows of the table being converted for which a goroutine was started
  running,    \* the goroutines that have not stored their row
  failed,     \* the rows whose goroutine has set its parseErr
  err,        \* the callback's error, in the variable that the loop shares
  delivered,  \* what the callback was given
  uploaded,   \* what the server was sent
  result

vars == <<call, pc, ctx, files, n, sent, ended, got, row, running, failed, err,
          delivered, uploaded, result>>
rows == <<row, running, failed, err>>
stream == <<sent, ended, got>>
mode == call.mode
-----------------------------------------------------------------------------
(* The server, the network and the timer *)

ServerSend(r) ==
  /\ pc = "recv" /\ ended = "open" /\ Len(sent) < MaxRecords
  /\ sent' = Append(sent, r)
  /\ UNCHANGED <<call, pc, ctx, files, n, ended, got, rows, delivered, uploaded, result>>

ServerEnd(e) ==
  /\ pc = "recv" /\ ended = "open"
  /\ ended' = e
  /\ UNCHANGED <<call, pc, ctx, files, n, sent, got, rows, delivered, uploaded, result>>

Expire ==
  /\ ctx = "live" /\ call.deadline
  /\ ctx' = "expired"
  /\ UNCHANGED <<call, pc, files, n, stream, rows, delivered, uploaded, result>>
-----------------------------------------------------------------------------
(* The start of a call *)

\* Every return runs the deferred cancel, if there is one yet.
Return(r) ==
  /\ pc' = "returned" /\ result' = r
  /\ ctx' = IF ctx = "live" THEN "cancelled" ELSE ctx

\* getFilesByJobId: the keys up to the first that is missing; no job, no result
\* or no file is an error.
FilesOf(job) ==
  LET present == {k \in 0 .. Len(job) : \A i \in 1 .. k : job[i] # <<>>}
  IN  SubSeq(job, 1, CHOOSE k \in present : \A j \in present : j <= k)
ShowJob ==
  /\ pc = "job"
  /\ \/ Return("error") /\ UNCHANGED files
     \/ /\ FilesOf(call.job) # <<>>
        /\ files' = FilesOf(call.job)
        /\ pc' = IF mode = "download" THEN "client" ELSE "open"
        /\ UNCHANGED <<ctx, result>>
  /\ UNCHANGED <<call, n, stream, rows, delivered, uploaded>>

HasSuffix(f, name) == Len(f) >= Len(name) /\ SubSeq(f, Len(f) - Len(name) + 1, Len(f)) = name

\* A file whose name ends with fileName takes its place, for the rest of the loop too.
Resolve(list, name) ==
  LET pick[i \in 0 .. Len(list)] ==
        IF i = 0 THEN name
        ELSE IF HasSuffix(list[i], pick[i - 1]) THEN list[i] ELSE pick[i - 1]
  IN  pick[Len(list)]

\* InstallHDCAlgo wants two files at least.
CheckFiles ==
  /\ pc = "files"
  /\ IF Len(call.uploads) < 2 THEN Return("error") ELSE pc' = "client" /\ UNCHANGED <<ctx, result>>
  /\ UNCHANGED <<call, files, n, stream, rows, delivered, uploaded>>

\* GetControlClient and NewContext.
Prepare ==
  /\ pc = "client"
  /\ \/ Return("error")
     \/ /\ ctx' = "live"
        /\ pc' = IF mode = "downloadAll" THEN "job" ELSE "open"
        /\ UNCHANGED result
  /\ UNCHANGED <<call, files, n, stream, rows, delivered, uploaded>>

\* client.Export, client.DownloadFile or client.InstallAlgo.
Open ==
  /\ pc = "open"
  /\ \/ /\ Return("error") /\ UNCHANGED <<files, n, stream>>
     \/ /\ ctx = "live"
        /\ pc' = IF mode = "install" THEN "upload" ELSE "recv"
        /\ files' = IF mode = "download" THEN <<Resolve(files, call.want)>> ELSE files
        /\ n' = n + 1
        /\ sent' = <<>> /\ ended' = "open" /\ got' = 0
        /\ UNCHANGED <<ctx, result>>
  /\ UNCHANGED <<call, rows, delivered, uploaded>>
-----------------------------------------------------------------------------
(* Receiving *)

Record == sent[got]
CanRecv == pc = "recv" /\ got < Len(sent)

\* io.EOF ends the loop; DownloadAllAlgoResultFile opens its next file.
RecvEOF ==
  /\ pc = "recv" /\ got = Len(sent) /\ ended = "eof"
  /\ IF mode = "downloadAll" /\ n < Len(files)
     THEN pc' = "open" /\ UNCHANGED <<ctx, result>> ELSE Return("nil")
  /\ UNCHANGED <<call, files, n, stream, rows, delivered, uploaded>>

\* Mutant: any error of Recv is taken for the end of the stream.
RecvError_Eof ==
  /\ pc = "recv" /\ got = Len(sent) /\ ended = "broken"
  /\ Return("nil")
  /\ UNCHANGED <<call, files, n, stream, rows, delivered, uploaded>>
RecvError ==
  /\ pc = "recv" /\ (ctx = "expired" \/ (got = Len(sent) /\ ended = "broken"))
  /\ Return("recvError")
  /\ UNCHANGED <<call, files, n, stream, rows, delivered, uploaded>>

\* A chunk goes to receive.  A failure is an error of DownloadAlgoResultFile;
\* DownloadAllAlgoResultFile returns the err of Recv, which is nil.
FailureResult_Nil == "nil"  \* mutant: the err of Recv is returned
FailureResult == IF mode = "download" THEN "statusError" ELSE "nil"
RecvChunk ==
  /\ CanRecv /\ mode \in {"download", "downloadAll"}
  /\ got' = got + 1
  /\ \/ /\ sent[got + 1] = "failure"
        /\ Return(FailureResult) /\ UNCHANGED delivered
     \/ /\ sent[got + 1] = "chunk"
        /\ delivered' = Append(delivered, [file |-> files[n], nth |-> n, part |-> got'])
        /\ Return("cbError") \/ UNCHANGED <<pc, ctx, result>>
  /\ UNCHANGED <<call, files, n, sent, ended, rows, uploaded>>
-----------------------------------------------------------------------------
(* Export: a goroutine per row, parseErr tested while it may be running *)

\* After a table: the edges follow the nodes, and then err is looked at.
AfterTable(t, e) ==
  IF t = "nodes" /\ Record.edges # <<>>
  THEN pc' = "edges" /\ UNCHANGED <<ctx, result>>
  ELSE IF e THEN Return("cbError") ELSE pc' = "recv" /\ UNCHANGED <<ctx, result>>

RecvTables ==
  /\ CanRecv /\ mode = "export"
  /\ got' = got + 1
  /\ pc' = IF sent[got'].nodes # <<>> THEN "nodes" ELSE IF sent[got'].edges # <<>> THEN "edges" ELSE "recv"
  /\ row' = 0 /\ failed' = {} /\ running' = {} /\ err' = FALSE
  /\ UNCHANGED <<call, ctx, files, n, sent, ended, delivered, uploaded, result>>

Table == IF pc = "nodes" THEN Record.nodes[1] ELSE Record.edges[1]

\* The test of parseErr races with the goroutine: it may miss an error that is set.
Spawn ==
  /\ pc \in {"nodes", "edges"} /\ row < Len(Table)
  /\ row' = row + 1
  /\ running' = running \cup {row + 1}
  /\ UNCHANGED <<call, pc, ctx, files, n, stream, failed, err, delivered, uploaded, result>>

\* "if parseErr != nil" after the go statement of the row.
ParseError ==
  /\ pc \in {"nodes", "edges"} /\ row \in failed
  /\ Return("parseError")
  /\ UNCHANGED <<call, files, n, stream, rows, delivered, uploaded>>

\* NewNodeFromNodeRow fails on a value that does not convert.  A row whose schema
\* the record does not have is converted with a nil schema.
Unconvertible(r) == r = "bad"
HasNoSchema(r) == r = "orphan"

\* A goroutine ends; a nil dereference ends the process.  What goroutines do after
\* the call has returned is left out: nobody reads the slots that they write.
Convert(i) ==
  /\ pc \in {"nodes", "edges"} /\ i \in running
  /\ running' = running \ {i}
  /\ failed' = IF Unconvertible(Table[i]) THEN failed \cup {i} ELSE failed
  /\ IF HasNoSchema(Table[i]) THEN Return("panic") ELSE UNCHANGED <<pc, ctx, result>>
  /\ UNCHANGED <<call, files, n, stream, row, err, delivered, uploaded>>

\* Mutant: the callback does not wait for the goroutines.
Callback_NoWait ==
  /\ pc \in {"nodes", "edges"} /\ row = Len(Table)
  /\ delivered' = Append(delivered, [table |-> pc, record |-> got,
                                     slots |-> [i \in 1 .. row |-> Table[i] = "good" /\ i \notin running]])
  /\ err' = FALSE /\ row' = 0 /\ failed' = {} /\ running' = {}
  /\ AfterTable(pc, FALSE)
  /\ UNCHANGED <<call, files, n, stream, uploaded>>
\* wg.Wait has returned and the callback is called; the slot of a bad row is nil.
Callback ==
  /\ pc \in {"nodes", "edges"} /\ row = Len(Table) /\ running = {}
  /\ delivered' = Append(delivered, [table |-> pc, record |-> got,
                                     slots |-> [i \in 1 .. row |-> Table[i] = "good"]])
  /\ \E e \in BOOLEAN : err' = e /\ AfterTable(pc, e)
  /\ row' = 0 /\ failed' = {}
  /\ UNCHANGED <<call, files, n, stream, running, uploaded>>
-----------------------------------------------------------------------------
(* InstallHDCAlgo *)

Part(f, k, s) == [file |-> f, chunk |-> k, server |-> s]

\* The parts of a file that were sent.
SentOf(f) == {i \in DOMAIN uploaded : uploaded[i].file = f}
Chunks(f) == Cardinality(SentOf(f))

\* sendFileChunks: all but the last file are for the server that was named.
WithServer(f) == f < Len(call.uploads) /\ call.server
SendChunk ==
  /\ pc = "upload" /\ Chunks(n) < call.uploads[n]
  /\ \/ /\ ctx = "live"
        /\ uploaded' = Append(uploaded, Part(n, Chunks(n) + 1, WithServer(n)))
        /\ UNCHANGED <<pc, ctx, result>>
     \/ Return("error") /\ UNCHANGED uploaded
  /\ UNCHANGED <<call, files, n, stream, rows, delivered>>

\* Mutant: one read of a file is taken for all of it.
NextFile_OneRead ==
  /\ pc = "upload"
  /\ IF n < Len(call.uploads) THEN n' = n + 1 /\ UNCHANGED pc ELSE pc' = "reply" /\ UNCHANGED n
  /\ UNCHANGED <<call, ctx, files, stream, rows, delivered, uploaded, result>>
\* The next file is opened, or cannot be; after the last one comes the reply.
NextFile ==
  /\ pc = "upload" /\ Chunks(n) = call.uploads[n]
  /\ IF n < Len(call.uploads)
     THEN \/ n' = n + 1 /\ UNCHANGED <<pc, ctx, result>>
          \/ Return("error") /\ UNCHANGED n
     ELSE pc' = "reply" /\ UNCHANGED <<n, ctx, result>>
  /\ UNCHANGED <<call, files, stream, rows, delivered, uploaded>>

\* CloseAndRecv.  A reply without a status is returned as nil without an error.
CloseAndRecv ==
  /\ pc = "reply"
  /\ \/ Return("error")
     \/ ctx = "live" /\ \E r \in {"response", "nil"} : Return(r)
  /\ UNCHANGED <<call, files, n, stream, rows, delivered, uploaded>>
-----------------------------------------------------------------------------
Init ==
  /\ call \in Calls
  /\ pc = CASE mode = "download" -> "job" [] mode = "install" -> "files" [] OTHER -> "client"
  /\ ctx = "none"
  /\ files = <<>> /\ n = 0
  /\ sent = <<>> /\ ended = "open" /\ got = 0
  /\ row = 0 /\ running = {} /\ failed = {} /\ err = FALSE
  /\ delivered = <<>> /\ uploaded = <<>>
  /\ result = "none"

Main == \/ ShowJob \/ CheckFiles \/ Prepare \/ Open
        \/ RecvEOF \/ RecvError \/ RecvChunk \/ RecvTables
        \/ Spawn \/ ParseError \/ Callback
        \/ SendChunk \/ NextFile \/ CloseAndRecv

Workers == \E i \in running : Convert(i)

Server == \/ \E r \in ExportRecords : mode = "export" /\ ServerSend(r)
          \/ \E r \in ChunkRecords : mode \in {"download", "downloadAll"} /\ ServerSend(r)
          \/ \E e \in {"eof", "broken"} : ServerEnd(e)

Next == Main \/ Workers \/ Server \/ Expire

Spec == Init /\ [][Next]_vars

\* Goroutines run and timers fire; the server owes nothing.
FairSpec == Spec /\ WF_vars(Main) /\ WF_vars(Workers) /\ WF_vars(Expire)
-----------------------------------------------------------------------------
(***************************************************************************)
(* Properties.                                                              *)
(***************************************************************************)

TypeOK ==
  /\ call \in Calls
  /\ pc \in {"job", "files", "client", "open", "recv", "nodes", "edges", "upload", "reply", "returned"}
  /\ ctx \in {"none", "live", "expired", "cancelled"}
  /\ n \in Nat /\ got \in 0 .. Len(sent)
  /\ ended \in {"open", "eof", "broken"}
  /\ row \in Nat /\ running \subseteq 1 .. row /\ failed \subseteq 1 .. row
  /\ err \in BOOLEAN
  /\ result \in {"none", "nil", "response", "error", "recvError", "statusError", "cbError",
                 "parseError", "panic"}

\* The tables that the first k records hold, in the order in which the callback
\* is to see them.
Before(a, b) == a.record < b.record \/ (a.record = b.record /\ a.table = "nodes" /\ b.table = "edges")
TablesOf(k) == {[table |-> t, record |-> i] : t \in {"nodes", "edges"}, i \in 1 .. k}
Held(x) == IF x.table = "nodes" THEN sent[x.record].nodes ELSE sent[x.record].edges
Row(x, k) == Held(x)[1][k]

\* The callback of Export sees every table once and in the order of the stream,
\* with every row that converts in its place, however late its goroutine ran; and
\* Export returns nil only at the end of the stream, after the last table.
ExportIsExact ==
  mode = "export" =>
    /\ \A i, j \in DOMAIN delivered : i < j => Before(delivered[i], delivered[j])
    /\ \A i \in DOMAIN delivered :
         /\ Held(delivered[i]) # <<>> /\ DOMAIN delivered[i].slots = DOMAIN Held(delivered[i])[1]
         /\ \A k \in DOMAIN delivered[i].slots : delivered[i].slots[k] <=> Row(delivered[i], k) = "good"
    /\ result = "nil" =>
         /\ ended = "eof" /\ got = Len(sent)
         /\ {x \in TablesOf(got) : Held(x) # <<>>}
              = {[table |-> delivered[i].table, record |-> delivered[i].record] : i \in DOMAIN delivered}

\* The callback of a download is given the files in the order of the job, the
\* chunks of each in order and without a gap, and nothing after a failure.
InOrder ==
    /\ \A i \in DOMAIN delivered : delivered[i].nth \in 1 .. n /\ delivered[i].file = files[delivered[i].nth]
    /\ \A i \in DOMAIN delivered : delivered[i].part > 1 =>
         i > 1 /\ delivered[i - 1] = [delivered[i] EXCEPT !.part = @ - 1]
    /\ \A i, j \in DOMAIN delivered : i < j =>
         \/ delivered[i].nth < delivered[j].nth
         \/ delivered[i].nth = delivered[j].nth /\ delivered[i].part < delivered[j].part
    /\ \A i \in DOMAIN delivered : delivered[i].nth = n => sent[delivered[i].part] = "chunk"

\* Both downloads hand over the chunks in order, and DownloadAlgoResultFile fetches
\* a file whose name ends with the one that was asked for, if the job has one, and
\* returns nil only when all of it was received.
DownloadIsExact ==
  /\ mode \in {"download", "downloadAll"} => InOrder
  /\ (mode = "download" /\ n = 1) =>
    /\ HasSuffix(files[1], call.want)
    /\ LET list == FilesOf(call.job) IN
       (\E i \in DOMAIN list : HasSuffix(list[i], call.want)) => \E i \in DOMAIN list : files[1] = list[i]
    /\ result = "nil" => ended = "eof" /\ Len(delivered) = Len(sent)

\* The download of one file in the terms of StreamConsumer; the other calls have
\* no stream there.
Single == mode = "download"
Told ==
  CASE ~Single \/ result = "none" -> "nothing"
    [] Single /\ result = "nil" -> "nil"
    [] OTHER -> "error"
PartsOf(pieces) == [i \in 1 .. Len(pieces) |-> pieces[i].part]
Consumer == INSTANCE StreamConsumer
  WITH Records <- ChunkRecords, Good <- {"chunk"}, told <- Told,
       sent <- IF Single THEN sent ELSE <<>>, ended <- IF Single THEN ended ELSE "open",
       delivered <- IF Single THEN PartsOf(delivered) ELSE <<>>

\* DownloadAlgoResultFile keeps the promise of StreamConsumer, as the streaming
\* queries do: a part at a time, none after a failure or after the call returned.
DownloadImplementsConsumer == Consumer!Spec

\* When InstallHDCAlgo has sent everything, the server has the chunks of all the
\* files in order, each once, and the name of the HDC server with all but those
\* of the last file.
UploadIsWhole ==
  (mode = "install" /\ pc = "reply") =>
    /\ \A i, j \in DOMAIN uploaded : i < j =>
         \/ uploaded[i].file < uploaded[j].file
         \/ uploaded[i].file = uploaded[j].file /\ uploaded[i].chunk < uploaded[j].chunk
    /\ \A f \in DOMAIN call.uploads :
         {uploaded[i].chunk : i \in SentOf(f)} = 1 .. call.uploads[f]
    /\ \A i \in DOMAIN uploaded :
         uploaded[i].server <=> (call.server /\ uploaded[i].file # Len(call.uploads))

\* With a deadline every call returns and releases its context: no wait for a
\* goroutine that has gone, and no receiving from a server that is silent.
CallReturns == call.deadline ~> (pc = "returned" /\ ctx # "live")

\* A download that returns no error has received every file of the job, as the
\* test of DownloadAllAlgoResultFile takes it.
DownloadAllNilIsWhole ==
  (mode = "downloadAll" /\ result = "nil") =>
    n = Len(files) /\ ended = "eof" /\ \A i \in DOMAIN sent : sent[i] = "chunk"
=============================================================================
