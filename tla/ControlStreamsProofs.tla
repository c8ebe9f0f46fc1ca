------------------------ MODULE ControlStreamsProofs ------------------------
(***************************************************************************)
(* What the callbacks of Export and of the downloads are given, and what    *)
(* InstallHDCAlgo sends, for any streams, files and tables.                 *)
(*                                                                          *)
(* A call has one mode, so there is one invariant per mode, each about the  *)
(* points that its calls pass (Points).  ExportInv says which tables of the *)
(* record at hand were delivered, DownloadInv that the last part delivered  *)
(* is the last record received, and UploadInv that the chunks of the file   *)
(* at hand are numbered without a gap.  TypeInv is what all of them need.   *)
(***************************************************************************)
EXTENDS ControlStreams, FiniteSetTheorems, SequenceTheorems, WellFoundedInduction, TLAPS

Points ==
  /\ mode = "export" => pc \in {"client", "open", "recv", "nodes", "edges", "returned"}
  /\ mode \in {"download", "downloadAll"} => pc \in {"job", "client", "open", "recv", "returned"}
  /\ mode = "install" => pc \in {"files", "client", "open", "upload", "reply", "returned"}

TypeInv ==
  /\ TypeOK /\ Points
  /\ result # "none" => pc = "returned"
  /\ mode = "export" => sent \in Seq(ExportRecords)
  /\ mode \in {"download", "downloadAll"} => sent \in Seq(ChunkRecords)
  /\ mode = "install" => sent = <<>>

(* Export *)

Handed == [table : {"nodes", "edges"}, record : Nat, slots : Seq(BOOLEAN)]
HeldIn(t, k) == IF t = "nodes" THEN sent[k].nodes ELSE sent[k].edges
Given(t, k) == \E i \in 1 .. Len(delivered) : delivered[i].table = t /\ delivered[i].record = k

\* Every table of the records before the k-th was delivered.
GivenBefore(k) ==
  \A m \in 1 .. k - 1 : \A t \in {"nodes", "edges"} : HeldIn(t, m) # <<>> => Given(t, m)

\* The k-th table of the callback is one of the stream, with all of its rows.
Faithful(k) ==
  LET x == delivered[k]
      held == HeldIn(x.table, x.record)
  IN  /\ x.record \in 1 .. got /\ held # <<>> /\ Len(x.slots) = Len(held[1])
      /\ \A i \in 1 .. Len(x.slots) : x.slots[i] <=> held[1][i] = "good"

\* What was delivered of the record at hand.
Progress ==
  /\ pc \in {"client", "open"} => delivered = <<>>
  /\ pc = "recv" => GivenBefore(got + 1)
  /\ pc = "nodes" => /\ got > 0 /\ HeldIn("nodes", got) # <<>> /\ GivenBefore(got)
                     /\ \A i \in 1 .. Len(delivered) : delivered[i].record < got
  /\ pc = "edges" => /\ got > 0 /\ HeldIn("edges", got) # <<>> /\ GivenBefore(got)
                     /\ HeldIn("nodes", got) # <<>> => Given("nodes", got)
                     /\ \A i \in 1 .. Len(delivered) :
                          delivered[i].record = got => delivered[i].table = "nodes"
  /\ result = "nil" => ended = "eof" /\ got = Len(sent) /\ GivenBefore(got + 1)

ExportInv ==
  mode = "export" =>
    /\ delivered \in Seq(Handed)
    /\ \A k \in 1 .. Len(delivered) : Faithful(k)
    /\ \A i, j \in 1 .. Len(delivered) : i < j => Before(delivered[i], delivered[j])
    /\ Progress

(* The downloads *)

Downloading == mode \in {"download", "downloadAll"}
Piece == [file : Seq(STRING), nth : Nat, part : Nat]

\* The k-th piece is of a file that was opened, follows the one before it, and
\* is one of the records received if its file is the one at hand.
InPlace(k) ==
  LET x == delivered[k]
  IN  /\ x.nth \in 1 .. n /\ x.file = files[x.nth] /\ x.part > 0
      /\ x.nth = n => x.part <= got /\ sent[x.part] = "chunk"
      /\ x.part > 1 => k > 1 /\ delivered[k - 1] = [x EXCEPT !.part = @ - 1]

Precedes(a, b) == a.nth < b.nth \/ (a.nth = b.nth /\ a.part < b.part)

DownloadInv ==
  Downloading =>
    /\ delivered \in Seq(Piece) /\ files \in Seq(Seq(STRING)) /\ n \in 0 .. Len(files)
    /\ \A k \in 1 .. Len(delivered) : InPlace(k)
    /\ \A i, j \in 1 .. Len(delivered) : i < j => Precedes(delivered[i], delivered[j])
    /\ pc \in {"job", "client"} => n = 0
    /\ pc = "open" \/ (pc = "client" /\ mode = "download") => n < Len(files)
    /\ pc = "recv" => n > 0
    /\ pc = "recv" /\ got > 0 =>
         /\ Len(delivered) > 0
         /\ delivered[Len(delivered)] = [file |-> files[n], nth |-> n, part |-> got]

SingleInv ==
  mode = "download" =>
    /\ files \in Seq(Seq(STRING)) /\ n <= 1
    /\ pc = "open" => n = 0
    /\ pc \in {"client", "open"} => files = FilesOf(call.job)
    /\ n = 1 => files = <<Resolve(FilesOf(call.job), call.want)>>
    /\ n = 0 => delivered = <<>>
    /\ pc = "recv" => Len(delivered) = got
    /\ result = "nil" => ended = "eof" /\ got = Len(sent) /\ Len(delivered) = got

(* InstallHDCAlgo *)

Parts == [file : Nat, chunk : Nat, server : BOOLEAN]
UploadInv ==
  mode = "install" =>
    /\ uploaded \in Seq(Parts)
    /\ \A i \in 1 .. Len(uploaded) :
         /\ uploaded[i].file \in 1 .. n
         /\ uploaded[i].server <=> (call.server /\ uploaded[i].file # Len(call.uploads))
    /\ \A i, j \in 1 .. Len(uploaded) : i < j =>
         \/ uploaded[i].file < uploaded[j].file
         \/ uploaded[i].file = uploaded[j].file /\ uploaded[i].chunk < uploaded[j].chunk
    /\ pc \in {"files", "client", "open"} => n = 0
    /\ pc = "upload" => n \in 1 .. Len(call.uploads) /\ {uploaded[i].chunk : i \in SentOf(n)} = 1 .. Chunks(n)
    /\ pc \in {"client", "open"} => Len(call.uploads) >= 2
    /\ pc = "reply" => /\ n = Len(call.uploads)
                       /\ {uploaded[i].chunk : i \in SentOf(n)} = 1 .. call.uploads[n]
    /\ \A f \in 1 .. n - 1 : {uploaded[i].chunk : i \in SentOf(f)} = 1 .. call.uploads[f]

IInv == TypeInv /\ ExportInv /\ DownloadInv /\ SingleInv /\ UploadInv
-----------------------------------------------------------------------------
(* Types *)

LEMMA CallTyped ==
  ASSUME call \in Calls
  PROVE  /\ mode \in {"export", "download", "downloadAll", "install"}
         /\ Downloading => call.job \in Seq(Seq(STRING))
         /\ mode = "download" => call.want \in Seq(STRING)
         /\ mode = "install" => call.uploads \in Seq(Nat) /\ call.server \in BOOLEAN
<1>1. CASE call \in [mode : {"export"}, deadline : BOOLEAN] BY <1>1 DEF mode, Downloading
<1>2. CASE call \in [mode : {"download"}, want : Wanted, job : Jobs, deadline : BOOLEAN]
  <2>1. mode = "download" /\ call.want \in Wanted /\ call.job \in Jobs BY <1>2 DEF mode
  <2> QED BY <2>1, StreamsAssumption
<1>3. CASE call \in [mode : {"downloadAll"}, job : Jobs, deadline : BOOLEAN]
  <2>1. mode = "downloadAll" /\ call.job \in Jobs BY <1>3 DEF mode
  <2> QED BY <2>1, StreamsAssumption
<1>4. CASE call \in [mode : {"install"}, uploads : Uploads, server : BOOLEAN, deadline : BOOLEAN]
  <2>1. mode = "install" /\ call.uploads \in Uploads /\ call.server \in BOOLEAN BY <1>4 DEF mode
  <2> QED BY <2>1, StreamsAssumption DEF Downloading
<1> QED BY <1>1, <1>2, <1>3, <1>4 DEF Calls

LEMMA CallKept == ASSUME Next PROVE call' = call /\ mode' = mode
BY DEF Next, Main, Workers, Server, Expire, ShowJob, CheckFiles, Prepare, Open, RecvEOF, RecvError,
       RecvChunk, RecvTables, Spawn, ParseError, Callback, SendChunk, NextFile, CloseAndRecv,
       Convert, ServerSend, ServerEnd, mode

LEMMA InitInv == Init => IInv
<1> SUFFICES ASSUME Init PROVE IInv
    OBVIOUS
<1>1. /\ call \in Calls /\ ctx = "none" /\ files = <<>> /\ n = 0
      /\ sent = <<>> /\ ended = "open" /\ got = 0
      /\ row = 0 /\ running = {} /\ failed = {} /\ err = FALSE
      /\ delivered = <<>> /\ uploaded = <<>> /\ result = "none"
      BY DEF Init
<1>2. mode \in {"export", "download", "downloadAll", "install"} BY <1>1, CallTyped
<1>3. /\ mode \in {"export", "downloadAll"} => pc = "client"
      /\ mode = "download" => pc = "job"
      /\ mode = "install" => pc = "files"
      BY <1>2 DEF Init
<1>4. TypeInv
  <2>1. TypeOK
    <3>1. Len(sent) = 0 /\ got \in 0 .. Len(sent) BY <1>1
    <3>2. pc \in {"client", "job", "files"} BY <1>2, <1>3
    <3> QED BY <1>1, <3>1, <3>2 DEF TypeOK
  <2>2. Points BY <1>2, <1>3 DEF Points
  <2> QED BY <1>1, <2>1, <2>2 DEF TypeInv
<1>5. ExportInv BY <1>1, <1>3 DEF ExportInv, Progress
<1>6. DownloadInv BY <1>1, <1>3 DEF DownloadInv, Downloading
<1>7. SingleInv BY <1>1, <1>3 DEF SingleInv
<1>8. UploadInv BY <1>1, <1>3 DEF UploadInv
<1> QED BY <1>4, <1>5, <1>6, <1>7, <1>8 DEF IInv

Outcomes == {"none", "nil", "response", "error", "recvError", "statusError", "cbError", "parseError", "panic"}

\* A step that ends the call and leaves the stream alone.
LEMMA ReturnKeepsType ==
  ASSUME TypeInv, NEW r \in Outcomes, Return(r), UNCHANGED <<call, n, sent, ended, err>>,
         got' \in 0 .. Len(sent), row' \in Nat, running' \subseteq 1 .. row', failed' \subseteq 1 .. row'
  PROVE  TypeInv'
<1>1. pc' = "returned" /\ result' = r /\ ctx' \in {"none", "live", "expired", "cancelled"} /\ mode' = mode
      BY DEF Return, TypeInv, TypeOK, mode
<1>2. TypeOK' BY <1>1 DEF TypeInv, TypeOK, Outcomes
<1>3. Points' BY <1>1 DEF Points
<1> QED BY <1>1, <1>2, <1>3 DEF TypeInv

LEMMA TypeStep ==
  ASSUME TypeInv, Next
  PROVE  TypeInv'
<1>1. /\ TypeOK /\ Points /\ mode \in {"export", "download", "downloadAll", "install"}
      /\ call \in Calls /\ n \in Nat /\ got \in 0 .. Len(sent) /\ row \in Nat /\ running \subseteq 1 .. row
      /\ failed \subseteq 1 .. row /\ Len(sent) \in Nat /\ got \in Nat
      BY CallTyped DEF TypeInv, TypeOK, ExportRecords
<1>2. ASSUME ShowJob PROVE TypeInv'
  <2>1. CASE Return("error") BY <1>1, <1>2, <2>1, ReturnKeepsType DEF ShowJob, Outcomes, stream, rows, TypeInv, TypeOK
  <2>2. CASE pc' \in {"client", "open"} /\ UNCHANGED <<ctx, result>>
    <3>1. pc = "job" /\ UNCHANGED <<call, n, sent, ended, got, row, running, failed, err>> /\ mode' = mode
          BY <1>2 DEF ShowJob, stream, rows, mode
    <3> QED BY <1>1, <2>2, <3>1 DEF TypeInv, TypeOK, Points
  <2> QED BY <1>2, <2>1, <2>2 DEF ShowJob
<1>3. ASSUME CheckFiles PROVE TypeInv'
  <2>1. CASE Return("error") BY <1>1, <1>3, <2>1, ReturnKeepsType DEF CheckFiles, Outcomes, stream, rows, TypeInv, TypeOK
  <2>2. CASE pc' = "client" /\ UNCHANGED <<ctx, result>>
    <3>1. pc = "files" /\ UNCHANGED <<call, n, sent, ended, got, row, running, failed, err>> /\ mode' = mode
          BY <1>3 DEF CheckFiles, stream, rows, mode
    <3> QED BY <1>1, <2>2, <3>1 DEF TypeInv, TypeOK, Points
  <2> QED BY <1>3, <2>1, <2>2 DEF CheckFiles
<1>4. ASSUME Prepare PROVE TypeInv'
  <2>1. CASE Return("error") BY <1>1, <1>4, <2>1, ReturnKeepsType DEF Prepare, Outcomes, stream, rows, TypeInv, TypeOK
  <2>2. CASE /\ ctx' = "live" /\ UNCHANGED result
             /\ pc' = IF mode = "downloadAll" THEN "job" ELSE "open"
    <3>1. pc = "client" /\ UNCHANGED <<call, n, sent, ended, got, row, running, failed, err>> /\ mode' = mode
          BY <1>4 DEF Prepare, stream, rows, mode
    <3> QED BY <1>1, <2>2, <3>1 DEF TypeInv, TypeOK, Points
  <2> QED BY <1>4, <2>1, <2>2 DEF Prepare
<1>5. ASSUME Open PROVE TypeInv'
  <2>1. CASE Return("error") /\ UNCHANGED <<files, n, stream>>
        BY <1>1, <1>5, <2>1, ReturnKeepsType DEF Open, Outcomes, stream, rows, TypeInv, TypeOK
  <2>2. CASE /\ pc' = IF mode = "install" THEN "upload" ELSE "recv"
             /\ n' = n + 1 /\ sent' = <<>> /\ ended' = "open" /\ got' = 0 /\ UNCHANGED <<ctx, result>>
    <3>1. pc = "open" /\ UNCHANGED <<call, row, running, failed, err>> /\ mode' = mode
          BY <1>5 DEF Open, rows, mode
    <3> QED BY <1>1, <2>2, <3>1 DEF TypeInv, TypeOK, Points
  <2> QED BY <1>5, <2>1, <2>2 DEF Open
<1>6. ASSUME RecvEOF \/ RecvError PROVE TypeInv'
  <2>1. /\ pc = "recv" /\ UNCHANGED <<call, n, sent, ended, got, row, running, failed, err>> /\ mode' = mode
        /\ \/ \E r \in {"nil", "recvError"} : Return(r)
           \/ mode = "downloadAll" /\ pc' = "open" /\ UNCHANGED <<ctx, result>>
        BY <1>6 DEF RecvEOF, RecvError, stream, rows, mode
  <2>2. CASE \E r \in {"nil", "recvError"} : Return(r)
        BY <1>1, <2>1, <2>2, ReturnKeepsType DEF Outcomes, TypeInv, TypeOK
  <2>3. CASE mode = "downloadAll" /\ pc' = "open" /\ UNCHANGED <<ctx, result>>
        BY <1>1, <2>1, <2>3 DEF TypeInv, TypeOK, Points
  <2> QED BY <2>1, <2>2, <2>3
<1>7. ASSUME RecvChunk PROVE TypeInv'
  <2>1. /\ pc = "recv" /\ got' = got + 1 /\ got < Len(sent) /\ mode \in {"download", "downloadAll"}
        /\ UNCHANGED <<call, n, sent, ended, row, running, failed, err>> /\ mode' = mode
        BY <1>7 DEF RecvChunk, CanRecv, rows, mode
  <2>2. got' \in 0 .. Len(sent) BY <1>1, <2>1
  <2>3. CASE \E r \in {"nil", "statusError", "cbError"} : Return(r)
        BY <1>1, <2>1, <2>2, <2>3, ReturnKeepsType DEF Outcomes, TypeInv, TypeOK
  <2>4. CASE UNCHANGED <<pc, ctx, result>> BY <1>1, <2>1, <2>2, <2>4 DEF TypeInv, TypeOK, Points
  <2> QED BY <1>7, <2>3, <2>4 DEF RecvChunk, FailureResult
<1>8. ASSUME RecvTables PROVE TypeInv'
  <2>1. /\ pc = "recv" /\ got' = got + 1 /\ got < Len(sent) /\ mode = "export"
        /\ row' = 0 /\ failed' = {} /\ running' = {} /\ err' = FALSE
        /\ UNCHANGED <<call, n, sent, ended, ctx, result>> /\ mode' = mode /\ pc' \in {"nodes", "edges", "recv"}
        BY <1>8 DEF RecvTables, CanRecv, rows, mode
  <2>2. got' \in 0 .. Len(sent) BY <1>1, <2>1
  <2> QED BY <1>1, <2>1, <2>2 DEF TypeInv, TypeOK, Points
<1>9. ASSUME Spawn PROVE TypeInv'
  <2>1. /\ row' = row + 1 /\ running' = running \cup {row + 1}
        /\ UNCHANGED <<call, pc, ctx, n, sent, ended, got, failed, err, result>> /\ mode' = mode
        BY <1>9 DEF Spawn, stream, mode
  <2>2. row' \in Nat /\ running' \subseteq 1 .. row' /\ failed' \subseteq 1 .. row' BY <1>1, <2>1
  <2> QED BY <1>1, <2>1, <2>2 DEF TypeInv, TypeOK, Points
<1>10. ASSUME ParseError PROVE TypeInv'
      BY <1>1, <1>10, ReturnKeepsType DEF ParseError, Outcomes, stream, rows, TypeInv, TypeOK
<1>11. ASSUME Callback PROVE TypeInv'
  <2>1. /\ pc \in {"nodes", "edges"} /\ running = {} /\ row' = 0 /\ failed' = {} /\ running' = running
        /\ UNCHANGED <<call, n, sent, ended, got>> /\ mode' = mode /\ err' \in BOOLEAN
        BY <1>11 DEF Callback, stream, mode
  <2>2. \/ Return("cbError")
        \/ pc' \in {"edges", "recv"} /\ UNCHANGED <<ctx, result>>
        BY <1>11 DEF Callback, AfterTable
  <2>3. CASE Return("cbError")
    <3>1. pc' = "returned" /\ result' = "cbError" /\ ctx' \in {"none", "live", "expired", "cancelled"}
          BY <2>3 DEF Return, TypeInv, TypeOK
    <3> QED BY <1>1, <2>1, <3>1 DEF TypeInv, TypeOK, Points
  <2>4. CASE pc' \in {"edges", "recv"} /\ UNCHANGED <<ctx, result>>
        BY <1>1, <2>1, <2>4 DEF TypeInv, TypeOK, Points
  <2> QED BY <2>2, <2>3, <2>4
<1>12. ASSUME SendChunk PROVE TypeInv'
  <2>1. CASE Return("error") BY <1>1, <1>12, <2>1, ReturnKeepsType DEF SendChunk, Outcomes, stream, rows, TypeInv, TypeOK
  <2>2. CASE UNCHANGED <<pc, ctx, result>>
    <3>1. UNCHANGED <<call, n, sent, ended, got, row, running, failed, err>> /\ mode' = mode
          BY <1>12 DEF SendChunk, stream, rows, mode
    <3> QED BY <1>1, <2>2, <3>1 DEF TypeInv, TypeOK, Points
  <2> QED BY <1>12, <2>1, <2>2 DEF SendChunk
<1>13. ASSUME NextFile PROVE TypeInv'
  <2>1. pc = "upload" /\ UNCHANGED <<call, sent, ended, got, row, running, failed, err>> /\ mode' = mode
        BY <1>13 DEF NextFile, stream, rows, mode
  <2>2. CASE Return("error") /\ UNCHANGED n
        BY <1>1, <2>1, <2>2, ReturnKeepsType DEF Outcomes, TypeInv, TypeOK
  <2>3. CASE pc' \in {"upload", "reply"} /\ n' \in Nat /\ UNCHANGED <<ctx, result>>
        BY <1>1, <2>1, <2>3 DEF TypeInv, TypeOK, Points
  <2>4. n + 1 \in Nat BY <1>1
  <2> QED BY <1>1, <1>13, <2>1, <2>2, <2>3, <2>4 DEF NextFile
<1>14. ASSUME CloseAndRecv PROVE TypeInv'
  <2>1. PICK r \in {"error", "response", "nil"} : Return(r) BY <1>14 DEF CloseAndRecv
  <2> QED BY <1>1, <1>14, <2>1, ReturnKeepsType DEF CloseAndRecv, Outcomes, stream, rows, TypeInv, TypeOK
<1>15. ASSUME NEW i \in running, Convert(i) PROVE TypeInv'
  <2>1. /\ UNCHANGED <<call, n, sent, ended, got, row, err>> /\ mode' = mode
        /\ running' \subseteq 1 .. row /\ failed' \subseteq 1 .. row
        BY <1>1, <1>15 DEF Convert, stream, mode
  <2>2. CASE Return("panic") BY <1>1, <2>1, <2>2, ReturnKeepsType DEF Outcomes, TypeInv, TypeOK
  <2>3. CASE UNCHANGED <<pc, ctx, result>> BY <1>1, <2>1, <2>3 DEF TypeInv, TypeOK, Points
  <2> QED BY <1>15, <2>2, <2>3 DEF Convert
<1>16. ASSUME Server PROVE TypeInv'
  <2>1. UNCHANGED <<call, pc, ctx, n, got, row, running, failed, err, result>> /\ mode' = mode /\ pc = "recv"
        BY <1>16 DEF Server, ServerSend, ServerEnd, rows, mode
  <2>2. CASE sent' = sent /\ ended' \in {"eof", "broken"}
        BY <1>1, <2>1, <2>2 DEF TypeInv, TypeOK, Points
  <2>3. CASE mode = "export" /\ \E r \in ExportRecords : sent' = Append(sent, r) /\ ended' = ended
    <3>1. sent' \in Seq(ExportRecords) /\ got \in 0 .. Len(sent') BY <1>1, <2>3 DEF TypeInv
    <3> QED BY <1>1, <2>1, <2>3, <3>1 DEF TypeInv, TypeOK, Points
  <2>4. CASE mode \in {"download", "downloadAll"} /\ \E r \in ChunkRecords : sent' = Append(sent, r) /\ ended' = ended
    <3>1. sent' \in Seq(ChunkRecords) /\ got \in 0 .. Len(sent') BY <1>1, <2>4 DEF TypeInv
    <3> QED BY <1>1, <2>1, <2>4, <3>1 DEF TypeInv, TypeOK, Points
  <2> QED BY <1>16, <2>2, <2>3, <2>4 DEF Server, ServerSend, ServerEnd
<1>17. ASSUME Expire PROVE TypeInv'
  <2>1. UNCHANGED <<call, pc, n, sent, ended, got, row, running, failed, err, result>> /\ mode' = mode /\ ctx' = "expired"
        BY <1>17 DEF Expire, rows, stream, mode
  <2> QED BY <1>1, <2>1 DEF TypeInv, TypeOK, Points
<1> QED BY <1>2, <1>3, <1>4, <1>5, <1>6, <1>7, <1>8, <1>9, <1>10, <1>11, <1>12, <1>13, <1>14, <1>15,
           <1>16, <1>17 DEF Next, Main, Workers
-----------------------------------------------------------------------------
(* InstallHDCAlgo *)

\* The chunks of file f that were sent, and how many, when one more is sent.
LEMMA OneMoreChunk ==
  ASSUME uploaded \in Seq(Parts), NEW p \in Parts, uploaded' = Append(uploaded, p)
  PROVE  /\ uploaded' \in Seq(Parts) /\ Len(uploaded') = Len(uploaded) + 1
         /\ \A i \in 1 .. Len(uploaded) : uploaded'[i] = uploaded[i]
         /\ uploaded'[Len(uploaded) + 1] = p
         /\ \A f : f # p.file => {uploaded'[i].chunk : i \in SentOf(f)'} = {uploaded[i].chunk : i \in SentOf(f)}
         /\ {uploaded'[i].chunk : i \in SentOf(p.file)'} = {uploaded[i].chunk : i \in SentOf(p.file)} \cup {p.chunk}
         /\ Chunks(p.file)' = Chunks(p.file) + 1
         /\ Chunks(p.file) \in Nat
<1>1. /\ uploaded' \in Seq(Parts) /\ Len(uploaded') = Len(uploaded) + 1 /\ Len(uploaded) \in Nat
      /\ \A i \in 1 .. Len(uploaded) : uploaded'[i] = uploaded[i]
      /\ uploaded'[Len(uploaded) + 1] = p
      OBVIOUS
<1>2. DOMAIN uploaded' = DOMAIN uploaded \cup {Len(uploaded) + 1} /\ DOMAIN uploaded = 1 .. Len(uploaded)
      BY <1>1
<1>3. ASSUME NEW f, f # p.file PROVE SentOf(f)' = SentOf(f) BY <1>1, <1>2, <1>3 DEF SentOf
<1>4. SentOf(p.file)' = SentOf(p.file) \cup {Len(uploaded) + 1} /\ Len(uploaded) + 1 \notin SentOf(p.file)
      BY <1>1, <1>2 DEF SentOf
<1>5. \A f : \A i \in SentOf(f) : i \in 1 .. Len(uploaded) /\ uploaded'[i] = uploaded[i]
      BY <1>1, <1>2 DEF SentOf
<1>6. ASSUME NEW f, f # p.file
      PROVE  {uploaded'[i].chunk : i \in SentOf(f)'} = {uploaded[i].chunk : i \in SentOf(f)}
      BY <1>3, <1>5, <1>6
<1>7. {uploaded'[i].chunk : i \in SentOf(p.file)'} = {uploaded[i].chunk : i \in SentOf(p.file)} \cup {p.chunk}
  <2>1. \A i \in SentOf(p.file)' : i \in SentOf(p.file) \/ i = Len(uploaded) + 1 BY <1>4
  <2>2. \A i \in SentOf(p.file) : i \in SentOf(p.file)' BY <1>4
  <2>3. Len(uploaded) + 1 \in SentOf(p.file)' BY <1>4
  <2> QED BY <1>1, <1>5, <2>1, <2>2, <2>3
<1>8. IsFiniteSet(SentOf(p.file))
  <2>1. IsFiniteSet(1 .. Len(uploaded)) BY <1>1, FS_Interval
  <2>2. SentOf(p.file) \subseteq 1 .. Len(uploaded) BY <1>5
  <2> QED BY <2>1, <2>2, FS_Subset
<1>9. Chunks(p.file)' = Chunks(p.file) + 1 /\ Chunks(p.file) \in Nat
  <2>1. Cardinality(SentOf(p.file) \cup {Len(uploaded) + 1}) = Cardinality(SentOf(p.file)) + 1
        BY <1>4, <1>8, FS_AddElement
  <2>2. Chunks(p.file)' = Cardinality(SentOf(p.file)') BY DEF Chunks
  <2> QED BY <1>4, <1>8, <2>1, <2>2, FS_CardinalityType DEF Chunks
<1> QED BY <1>1, <1>6, <1>7, <1>9

LEMMA UploadStep ==
  ASSUME TypeInv, UploadInv, Next
  PROVE  UploadInv'
<1>1. call' = call /\ mode' = mode BY CallKept
<1> SUFFICES ASSUME mode = "install" PROVE UploadInv'
    BY <1>1 DEF UploadInv
<1>2. /\ call.uploads \in Seq(Nat) /\ call.server \in BOOLEAN /\ Len(call.uploads) \in Nat
      /\ pc \in {"files", "client", "open", "upload", "reply", "returned"} /\ n \in Nat
      BY CallTyped DEF TypeInv, TypeOK, Points
<1>3. /\ uploaded \in Seq(Parts) /\ Len(uploaded) \in Nat
      /\ \A i \in 1 .. Len(uploaded) :
           /\ uploaded[i].file \in 1 .. n
           /\ uploaded[i].server <=> (call.server /\ uploaded[i].file # Len(call.uploads))
      BY DEF UploadInv
<1>4. CASE UNCHANGED <<n, uploaded>> /\ (pc' = pc \/ pc' = "returned")
  <2>1. SentOf(n)' = SentOf(n) /\ Chunks(n)' = Chunks(n) /\ \A f : SentOf(f)' = SentOf(f)
        BY <1>4 DEF SentOf, Chunks
  <2> QED BY <1>1, <1>4, <2>1 DEF UploadInv
<1>5. CASE CheckFiles \/ Prepare
  <2>1. /\ UNCHANGED <<n, uploaded>> /\ pc \in {"files", "client"}
        /\ pc' = "returned" \/ (pc' \in {"client", "open"} /\ Len(call.uploads) >= 2)
        BY <1>2, <1>5 DEF CheckFiles, Prepare, UploadInv, Return
  <2>2. n = 0 BY <2>1 DEF UploadInv
  <2>3. uploaded' = uploaded /\ n' = 0 BY <2>1, <2>2
  <2> QED BY <1>1, <2>1, <2>2, <2>3 DEF UploadInv
<1>6. CASE Open
  <2>1. CASE UNCHANGED <<n, uploaded>> /\ pc' = "returned" BY <1>4, <2>1
  <2>2. CASE pc' = "upload" /\ n' = n + 1 /\ uploaded' = uploaded
    <3>1. n = 0 /\ Len(call.uploads) >= 2 BY <1>6 DEF Open, UploadInv
    <3>2. uploaded = <<>> /\ Len(uploaded) = 0
      <4>1. Len(uploaded) = 0 BY <1>3, <3>1
      <4> QED BY <1>3, <4>1
    <3>3. SentOf(n)' = {} BY <2>2, <3>2 DEF SentOf
    <3>4. Chunks(n)' = 0
      <4>1. Chunks(n)' = Cardinality(SentOf(n)') BY DEF Chunks
      <4> QED BY <3>3, <4>1, FS_EmptySet
    <3>5. n' = 1 /\ n' \in 1 .. Len(call.uploads) BY <1>2, <2>2, <3>1
    <3>6. {uploaded'[i].chunk : i \in SentOf(n)'} = 1 .. Chunks(n)' BY <3>3, <3>4
    <3> QED BY <1>1, <1>3, <2>2, <3>2, <3>5, <3>6 DEF UploadInv
  <2> QED BY <1>6, <2>1, <2>2 DEF Open, Return
<1>7. CASE SendChunk
  <2>1. CASE UNCHANGED <<n, uploaded>> /\ pc' = "returned" BY <1>4, <2>1
  <2>2. CASE uploaded' = Append(uploaded, Part(n, Chunks(n) + 1, WithServer(n))) /\ pc' = pc /\ n' = n
    <3>0. PICK p : p = Part(n, Chunks(n) + 1, WithServer(n)) OBVIOUS
    <3>1. pc = "upload" /\ n \in 1 .. Len(call.uploads) /\ {uploaded[i].chunk : i \in SentOf(n)} = 1 .. Chunks(n)
          BY <1>7 DEF SendChunk, UploadInv
    <3>2. Chunks(n) \in Nat
      <4>1. IsFiniteSet(1 .. Len(uploaded)) BY <1>3, FS_Interval
      <4>2. SentOf(n) \subseteq 1 .. Len(uploaded) BY <1>3 DEF SentOf
      <4> QED BY <4>1, <4>2, FS_Subset, FS_CardinalityType DEF Chunks
    <3>3. /\ p \in Parts /\ p.file = n /\ p.chunk = Chunks(n) + 1
          /\ p.server <=> (call.server /\ n # Len(call.uploads))
      <4>1. WithServer(n) <=> (call.server /\ n # Len(call.uploads)) BY <1>2, <3>1 DEF WithServer
      <4>2. WithServer(n) \in BOOLEAN BY <1>2 DEF WithServer
      <4> QED BY <1>2, <3>0, <3>2, <4>1, <4>2 DEF Part, Parts
    <3>4. /\ uploaded' \in Seq(Parts) /\ Len(uploaded') = Len(uploaded) + 1
          /\ \A i \in 1 .. Len(uploaded) : uploaded'[i] = uploaded[i]
          /\ uploaded'[Len(uploaded) + 1] = p
          /\ \A f : f # n => {uploaded'[i].chunk : i \in SentOf(f)'} = {uploaded[i].chunk : i \in SentOf(f)}
          /\ {uploaded'[i].chunk : i \in SentOf(p.file)'} = {uploaded[i].chunk : i \in SentOf(p.file)} \cup {p.chunk}
          /\ Chunks(p.file)' = Chunks(p.file) + 1
          BY <1>3, <2>2, <3>0, <3>3, OneMoreChunk
    <3>5. SentOf(p.file)' = SentOf(n)' /\ Chunks(p.file)' = Chunks(n)'
          BY <2>2, <3>3 DEF SentOf, Chunks
    <3>6. {uploaded'[i].chunk : i \in SentOf(n)'} = 1 .. Chunks(n)'
      <4>1. {uploaded'[i].chunk : i \in SentOf(n)'} = (1 .. Chunks(n)) \cup {Chunks(n) + 1}
            BY <3>1, <3>3, <3>4, <3>5
      <4>2. Chunks(n)' = Chunks(n) + 1 BY <3>3, <3>4, <3>5
      <4>3. (1 .. Chunks(n)) \cup {Chunks(n) + 1} = 1 .. Chunks(n) + 1 BY <3>2
      <4> QED BY <4>1, <4>2, <4>3
    <3>7. ASSUME NEW i \in 1 .. Len(uploaded')
          PROVE  /\ uploaded'[i].file \in 1 .. n'
                 /\ uploaded'[i].server <=> (call.server /\ uploaded'[i].file # Len(call.uploads))
      <4>1. CASE i = Len(uploaded) + 1 BY <2>2, <3>1, <3>3, <3>4, <4>1
      <4>2. CASE i \in 1 .. Len(uploaded) BY <1>3, <2>2, <3>4, <4>2
      <4> QED BY <1>3, <3>4, <4>1, <4>2
    <3>8. ASSUME NEW i \in 1 .. Len(uploaded'), NEW j \in 1 .. Len(uploaded'), i < j
          PROVE  \/ uploaded'[i].file < uploaded'[j].file
                 \/ uploaded'[i].file = uploaded'[j].file /\ uploaded'[i].chunk < uploaded'[j].chunk
      <4>1. i \in 1 .. Len(uploaded) BY <1>3, <3>4, <3>8
      <4>2. CASE j \in 1 .. Len(uploaded) BY <3>4, <3>8, <4>1, <4>2 DEF UploadInv
      <4>3. CASE j = Len(uploaded) + 1
        <5>1. uploaded'[i] = uploaded[i] /\ uploaded'[j] = p BY <3>4, <4>1, <4>3
        <5>2. uploaded[i].file \in 1 .. n BY <1>3, <4>1
        <5>3. CASE uploaded[i].file # n BY <1>2, <3>3, <5>1, <5>2, <5>3
        <5>4. CASE uploaded[i].file = n
          <6>1. i \in SentOf(n) BY <1>3, <4>1, <5>4 DEF SentOf
          <6>2. uploaded[i].chunk \in 1 .. Chunks(n) BY <3>1, <6>1
          <6>3. uploaded[i].chunk < Chunks(n) + 1 BY <3>2, <6>2
          <6> QED BY <3>3, <5>1, <5>4, <6>3
        <5> QED BY <5>3, <5>4
      <4> QED BY <1>3, <3>4, <4>2, <4>3
    <3>9. \A f \in 1 .. n' - 1 : {uploaded'[i].chunk : i \in SentOf(f)'} = 1 .. call.uploads[f]
      <4>1. \A f \in 1 .. n - 1 : f # n BY <1>2
      <4> QED BY <2>2, <3>4, <4>1 DEF UploadInv
    <3> QED BY <1>1, <2>2, <3>1, <3>4, <3>6, <3>7, <3>8, <3>9 DEF UploadInv
  <2> QED BY <1>7, <2>1, <2>2 DEF SendChunk, Return
<1>8. CASE NextFile
  <2>1. /\ pc = "upload" /\ Chunks(n) = call.uploads[n] /\ uploaded' = uploaded
        /\ n \in 1 .. Len(call.uploads) /\ {uploaded[i].chunk : i \in SentOf(n)} = 1 .. Chunks(n)
        BY <1>8 DEF NextFile, UploadInv
  <2>2. \A f : SentOf(f)' = {i \in DOMAIN uploaded : uploaded[i].file = f} BY <2>1 DEF SentOf
  <2>3. CASE UNCHANGED <<n, uploaded>> /\ pc' = "returned" BY <1>4, <2>3
  <2>4. CASE n < Len(call.uploads) /\ n' = n + 1 /\ pc' = pc
    <3>1. SentOf(n)' = {}
      <4>1. \A i \in DOMAIN uploaded : uploaded[i].file # n + 1 BY <1>2, <1>3
      <4>2. SentOf(n)' = {i \in DOMAIN uploaded' : uploaded'[i].file = n'} BY DEF SentOf
      <4> QED BY <2>1, <2>4, <4>1, <4>2
    <3>2. Chunks(n)' = 0
      <4>1. Chunks(n)' = Cardinality(SentOf(n)') BY DEF Chunks
      <4> QED BY <3>1, <4>1, FS_EmptySet
    <3>3. {uploaded'[i].chunk : i \in SentOf(n)'} = 1 .. Chunks(n)' BY <3>1, <3>2
    <3>4. n' \in 1 .. Len(call.uploads) /\ n' - 1 = n BY <1>2, <2>4
    <3>5. \A i \in 1 .. Len(uploaded) : uploaded[i].file \in 1 .. n' BY <1>2, <1>3, <2>4
    <3>6. ASSUME NEW f \in 1 .. n PROVE {uploaded'[i].chunk : i \in SentOf(f)'} = 1 .. call.uploads[f]
      <4>1. SentOf(f)' = SentOf(f) BY <2>1 DEF SentOf
      <4>2. f \in 1 .. n - 1 \/ f = n BY <1>2
      <4> QED BY <2>1, <4>1, <4>2 DEF UploadInv
    <3> QED BY <1>1, <1>3, <2>1, <2>4, <3>3, <3>4, <3>5, <3>6 DEF UploadInv
  <2>5. CASE n = Len(call.uploads) /\ pc' = "reply" /\ n' = n
    <3>1. {uploaded'[i].chunk : i \in SentOf(n)'} = 1 .. call.uploads[n]
      <4>1. SentOf(n)' = SentOf(n) BY <2>1, <2>5 DEF SentOf
      <4> QED BY <2>1, <4>1
    <3>2. \A f \in 1 .. n - 1 : SentOf(f)' = SentOf(f) BY <2>1 DEF SentOf
    <3> QED BY <1>1, <2>1, <2>5, <3>1, <3>2 DEF UploadInv
  <2> QED BY <1>2, <1>8, <2>1, <2>3, <2>4, <2>5 DEF NextFile, Return
<1>9. CASE CloseAndRecv \/ Expire BY <1>4, <1>9 DEF CloseAndRecv, Expire, Return
<1>10. ~(ShowJob \/ RecvEOF \/ RecvError \/ RecvChunk \/ RecvTables \/ Spawn \/ ParseError \/ Callback
         \/ Workers \/ Server)
      BY <1>2 DEF ShowJob, RecvEOF, RecvError, RecvChunk, RecvTables, CanRecv, Spawn, ParseError, Callback,
                  Workers, Convert, Server, ServerSend, ServerEnd
<1> QED BY <1>5, <1>6, <1>7, <1>8, <1>9, <1>10 DEF Next, Main
-----------------------------------------------------------------------------
(* Export *)

LEMMA HeldTyped ==
  ASSUME sent \in Seq(ExportRecords), NEW k \in 1 .. Len(sent), NEW t
  PROVE  HeldIn(t, k) # <<>> => HeldIn(t, k)[1] \in Seq({"good", "bad", "orphan"})
<1>1. sent[k].nodes \in Optional(Tables) /\ sent[k].edges \in Optional(Tables)
  <2>1. sent[k] \in ExportRecords OBVIOUS
  <2> QED BY <2>1 DEF ExportRecords
<1>2. HeldIn(t, k) \in Optional(Tables) BY <1>1 DEF HeldIn
<1>3. HeldIn(t, k) # <<>> => HeldIn(t, k)[1] \in Tables BY <1>2 DEF Optional
<1> QED BY <1>3, StreamsAssumption

\* Nothing is delivered, and the records received so far are as they were.
LEMMA ExportStays ==
  ASSUME TypeInv, ExportInv, mode = "export", mode' = mode, UNCHANGED <<delivered, got>>,
         \A t : \A k \in 1 .. got : HeldIn(t, k)' = HeldIn(t, k),
         \/ pc' = "returned" /\ result' # "nil"
         \/ pc' = pc /\ result' = result /\ result # "nil"
         \/ pc' = pc /\ UNCHANGED <<result, sent, ended>>
  PROVE  ExportInv'
<1>1. got \in Nat /\ delivered \in Seq(Handed) /\ Len(delivered) \in Nat
      BY DEF TypeInv, TypeOK, ExportInv, ExportRecords
<1>2. \A k \in 1 .. Len(delivered) : Faithful(k)' BY DEF ExportInv, Faithful
<1>3. ASSUME NEW k \in {got, got + 1}, GivenBefore(k) PROVE GivenBefore(k)'
  <2>1. \A m \in 1 .. k - 1 : m \in 1 .. got BY <1>1
  <2> QED BY <1>3, <2>1 DEF GivenBefore, Given
<1>4. Progress'
  <2>1. \A t : Given(t, got)' <=> Given(t, got) BY DEF Given
  <2>2. GivenBefore(got + 1) => GivenBefore(got + 1)'
    <3>1. PICK k : k = got + 1 OBVIOUS
    <3>2. GivenBefore(k) => GivenBefore(k)' BY <1>3, <3>1
    <3> QED BY <3>1, <3>2 DEF GivenBefore
  <2>3. GivenBefore(got) => GivenBefore(got)'
    <3>1. PICK k : k = got OBVIOUS
    <3>2. GivenBefore(k) => GivenBefore(k)' BY <1>3, <3>1
    <3> QED BY <3>1, <3>2 DEF GivenBefore
  <2>4. got > 0 => \A t : HeldIn(t, got)' = HeldIn(t, got)
    <3>1. PICK k : k = got OBVIOUS
    <3>2. got > 0 => \A t : HeldIn(t, k)' = HeldIn(t, k) BY <1>1, <3>1
    <3> QED BY <3>1, <3>2 DEF HeldIn
  <2> QED BY <2>1, <2>2, <2>3, <2>4 DEF ExportInv, Progress, TypeInv
<1> QED BY <1>1, <1>2, <1>4 DEF ExportInv, Before

LEMMA OneMoreTable ==
  ASSUME TypeInv, ExportInv, mode = "export", Callback
  PROVE  /\ got \in 1 .. Len(sent) /\ HeldIn(pc, got) # <<>>
         /\ delivered' \in Seq(Handed) /\ Len(delivered') = Len(delivered) + 1 /\ Len(delivered) \in Nat
         /\ \A i \in 1 .. Len(delivered) : delivered'[i] = delivered[i]
         /\ LET x == delivered'[Len(delivered) + 1]
            IN  /\ x.table = pc /\ x.record = got /\ Len(x.slots) = Len(HeldIn(pc, got)[1])
                /\ \A i \in 1 .. Len(x.slots) : x.slots[i] <=> HeldIn(pc, got)[1][i] = "good"
<1> DEFINE table == HeldIn(pc, got)[1]
           slots == [i \in 1 .. row |-> table[i] = "good"]
           x == [table |-> pc, record |-> got, slots |-> slots]
<1>1. pc \in {"nodes", "edges"} /\ row = Len(Table) /\ row \in Nat BY DEF Callback, TypeInv, TypeOK
<1>2. Table = table BY <1>1 DEF Table, Record, HeldIn
<1>3. got \in 1 .. Len(sent) /\ HeldIn(pc, got) # <<>> /\ got \in Nat
      BY <1>1 DEF ExportInv, Progress, TypeInv, TypeOK, ExportRecords
<1>4. table \in Seq({"good", "bad", "orphan"})
  <2>1. PICK k : k = got OBVIOUS
  <2>2. PICK t : t = pc OBVIOUS
  <2>3. HeldIn(t, k)[1] \in Seq({"good", "bad", "orphan"})
        BY <1>3, <2>1, <2>2, HeldTyped DEF TypeInv
  <2> QED BY <2>1, <2>2, <2>3
<1>5. delivered' = Append(delivered, x) BY <1>2 DEF Callback
<1> HIDE DEF table
<1>6. slots \in [1 .. row -> BOOLEAN] OBVIOUS
<1>7. slots \in Seq(BOOLEAN) /\ Len(slots) = row
  <2>1. ASSUME NEW f \in [1 .. row -> BOOLEAN] PROVE f \in Seq(BOOLEAN) /\ Len(f) = row BY <1>1
  <2> QED BY <1>6, <2>1
<1>8. \A i \in 1 .. row : slots[i] <=> table[i] = "good" OBVIOUS
<1> HIDE DEF slots
<1>9. x \in Handed BY <1>1, <1>3, <1>7 DEF Handed
<1>10. x.table = pc /\ x.record = got /\ x.slots = slots OBVIOUS
<1> HIDE DEF x
<1>11. delivered \in Seq(Handed) BY DEF ExportInv
<1>12. /\ delivered' \in Seq(Handed) /\ Len(delivered') = Len(delivered) + 1 /\ Len(delivered) \in Nat
       /\ \A i \in 1 .. Len(delivered) : delivered'[i] = delivered[i]
       /\ delivered'[Len(delivered) + 1] = x
       BY <1>5, <1>9, <1>11
<1> QED BY <1>1, <1>2, <1>3, <1>7, <1>8, <1>10, <1>12 DEF table

LEMMA CallbackStep ==
  ASSUME TypeInv, ExportInv, mode = "export", Callback
  PROVE  ExportInv'
<1>1. /\ got \in 1 .. Len(sent) /\ HeldIn(pc, got) # <<>>
      /\ delivered' \in Seq(Handed) /\ Len(delivered') = Len(delivered) + 1 /\ Len(delivered) \in Nat
      /\ \A i \in 1 .. Len(delivered) : delivered'[i] = delivered[i]
      BY OneMoreTable
<1>2. PICK x : x = delivered'[Len(delivered) + 1] OBVIOUS
<1>3. /\ x.table = pc /\ x.record = got /\ Len(x.slots) = Len(HeldIn(pc, got)[1])
      /\ \A i \in 1 .. Len(x.slots) : x.slots[i] <=> HeldIn(pc, got)[1][i] = "good"
      BY <1>2, OneMoreTable
<1>4. /\ UNCHANGED <<sent, got, ended, call>> /\ mode' = mode /\ pc \in {"nodes", "edges"}
      /\ got \in Nat /\ result = "none"
      BY <1>1 DEF Callback, stream, mode, TypeInv, TypeOK
<1>5. \A t, k : HeldIn(t, k)' = HeldIn(t, k) BY <1>4 DEF HeldIn
<1>6. ASSUME NEW k \in 1 .. Len(delivered') PROVE Faithful(k)'
  <2>1. CASE k = Len(delivered) + 1
    <3>1. Faithful(k)' <=> LET held == HeldIn(x.table, x.record)'
                            IN  /\ x.record \in 1 .. got' /\ held # <<>> /\ Len(x.slots) = Len(held[1])
                                /\ \A i \in 1 .. Len(x.slots) : x.slots[i] <=> held[1][i] = "good"
          BY <1>2, <2>1 DEF Faithful, HeldIn
    <3>2. HeldIn(x.table, x.record)' = HeldIn(pc, got) BY <1>3, <1>4 DEF HeldIn
    <3> QED BY <1>1, <1>3, <1>4, <3>1, <3>2
  <2>2. CASE k \in 1 .. Len(delivered)
    <3>1. Faithful(k) BY <2>2 DEF ExportInv
    <3>2. delivered'[k] = delivered[k] BY <1>1, <2>2
    <3> QED BY <1>4, <1>5, <3>1, <3>2 DEF Faithful
  <2> QED BY <1>1, <2>1, <2>2
<1>7. ASSUME NEW i \in 1 .. Len(delivered) PROVE Before(delivered[i], x)
  <2>1. Faithful(i) BY DEF ExportInv
  <2>2. delivered[i].record \in 1 .. got BY <2>1 DEF Faithful
  <2>3. delivered[i].table \in {"nodes", "edges"}
    <3>1. delivered[i] \in Handed BY DEF ExportInv
    <3> QED BY <3>1 DEF Handed
  <2> QED BY <1>3, <1>4, <2>2, <2>3 DEF Before, ExportInv, Progress
<1>8. ASSUME NEW i \in 1 .. Len(delivered'), NEW j \in 1 .. Len(delivered'), i < j
      PROVE  Before(delivered'[i], delivered'[j])
  <2>1. i \in 1 .. Len(delivered) /\ delivered'[i] = delivered[i] BY <1>1, <1>8
  <2>2. CASE j = Len(delivered) + 1 BY <1>2, <1>7, <2>1, <2>2
  <2>3. CASE j \in 1 .. Len(delivered) BY <1>1, <1>8, <2>1, <2>3 DEF ExportInv
  <2> QED BY <1>1, <2>2, <2>3
<1>9. /\ \A t, k : Given(t, k) => Given(t, k)'
      /\ \A t, k : t = pc /\ k = got => Given(t, k)'
  <2>1. ASSUME NEW t, NEW k, Given(t, k) PROVE Given(t, k)'
    <3>1. PICK i \in 1 .. Len(delivered) : delivered[i].table = t /\ delivered[i].record = k
          BY <2>1 DEF Given
    <3>2. i \in 1 .. Len(delivered') /\ delivered'[i] = delivered[i] BY <1>1
    <3> QED BY <3>1, <3>2 DEF Given
  <2>2. ASSUME NEW t, NEW k, t = pc, k = got PROVE Given(t, k)'
    <3>1. Len(delivered) + 1 \in 1 .. Len(delivered') BY <1>1
    <3> QED BY <1>2, <1>3, <2>2, <3>1 DEF Given
  <2> QED BY <2>1, <2>2
<1>10. GivenBefore(got) /\ (HeldIn("nodes", got) # <<>> => pc = "nodes" \/ Given("nodes", got))
       BY <1>4 DEF ExportInv, Progress
<1>11. GivenBefore(got)' BY <1>4, <1>5, <1>9, <1>10 DEF GivenBefore
<1>12. CASE pc = "nodes" /\ Record.edges # <<>> /\ pc' = "edges" /\ UNCHANGED result
  <2>1. HeldIn("edges", got)' # <<>> BY <1>4, <1>12 DEF HeldIn, Record
  <2>2. Given("nodes", got)'
    <3>1. PICK k : k = got OBVIOUS
    <3>2. Given("nodes", k)' BY <1>9, <1>12, <3>1
    <3> QED BY <1>4, <3>1, <3>2 DEF Given
  <2>3. ASSUME NEW i \in 1 .. Len(delivered'), delivered'[i].record = got' PROVE delivered'[i].table = "nodes"
    <3>1. CASE i = Len(delivered) + 1 BY <1>2, <1>3, <1>12, <3>1
    <3>2. CASE i \in 1 .. Len(delivered)
      <4>1. delivered[i].record < got BY <1>12, <3>2 DEF ExportInv, Progress
      <4>2. delivered'[i] = delivered[i] BY <1>1, <3>2
      <4> QED BY <1>4, <2>3, <4>1, <4>2
    <3> QED BY <1>1, <3>1, <3>2
  <2>4. got' > 0 BY <1>1, <1>4
  <2>5. Progress' BY <1>4, <1>11, <1>12, <2>1, <2>2, <2>3, <2>4 DEF Progress
  <2> QED BY <1>1, <1>6, <1>8, <2>5 DEF ExportInv
<1>13. CASE pc' = "returned" /\ result' = "cbError"
  <2>1. Progress' BY <1>13 DEF Progress
  <2> QED BY <1>1, <1>6, <1>8, <2>1 DEF ExportInv
<1>14. CASE ~(pc = "nodes" /\ Record.edges # <<>>) /\ pc' = "recv" /\ UNCHANGED result
  <2>1. ASSUME NEW m \in 1 .. got, NEW t \in {"nodes", "edges"}, HeldIn(t, m)' # <<>> PROVE Given(t, m)'
    <3>1. HeldIn(t, m) # <<>> BY <1>5, <2>1
    <3>2. CASE m \in 1 .. got - 1 BY <1>9, <1>10, <3>1, <3>2 DEF GivenBefore
    <3>3. CASE m = got
      <4>1. CASE t = pc BY <1>9, <3>3, <4>1
      <4>2. CASE t # pc
        <5>1. t = "nodes" /\ pc = "edges" BY <1>4, <1>14, <3>1, <3>3, <4>2 DEF HeldIn, Record
        <5> QED BY <1>9, <1>10, <3>1, <3>3, <5>1
      <4> QED BY <4>1, <4>2
    <3> QED BY <1>1, <1>4, <3>2, <3>3
  <2>2. GivenBefore(got + 1)'
    <3>1. (got + 1)' - 1 = got BY <1>4
    <3> QED BY <2>1, <3>1 DEF GivenBefore
  <2>3. Progress' BY <1>4, <1>14, <2>2 DEF Progress
  <2> QED BY <1>1, <1>6, <1>8, <2>3 DEF ExportInv
<1> QED BY <1>12, <1>13, <1>14 DEF Callback, AfterTable, Return

LEMMA ExportStep ==
  ASSUME TypeInv, ExportInv, Next
  PROVE  ExportInv'
<1>1. call' = call /\ mode' = mode BY CallKept
<1> SUFFICES ASSUME mode = "export" PROVE ExportInv'
    BY <1>1 DEF ExportInv
<1>2. /\ pc \in {"client", "open", "recv", "nodes", "edges", "returned"}
      /\ sent \in Seq(ExportRecords) /\ Len(sent) \in Nat /\ got \in 0 .. Len(sent) /\ got \in Nat
      /\ delivered \in Seq(Handed)
      /\ pc # "returned" => result = "none"
      BY DEF TypeInv, TypeOK, Points, ExportInv
<1>3. CASE /\ UNCHANGED <<delivered, got, sent, ended>>
           /\ \/ pc' = "returned" /\ result' # "nil"
              \/ UNCHANGED <<pc, result>>
  <2>1. \A t, k : HeldIn(t, k)' = HeldIn(t, k) BY <1>3 DEF HeldIn
  <2> QED BY <1>1, <1>3, <2>1, ExportStays
<1>4. CASE ParseError \/ Spawn \/ RecvError \/ Expire
      BY <1>3, <1>4 DEF ParseError, Spawn, RecvError, Expire, Return, stream
<1>5. CASE Workers BY <1>3, <1>5 DEF Workers, Convert, Return, stream
<1>6. CASE Prepare
  <2>1. CASE Return("error") BY <1>3, <1>6, <2>1 DEF Prepare, Return, stream
  <2>2. CASE pc' = "open" /\ result' = result
    <3>1. delivered' = <<>> /\ result' = "none" BY <1>2, <1>6, <2>2 DEF Prepare, ExportInv, Progress
    <3> QED BY <2>2, <3>1 DEF ExportInv, Progress
  <2> QED BY <1>6, <2>1, <2>2 DEF Prepare
<1>7. CASE Open
  <2>1. CASE Return("error") /\ UNCHANGED <<files, n, stream>>
        BY <1>3, <1>7, <2>1 DEF Open, Return, stream
  <2>2. CASE pc' = "recv" /\ sent' = <<>> /\ got' = 0 /\ result' = result
    <3>1. delivered' = <<>> /\ result' = "none" BY <1>2, <1>7 , <2>2 DEF Open, ExportInv, Progress
    <3>2. GivenBefore(got + 1)'
      <4>1. (got + 1)' - 1 = 0 BY <2>2
      <4> QED BY <4>1 DEF GivenBefore
    <3> QED BY <2>2, <3>1, <3>2 DEF ExportInv, Progress
  <2> QED BY <1>7, <2>1, <2>2 DEF Open
<1>8. CASE RecvEOF
  <2>1. /\ pc = "recv" /\ got = Len(sent) /\ ended = "eof" /\ pc' = "returned" /\ result' = "nil"
        /\ UNCHANGED <<delivered, got, sent, ended>>
        BY <1>8 DEF RecvEOF, Return, stream
  <2>2. \A t, k : HeldIn(t, k)' = HeldIn(t, k) BY <2>1 DEF HeldIn
  <2>3. GivenBefore(got + 1) BY <2>1 DEF ExportInv, Progress
  <2>4. GivenBefore(got + 1)' BY <2>1, <2>2, <2>3 DEF GivenBefore, Given
  <2>5. Progress' BY <2>1, <2>4 DEF Progress
  <2>6. \A k \in 1 .. Len(delivered) : Faithful(k)' BY <2>1, <2>2 DEF ExportInv, Faithful
  <2> QED BY <2>1, <2>5, <2>6 DEF ExportInv, Before
<1>9. CASE RecvTables
  <2>1. /\ pc = "recv" /\ got' = got + 1 /\ got < Len(sent) /\ UNCHANGED <<delivered, sent, result>>
        /\ pc' = IF sent[got'].nodes # <<>> THEN "nodes" ELSE IF sent[got'].edges # <<>> THEN "edges" ELSE "recv"
        BY <1>9 DEF RecvTables, CanRecv
  <2>2. \A t, k : HeldIn(t, k)' = HeldIn(t, k) /\ Given(t, k)' = Given(t, k) BY <2>1 DEF HeldIn, Given
  <2>3. ASSUME NEW k \in 1 .. Len(delivered) PROVE Faithful(k)' /\ delivered[k].record <= got
    <3>1. Faithful(k) BY DEF ExportInv
    <3>2. delivered[k].record \in 1 .. got' /\ delivered[k].record <= got BY <1>2, <2>1, <3>1 DEF Faithful
    <3> QED BY <2>1, <2>2, <3>1, <3>2 DEF Faithful
  <2>4. GivenBefore(got + 1) BY <2>1 DEF ExportInv, Progress
  <2>5. GivenBefore(got)' BY <2>1, <2>2, <2>4 DEF GivenBefore
  <2>6. \A i \in 1 .. Len(delivered) : delivered'[i].record < got'
    <3>1. \A i \in 1 .. Len(delivered) : delivered[i].record \in Nat
      <4>1. \A i \in 1 .. Len(delivered) : delivered[i] \in Handed BY <1>2
      <4> QED BY <4>1 DEF Handed
    <3> QED BY <1>2, <2>1, <2>3, <3>1
  <2>7. got' > 0 /\ result' = "none" BY <1>2, <2>1
  <2>8. Progress'
    <3>1. CASE pc' = "nodes"
      <4>1. HeldIn("nodes", got)' # <<>> BY <2>1, <3>1 DEF HeldIn
      <4> QED BY <2>1, <2>5, <2>6, <2>7, <3>1, <4>1 DEF Progress
    <3>2. CASE pc' = "edges"
      <4>1. HeldIn("edges", got)' # <<>> /\ HeldIn("nodes", got)' = <<>> BY <2>1, <3>2 DEF HeldIn
      <4>2. \A i \in 1 .. Len(delivered) : delivered'[i].record # got'
        <5>1. \A i \in 1 .. Len(delivered) : delivered'[i].record \in Nat
          <6>1. \A i \in 1 .. Len(delivered) : delivered[i] \in Handed BY <1>2
          <6> QED BY <2>1, <6>1 DEF Handed
        <5> QED BY <1>2, <2>1, <2>6, <5>1
      <4> QED BY <2>1, <2>5, <2>7, <3>2, <4>1, <4>2 DEF Progress
    <3>3. CASE pc' = "recv"
      <4>1. sent'[got'].nodes = <<>> /\ sent'[got'].edges = <<>> BY <2>1, <3>3
      <4>2. ASSUME NEW m \in 1 .. got', NEW t \in {"nodes", "edges"}, HeldIn(t, m)' # <<>> PROVE Given(t, m)'
        <5>1. m # got' BY <4>1, <4>2 DEF HeldIn
        <5>2. m \in 1 .. got' - 1 BY <1>2, <2>1, <5>1
        <5> QED BY <2>5, <4>2, <5>2 DEF GivenBefore
      <4>3. GivenBefore(got + 1)'
        <5>1. (got + 1)' - 1 = got' BY <1>2, <2>1
        <5> QED BY <4>2, <5>1 DEF GivenBefore
      <4> QED BY <2>7, <3>3, <4>3 DEF Progress
    <3> QED BY <2>1, <3>1, <3>2, <3>3
  <2> QED BY <2>1, <2>3, <2>8 DEF ExportInv, Before
<1>10. CASE Callback BY <1>10, CallbackStep
<1>11. CASE Server
  <2>1. /\ pc = "recv" /\ UNCHANGED <<pc, result, delivered, got>>
        /\ sent' = sent \/ \E r \in ExportRecords : sent' = Append(sent, r)
        BY <1>11 DEF Server, ServerSend, ServerEnd
  <2>2. \A k \in 1 .. got : sent'[k] = sent[k]
    <3>1. \A k \in 1 .. got : k \in 1 .. Len(sent) BY <1>2
    <3> QED BY <1>2, <2>1, <3>1
  <2>3. \A t : \A k \in 1 .. got : HeldIn(t, k)' = HeldIn(t, k) BY <2>2 DEF HeldIn
  <2>4. result # "nil" BY <1>2, <2>1
  <2> QED BY <1>1, <2>1, <2>3, <2>4, ExportStays
<1>12. ~(ShowJob \/ CheckFiles \/ RecvChunk \/ SendChunk \/ NextFile \/ CloseAndRecv)
      BY <1>2 DEF ShowJob, CheckFiles, RecvChunk, SendChunk, NextFile, CloseAndRecv
<1> QED BY <1>4, <1>5, <1>6, <1>7, <1>8, <1>9, <1>10, <1>11, <1>12 DEF Next, Main
-----------------------------------------------------------------------------
(* The files of a job *)

\* A set of numbers has a least one, and one that is closed under successor is
\* all of them: the well-founded order of the library, as facts about sets.
LEMMA Least ==
  ASSUME NEW T \in SUBSET Nat, T # {}
  PROVE  \E x \in T : \A y \in T : x <= y
<1>1. PICK x \in T : \A y \in T : <<y, x>> \notin OpToRel(<, Nat)
      BY NatLessThanWellFounded, WFMin
<1>2. \A y \in T : ~(y < x) BY <1>1 DEF OpToRel
<1> QED BY <1>2

LEMMA SetInduction ==
  ASSUME NEW T \in SUBSET Nat, 0 \in T, \A m \in T : m + 1 \in T
  PROVE  T = Nat
<1> SUFFICES ASSUME Nat \ T # {} PROVE FALSE
    OBVIOUS
<1>1. PICK x \in Nat \ T : \A y \in Nat \ T : x <= y BY Least
<1>2. x - 1 \in T BY <1>1
<1> QED BY <1>1, <1>2

LEMMA FilesTyped ==
  ASSUME NEW job \in Seq(Seq(STRING))
  PROVE  FilesOf(job) \in Seq(Seq(STRING))
<1> DEFINE present == {k \in 0 .. Len(job) : \A i \in 1 .. k : job[i] # <<>>}
           above == {Len(job) - k : k \in present}
           last == CHOOSE k \in present : \A j \in present : j <= k
<1>1. 0 \in present /\ above \in SUBSET Nat OBVIOUS
<1>2. Len(job) - 0 \in above BY <1>1
<1>3. PICK x \in above : \A y \in above : x <= y BY <1>1, <1>2, Least
<1>4. PICK k \in present : x = Len(job) - k BY <1>3
<1>5. \A j \in present : j <= k
  <2>1. ASSUME NEW j \in present PROVE j <= k
    <3>1. Len(job) - k <= Len(job) - j BY <1>3, <1>4
    <3> QED BY <3>1
  <2> QED BY <2>1
<1>6. last \in present
  <2>1. \E m \in present : \A j \in present : j <= m BY <1>5
  <2> HIDE DEF present
  <2> QED BY <2>1
<1>7. last \in 0 .. Len(job) BY <1>6
<1>8. FilesOf(job) = SubSeq(job, 1, last) BY DEF FilesOf
<1> HIDE DEF last
<1>9. \A i \in 1 .. last : job[i] \in Seq(STRING) BY <1>7
<1> QED BY <1>7, <1>8, <1>9, SubSeqProperties

\* A name is an end of f exactly if it is found there.
LEMMA SuffixMeans ==
  ASSUME NEW f \in Seq(STRING), NEW name \in Seq(STRING)
  PROVE  HasSuffix(f, name) <=>
           /\ Len(name) <= Len(f)
           /\ \A i \in 1 .. Len(name) : f[Len(f) - Len(name) + i] = name[i]
<1> DEFINE d == Len(f) - Len(name)
<1>1. CASE ~(Len(name) <= Len(f)) BY <1>1 DEF HasSuffix
<1>2. CASE Len(name) <= Len(f)
  <2>1. d \in Nat /\ Len(f) = d + Len(name) /\ Len(f) \in Nat /\ Len(name) \in Nat BY <1>2
  <2>2. PICK e : e = SubSeq(f, d + 1, Len(f)) OBVIOUS
  <2>3. e \in Seq(STRING) /\ Len(e) = Len(name) BY <2>1, <2>2
  <2>4. \A i \in 1 .. Len(name) : e[i] = f[d + i] BY <2>1, <2>2
  <2>5. HasSuffix(f, name) <=> e = name BY <1>2, <2>2 DEF HasSuffix
  <2>6. e = name <=> \A i \in 1 .. Len(name) : e[i] = name[i] BY <2>3
  <2> QED BY <1>2, <2>4, <2>5, <2>6
<1> QED BY <1>1, <1>2

LEMMA SuffixOfSuffix ==
  ASSUME NEW f \in Seq(STRING), NEW g \in Seq(STRING), NEW name \in Seq(STRING),
         HasSuffix(f, g), HasSuffix(g, name)
  PROVE  HasSuffix(f, name)
<1>1. Len(f) \in Nat /\ Len(g) \in Nat /\ Len(name) \in Nat OBVIOUS
<1>2. Len(g) <= Len(f) /\ \A i \in 1 .. Len(g) : f[Len(f) - Len(g) + i] = g[i] BY SuffixMeans
<1>3. Len(name) <= Len(g) /\ \A i \in 1 .. Len(name) : g[Len(g) - Len(name) + i] = name[i] BY SuffixMeans
<1>4. ASSUME NEW i \in 1 .. Len(name) PROVE f[Len(f) - Len(name) + i] = name[i]
  <2>1. PICK k : k = Len(g) - Len(name) + i OBVIOUS
  <2>2. k \in 1 .. Len(g) /\ Len(f) - Len(g) + k = Len(f) - Len(name) + i BY <1>1, <1>3, <2>1
  <2> QED BY <1>2, <1>3, <2>1, <2>2
<1>5. Len(name) <= Len(f) BY <1>1, <1>2, <1>3
<1> QED BY <1>4, <1>5, SuffixMeans

LEMMA SuffixOfItself == ASSUME NEW name \in Seq(STRING) PROVE HasSuffix(name, name)
BY SuffixMeans

\* Resolve's recursive function exists, so it is the one of its definition.
LEMMA ResolveDefined ==
  ASSUME NEW list, NEW name, Len(list) \in Nat
  PROVE  \E g : /\ g = [i \in 0 .. Len(list) |->
                            IF i = 0 THEN name
                            ELSE IF HasSuffix(list[i], g[i - 1]) THEN list[i] ELSE g[i - 1]]
                /\ Resolve(list, name) = g[Len(list)]
<1> DEFINE Pick(g, i) == IF i = 0 THEN name
                         ELSE IF HasSuffix(list[i], g[i - 1]) THEN list[i] ELSE g[i - 1]
           Upto == {m \in Nat : \E g : g = [i \in 0 .. m |-> Pick(g, i)]}
<1>1. 0 \in Upto
  <2>1. PICK g : g = [i \in 0 .. 0 |-> name] OBVIOUS
  <2>2. \A i \in 0 .. 0 : Pick(g, i) = name OBVIOUS
  <2> HIDE DEF Pick
  <2>3. g = [i \in 0 .. 0 |-> Pick(g, i)] BY <2>1, <2>2
  <2> QED BY <2>3
<1>2. ASSUME NEW m \in Upto PROVE m + 1 \in Upto
  <2>1. PICK g : g = [i \in 0 .. m |-> Pick(g, i)] OBVIOUS
  <2>2. PICK h : h = [i \in 0 .. m + 1 |-> IF i = m + 1 THEN Pick(g, m + 1) ELSE g[i]] OBVIOUS
  <2>3. \A i \in 0 .. m : h[i] = g[i] BY <2>2
  <2>4. ASSUME NEW i \in 0 .. m + 1 PROVE h[i] = Pick(h, i)
    <3>1. CASE i = m + 1
      <4>1. h[i] = Pick(g, m + 1) BY <2>2, <3>1
      <4>2. i # 0 /\ i - 1 \in 0 .. m BY <3>1
      <4> QED BY <2>3, <3>1, <4>1, <4>2
    <3>2. CASE i \in 0 .. m
      <4>1. h[i] = g[i] BY <2>3, <3>2
      <4>2. g[i] = Pick(g, i) BY <2>1, <3>2
      <4>3. i = 0 \/ i - 1 \in 0 .. m BY <3>2
      <4> QED BY <2>3, <4>1, <4>2, <4>3
    <3> QED BY <3>1, <3>2
  <2> HIDE DEF Pick
  <2>5. h = [i \in 0 .. m + 1 |-> h[i]] BY <2>2
  <2>6. h = [i \in 0 .. m + 1 |-> Pick(h, i)] BY <2>4, <2>5
  <2> QED BY <2>6
<1>3. Len(list) \in Upto
  <2>1. Upto = Nat
    <3> HIDE DEF Pick
    <3>1. Upto \in SUBSET Nat OBVIOUS
    <3> HIDE DEF Upto
    <3> QED BY <1>1, <1>2, <3>1, SetInduction
  <2> QED BY <2>1
<1> DEFINE pick == CHOOSE g : g = [i \in 0 .. Len(list) |-> Pick(g, i)]
<1>4. pick = [i \in 0 .. Len(list) |-> Pick(pick, i)]
  <2> HIDE DEF Pick
  <2>1. \E g : g = [i \in 0 .. Len(list) |-> Pick(g, i)] BY <1>3
  <2> QED BY <2>1
<1>5. Resolve(list, name) = pick[Len(list)] BY DEF Resolve
<1> QED BY <1>4, <1>5

\* The loop of DownloadAlgoResultFile: the name that it ends with has the end
\* that was asked for, and is a file of the job if any file of it has.
LEMMA ResolveFinds ==
  ASSUME NEW list \in Seq(Seq(STRING)), NEW name \in Seq(STRING)
  PROVE  /\ Resolve(list, name) \in Seq(STRING) /\ HasSuffix(Resolve(list, name), name)
         /\ (\E i \in DOMAIN list : HasSuffix(list[i], name))
              => \E i \in DOMAIN list : Resolve(list, name) = list[i]
<1>1. Len(list) \in Nat /\ DOMAIN list = 1 .. Len(list) OBVIOUS
<1>2. PICK g : /\ g = [i \in 0 .. Len(list) |->
                          IF i = 0 THEN name
                          ELSE IF HasSuffix(list[i], g[i - 1]) THEN list[i] ELSE g[i - 1]]
               /\ Resolve(list, name) = g[Len(list)]
      BY <1>1, ResolveDefined
<1> DEFINE Of(f, m) == \E i \in 1 .. m : f = list[i]
           Found(m) == /\ g[m] \in Seq(STRING) /\ HasSuffix(g[m], name)
                       /\ g[m] = name \/ Of(g[m], m)
                       /\ (\E i \in 1 .. m : HasSuffix(list[i], name)) => Of(g[m], m)
           Good == {m \in Nat : m <= Len(list) => Found(m)}
<1>3. 0 \in Good
  <2>1. g[0] = name BY <1>1, <1>2
  <2> QED BY <2>1, SuffixOfItself
<1>4. ASSUME NEW m \in Good PROVE m + 1 \in Good
  <2> SUFFICES ASSUME m + 1 <= Len(list) PROVE Found(m + 1)
      OBVIOUS
  <2>1. Found(m) /\ m \in Nat /\ m + 1 \in 1 .. Len(list) BY <1>1
  <2>2. list[m + 1] \in Seq(STRING) BY <2>1
  <2>3. g[m + 1] = IF HasSuffix(list[m + 1], g[m]) THEN list[m + 1] ELSE g[m]
    <3>1. m + 1 \in 0 .. Len(list) /\ m + 1 # 0 /\ (m + 1) - 1 = m BY <2>1
    <3> QED BY <1>2, <3>1
  <2>4. CASE HasSuffix(list[m + 1], g[m])
    <3>1. g[m + 1] = list[m + 1] BY <2>3, <2>4
    <3>2. HasSuffix(list[m + 1], name) BY <2>1, <2>2, <2>4, SuffixOfSuffix
    <3>3. Of(g[m + 1], m + 1) BY <2>1, <3>1
    <3> QED BY <2>2, <3>1, <3>2, <3>3
  <2>5. CASE ~HasSuffix(list[m + 1], g[m])
    <3>1. g[m + 1] = g[m] BY <2>3, <2>5
    <3>2. Of(g[m], m) => Of(g[m + 1], m + 1) BY <2>1, <3>1
    <3>3. g[m + 1] = name \/ Of(g[m + 1], m + 1) BY <2>1, <3>1, <3>2
    <3>4. (\E i \in 1 .. m + 1 : HasSuffix(list[i], name)) => Of(g[m + 1], m + 1)
      <4>1. ASSUME NEW i \in 1 .. m + 1, HasSuffix(list[i], name) PROVE Of(g[m], m)
        <5>1. CASE i \in 1 .. m BY <2>1, <4>1, <5>1
        <5>2. CASE i = m + 1
          <6>1. g[m] # name BY <2>5, <4>1, <5>2
          <6> QED BY <2>1, <6>1
        <5> QED BY <2>1, <5>1, <5>2
      <4> QED BY <3>2, <4>1
    <3> QED BY <2>1, <3>1, <3>3, <3>4
  <2> QED BY <2>4, <2>5
<1>5. Found(Len(list))
  <2>1. Good \in SUBSET Nat OBVIOUS
  <2>2. Good = Nat
    <3> HIDE DEF Good
    <3> QED BY <1>3, <1>4, <2>1, SetInduction
  <2>3. Len(list) \in Good
    <3> HIDE DEF Good
    <3> QED BY <1>1, <2>2
  <2> HIDE DEF Found
  <2> QED BY <1>1, <2>3
<1> QED BY <1>1, <1>2, <1>5
-----------------------------------------------------------------------------
(* The downloads *)

LEMMA NothingYet ==
  ASSUME DownloadInv, Downloading, n = 0
  PROVE  delivered = <<>>
<1>1. delivered \in Seq(Piece) /\ Len(delivered) \in Nat BY DEF DownloadInv
<1>2. ASSUME NEW k \in 1 .. Len(delivered) PROVE FALSE
  <2>1. InPlace(k) BY DEF DownloadInv
  <2> QED BY <2>1 DEF InPlace
<1>3. Len(delivered) = 0 BY <1>1, <1>2
<1> QED BY <1>1, <1>3

\* Nothing is delivered, and what was received of the file at hand stays.
LEMMA DownloadStays ==
  ASSUME TypeInv, DownloadInv, Downloading, mode' = mode, UNCHANGED <<delivered, files, n>>,
         \/ /\ got' = got /\ \A k \in 1 .. got : sent'[k] = sent[k]
            /\ pc' = pc \/ pc' = "returned" \/ (pc = "recv" /\ pc' = "open" /\ n < Len(files))
         \/ got' = got + 1 /\ sent' = sent /\ pc' = "returned"
  PROVE  DownloadInv'
<1>1. got \in Nat /\ n \in Nat /\ delivered \in Seq(Piece) BY DEF TypeInv, TypeOK, DownloadInv
<1>2. Downloading' BY DEF Downloading
<1>3. ASSUME NEW k \in 1 .. Len(delivered) PROVE InPlace(k)'
  <2>1. InPlace(k) BY DEF DownloadInv
  <2>2. delivered[k] \in Piece BY <1>1
  <2>3. delivered[k].part \in Nat /\ delivered[k].part > 0 BY <2>1, <2>2 DEF Piece, InPlace
  <2>4. delivered[k].nth = n => delivered[k].part <= got' /\ sent'[delivered[k].part] = "chunk"
        BY <1>1, <2>1, <2>3 DEF InPlace
  <2> QED BY <2>1, <2>4 DEF InPlace
<1> QED BY <1>1, <1>2, <1>3 DEF DownloadInv, Precedes

LEMMA OneMorePiece ==
  ASSUME TypeInv, DownloadInv, Downloading, mode' = mode, UNCHANGED <<files, n, sent>>,
         pc = "recv", got < Len(sent), got' = got + 1, sent[got + 1] = "chunk",
         delivered' = Append(delivered, [file |-> files[n], nth |-> n, part |-> got']),
         pc' = pc \/ pc' = "returned"
  PROVE  DownloadInv' /\ Len(delivered') = Len(delivered) + 1
<1>1. /\ got \in Nat /\ n \in Nat /\ delivered \in Seq(Piece) /\ Len(delivered) \in Nat
      /\ files \in Seq(Seq(STRING)) /\ n \in 1 .. Len(files)
      BY DEF TypeInv, TypeOK, DownloadInv
<1>2. PICK x : x = [file |-> files[n], nth |-> n, part |-> got'] OBVIOUS
<1>3. x \in Piece /\ x.file = files[n] /\ x.nth = n /\ x.part = got + 1
  <2>1. files[n] \in Seq(STRING) /\ got' \in Nat BY <1>1
  <2> QED BY <1>1, <1>2, <2>1 DEF Piece
<1>4. /\ delivered' \in Seq(Piece) /\ Len(delivered') = Len(delivered) + 1
      /\ \A k \in 1 .. Len(delivered) : delivered'[k] = delivered[k]
      /\ delivered'[Len(delivered) + 1] = x
      BY <1>1, <1>2, <1>3
<1>5. Downloading' BY DEF Downloading
<1>6. ASSUME NEW k \in 1 .. Len(delivered) PROVE InPlace(k)' /\ Precedes(delivered[k], x)
  <2>1. InPlace(k) BY DEF DownloadInv
  <2>2. delivered[k] \in Piece BY <1>1
  <2>3. delivered[k].part \in Nat /\ delivered[k].nth \in Nat BY <2>2 DEF Piece
  <2>4. k > 1 => k - 1 \in 1 .. Len(delivered) BY <1>1
  <2>5. delivered[k].nth = n => delivered[k].part <= got BY <2>1 DEF InPlace
  <2>6. delivered[k].nth = n => delivered[k].part <= got' BY <1>1, <2>3, <2>5
  <2>7. InPlace(k)' BY <1>4, <2>1, <2>4, <2>6 DEF InPlace
  <2>8. delivered[k].nth <= n BY <1>1, <2>1 DEF InPlace
  <2> QED BY <1>1, <1>3, <2>3, <2>5, <2>7, <2>8 DEF Precedes
<1>7. ASSUME NEW k, k = Len(delivered) + 1 PROVE InPlace(k)'
  <2>1. delivered'[k] = x BY <1>4, <1>7
  <2>2. x.part > 1 => k > 1 /\ delivered'[k - 1] = [x EXCEPT !.part = @ - 1]
    <3> SUFFICES ASSUME x.part > 1 PROVE k > 1 /\ delivered'[k - 1] = [x EXCEPT !.part = @ - 1]
        OBVIOUS
    <3>1. got > 0 BY <1>1, <1>3
    <3>2. /\ Len(delivered) > 0
          /\ delivered[Len(delivered)] = [file |-> files[n], nth |-> n, part |-> got]
          BY <3>1 DEF DownloadInv
    <3>3. k > 1 /\ k - 1 = Len(delivered) /\ k - 1 \in 1 .. Len(delivered) BY <1>1, <1>7, <3>2
    <3>4. delivered'[k - 1] = [file |-> files[n], nth |-> n, part |-> got] BY <1>4, <3>2, <3>3
    <3>5. [x EXCEPT !.part = @ - 1] = [file |-> files[n], nth |-> n, part |-> got]
      <4>1. got' - 1 = got BY <1>1
      <4> QED BY <1>2, <4>1
    <3> QED BY <3>3, <3>4, <3>5
  <2>3. /\ x.nth \in 1 .. n' /\ x.file = files'[x.nth] /\ x.part > 0
        /\ x.part <= got' /\ sent'[x.part] = "chunk"
        BY <1>1, <1>3
  <2> QED BY <2>1, <2>2, <2>3 DEF InPlace
<1>8. \A k \in 1 .. Len(delivered') : InPlace(k)'
  <2>1. \A k \in 1 .. Len(delivered') : k \in 1 .. Len(delivered) \/ k = Len(delivered) + 1 BY <1>1, <1>4
  <2> QED BY <1>6, <1>7, <2>1
<1>9. ASSUME NEW i \in 1 .. Len(delivered'), NEW j \in 1 .. Len(delivered'), i < j
      PROVE  Precedes(delivered'[i], delivered'[j])
  <2>1. i \in 1 .. Len(delivered) /\ delivered'[i] = delivered[i] BY <1>1, <1>4, <1>9
  <2>2. CASE j = Len(delivered) + 1 BY <1>4, <1>6, <2>1, <2>2
  <2>3. CASE j \in 1 .. Len(delivered) BY <1>4, <1>9, <2>1, <2>3 DEF DownloadInv
  <2> QED BY <1>1, <1>4, <2>2, <2>3
<1>10. /\ Len(delivered') > 0
       /\ delivered'[Len(delivered')] = [file |-> files'[n'], nth |-> n', part |-> got']
       BY <1>1, <1>2, <1>4
<1>11. n' \in 0 .. Len(files') /\ files' \in Seq(Seq(STRING)) /\ n' > 0 BY <1>1
<1> QED BY <1>4, <1>5, <1>8, <1>9, <1>10, <1>11 DEF DownloadInv, Precedes

LEMMA DownloadStep ==
  ASSUME TypeInv, DownloadInv, SingleInv, Next
  PROVE  DownloadInv' /\ SingleInv'
<1>1. call' = call /\ mode' = mode BY CallKept
<1> SUFFICES ASSUME Downloading PROVE DownloadInv' /\ SingleInv'
    BY <1>1 DEF DownloadInv, SingleInv, Downloading
<1>2. /\ mode \in {"download", "downloadAll"} /\ call.job \in Seq(Seq(STRING))
      /\ mode = "download" => call.want \in Seq(STRING)
      BY CallTyped DEF TypeInv, TypeOK, Downloading
<1>3. /\ pc \in {"job", "client", "open", "recv", "returned"} /\ got \in 0 .. Len(sent) /\ n \in Nat
      /\ sent \in Seq(ChunkRecords) /\ Len(sent) \in Nat /\ got \in Nat
      /\ pc # "returned" => result = "none"
      BY <1>2 DEF TypeInv, TypeOK, Points
<1>4. FilesOf(call.job) \in Seq(Seq(STRING)) BY <1>2, FilesTyped
<1>5. CASE /\ UNCHANGED <<delivered, files, n, got, sent>>
           /\ \/ pc' = "returned" /\ result' # "nil"
              \/ UNCHANGED <<pc, result, ended>>
  <2>1. DownloadInv' BY <1>1, <1>5, DownloadStays
  <2>2. SingleInv' BY <1>1, <1>5 DEF SingleInv
  <2> QED BY <2>1, <2>2
<1>6. CASE ShowJob
  <2>1. CASE Return("error") /\ UNCHANGED files BY <1>5, <1>6, <2>1 DEF ShowJob, Return, stream
  <2>2. CASE /\ FilesOf(call.job) # <<>> /\ files' = FilesOf(call.job)
             /\ pc' = IF mode = "download" THEN "client" ELSE "open"
             /\ UNCHANGED <<ctx, result>>
    <3>1. pc = "job" /\ n = 0 /\ n' = 0 /\ delivered' = delivered /\ result' = "none"
          BY <1>3, <1>6, <2>2 DEF ShowJob, DownloadInv
    <3>2. delivered' = <<>> BY <3>1, NothingYet
    <3>3. files' \in Seq(Seq(STRING)) /\ Len(files') > 0 BY <1>4, <2>2
    <3>4. DownloadInv' BY <1>1, <2>2, <3>1, <3>2, <3>3 DEF DownloadInv
    <3>5. SingleInv' BY <1>1, <2>2, <3>1, <3>2, <3>3 DEF SingleInv
    <3> QED BY <3>4, <3>5
  <2> QED BY <1>6, <2>1, <2>2 DEF ShowJob
<1>7. CASE Prepare
  <2>1. CASE Return("error") BY <1>5, <1>7, <2>1 DEF Prepare, Return, stream
  <2>2. CASE pc' = (IF mode = "downloadAll" THEN "job" ELSE "open") /\ UNCHANGED result
    <3>1. /\ pc = "client" /\ n = 0 /\ UNCHANGED <<delivered, files, n>> /\ result' = "none"
          /\ mode = "download" => n < Len(files)
          BY <1>3, <1>7, <2>2 DEF Prepare, DownloadInv
    <3>2. delivered = <<>> BY <3>1, NothingYet
    <3>3. DownloadInv' BY <1>1, <1>2, <2>2, <3>1, <3>2 DEF DownloadInv
    <3>4. SingleInv' BY <1>1, <2>2, <3>1, <3>2 DEF SingleInv
    <3> QED BY <3>3, <3>4
  <2> QED BY <1>7, <2>1, <2>2 DEF Prepare
<1>8. CASE Open
  <2>1. CASE Return("error") /\ UNCHANGED <<files, n, stream>> BY <1>5, <1>8, <2>1 DEF Open, Return, stream
  <2>2. CASE /\ pc' = "recv"
             /\ files' = IF mode = "download" THEN <<Resolve(files, call.want)>> ELSE files
             /\ n' = n + 1 /\ sent' = <<>> /\ ended' = "open" /\ got' = 0 /\ UNCHANGED <<ctx, result>>
    <3>1. pc = "open" /\ n < Len(files) /\ delivered' = delivered /\ result' = "none" /\ files \in Seq(Seq(STRING))
          BY <1>3, <1>8, <2>2 DEF Open, DownloadInv
    <3>2. CASE mode = "download"
      <4>1. n = 0 /\ files = FilesOf(call.job) BY <3>1, <3>2 DEF SingleInv
      <4>2. delivered = <<>> BY <4>1, NothingYet
      <4>3. Resolve(files, call.want) \in Seq(STRING) BY <1>2, <1>4, <3>2, <4>1, ResolveFinds
      <4>4. files' = <<Resolve(FilesOf(call.job), call.want)>> /\ n' = 1 BY <2>2, <3>2, <4>1
      <4>5. files' \in Seq(Seq(STRING)) /\ Len(files') = 1 BY <4>1, <4>3, <4>4
      <4>6. Len(delivered') = 0 BY <3>1, <4>2
      <4>7. DownloadInv' BY <1>1, <2>2, <3>1, <4>2, <4>4, <4>5 DEF DownloadInv
      <4>8. SingleInv' BY <1>1, <2>2, <3>1, <4>2, <4>4, <4>5, <4>6 DEF SingleInv
      <4> QED BY <4>7, <4>8
    <3>3. CASE mode = "downloadAll"
      <4>1. files' = files /\ n' \in 0 .. Len(files) /\ n' > 0 BY <1>3, <2>2, <3>1, <3>3
      <4>2. ASSUME NEW k \in 1 .. Len(delivered) PROVE InPlace(k)'
        <5>1. InPlace(k) BY DEF DownloadInv
        <5>2. delivered[k].nth \in 1 .. n' /\ delivered[k].nth # n' BY <1>3, <2>2, <5>1 DEF InPlace
        <5> QED BY <3>1, <4>1, <5>1, <5>2 DEF InPlace
      <4>3. \A i, j \in 1 .. Len(delivered) : i < j => Precedes(delivered[i], delivered[j])
            BY DEF DownloadInv
      <4>4. pc' = "recv" /\ got' = 0 /\ Downloading' /\ delivered \in Seq(Piece)
            BY <1>1, <2>2 DEF Downloading, DownloadInv
      <4>5. DownloadInv' BY <3>1, <4>1, <4>2, <4>3, <4>4 DEF DownloadInv, Precedes
      <4>6. SingleInv' BY <1>1, <3>3 DEF SingleInv
      <4> QED BY <4>5, <4>6
    <3> QED BY <1>2, <3>2, <3>3
  <2> QED BY <1>2, <1>8, <2>1, <2>2 DEF Open
<1>9. CASE RecvEOF
  <2>1. /\ pc = "recv" /\ got = Len(sent) /\ ended = "eof"
        /\ UNCHANGED <<delivered, files, n, got, sent, ended>>
        /\ \/ mode = "downloadAll" /\ n < Len(files) /\ pc' = "open"
           \/ pc' = "returned"
        BY <1>9 DEF RecvEOF, Return, stream
  <2>2. DownloadInv' BY <1>1, <2>1, DownloadStays
  <2>3. SingleInv' BY <1>1, <2>1 DEF SingleInv
  <2> QED BY <2>2, <2>3
<1>10. CASE RecvError \/ Expire BY <1>5, <1>10 DEF RecvError, Expire, Return, stream
<1>11. CASE RecvChunk
  <2>1. pc = "recv" /\ got < Len(sent) /\ got' = got + 1 /\ UNCHANGED <<files, n, sent, ended>>
        BY <1>11 DEF RecvChunk, CanRecv
  <2>2. CASE pc' = "returned" /\ result' = FailureResult /\ delivered' = delivered
    <3>1. DownloadInv' BY <1>1, <2>1, <2>2, DownloadStays
    <3>2. mode = "download" => result' = "statusError" BY <2>2 DEF FailureResult
    <3>3. SingleInv' BY <1>1, <2>1, <2>2, <3>2 DEF SingleInv
    <3> QED BY <3>1, <3>3
  <2>3. CASE /\ sent[got + 1] = "chunk"
             /\ delivered' = Append(delivered, [file |-> files[n], nth |-> n, part |-> got'])
             /\ \/ pc' = "returned" /\ result' = "cbError"
                \/ UNCHANGED <<pc, result>>
    <3>1. DownloadInv' /\ Len(delivered') = Len(delivered) + 1 BY <1>1, <2>1, <2>3, OneMorePiece
    <3>2. ASSUME mode = "download" PROVE n = 1 /\ Len(delivered') = got'
      <4>1. n > 0 BY <2>1 DEF DownloadInv
      <4> QED BY <1>3, <2>1, <3>1, <3>2, <4>1 DEF SingleInv
    <3>3. SingleInv' BY <1>1, <1>3, <2>1, <2>3, <3>2 DEF SingleInv
    <3> QED BY <3>1, <3>3
  <2> QED BY <1>11, <2>2, <2>3 DEF RecvChunk, Return
<1>12. CASE Server
  <2>1. /\ pc = "recv" /\ UNCHANGED <<pc, result, delivered, got, files, n>>
        /\ sent' = sent \/ \E r \in ChunkRecords : sent' = Append(sent, r)
        BY <1>2, <1>12 DEF Server, ServerSend, ServerEnd
  <2>2. \A k \in 1 .. got : sent'[k] = sent[k]
    <3>1. \A k \in 1 .. got : k \in 1 .. Len(sent) BY <1>3
    <3> QED BY <1>3, <2>1, <3>1
  <2>3. DownloadInv' BY <1>1, <2>1, <2>2, DownloadStays
  <2>4. SingleInv' BY <1>1, <1>3, <2>1 DEF SingleInv
  <2> QED BY <2>3, <2>4
<1>13. ~(CheckFiles \/ RecvTables \/ Spawn \/ ParseError \/ Callback \/ SendChunk \/ NextFile \/ CloseAndRecv
         \/ Workers)
      BY <1>2, <1>3 DEF CheckFiles, RecvTables, Spawn, ParseError, Callback, SendChunk, NextFile,
                        CloseAndRecv, Workers, Convert
<1> QED BY <1>6, <1>7, <1>8, <1>9, <1>10, <1>11, <1>12, <1>13 DEF Next, Main
-----------------------------------------------------------------------------
LEMMA Invariance == Spec => []IInv
<1>1. IInv /\ [Next]_vars => IInv'
  <2> SUFFICES ASSUME IInv, [Next]_vars PROVE IInv'
      OBVIOUS
  <2>1. CASE Next BY <2>1, TypeStep, ExportStep, DownloadStep, UploadStep DEF IInv
  <2>2. CASE UNCHANGED vars
    <3>1. UNCHANGED <<call, pc, ctx, files, n, sent, ended, got, row, running, failed, err, delivered,
                      uploaded, result>> /\ mode' = mode
          BY <2>2 DEF vars, mode
    <3>2. TypeInv' BY <3>1 DEF IInv, TypeInv, TypeOK, Points
    <3>3. ExportInv'
      <4>1. \A t, k : HeldIn(t, k)' = HeldIn(t, k) BY <3>1 DEF HeldIn
      <4> QED BY <3>1, <4>1, ExportStays DEF IInv, ExportInv
    <3>4. DownloadInv' BY <3>1, DownloadStays DEF IInv, DownloadInv, Downloading
    <3>5. SingleInv' BY <3>1 DEF IInv, SingleInv
    <3>6. UploadInv'
      <4>1. \A f : SentOf(f)' = SentOf(f) BY <3>1 DEF SentOf
      <4>2. SentOf(n)' = SentOf(n) /\ Chunks(n)' = Chunks(n) BY <3>1 DEF SentOf, Chunks
      <4> QED BY <3>1, <4>1, <4>2 DEF IInv, UploadInv
    <3> QED BY <3>2, <3>3, <3>4, <3>5, <3>6 DEF IInv
  <2> QED BY <2>1, <2>2
<1> QED BY <1>1, InitInv, PTL DEF Spec

\* Every variable of a streaming call keeps its range; in particular no more
\* records are received than were sent, and no goroutine is counted twice.
THEOREM Typed == Spec => []TypeOK
<1>1. IInv => TypeOK BY DEF IInv, TypeInv
<1> QED BY <1>1, Invariance, PTL

\* Export hands over every table of the stream once, in order and with all the
\* rows that convert, whatever the goroutines, the deadline and the server do;
\* it returns nil only at the end of the stream and after the last table.
THEOREM ExportExact == Spec => []ExportIsExact
<1>1. IInv => ExportIsExact
  <2> SUFFICES ASSUME IInv, mode = "export" PROVE ExportIsExact
      BY DEF ExportIsExact
  <2>1. /\ delivered \in Seq(Handed) /\ Len(delivered) \in Nat /\ DOMAIN delivered = 1 .. Len(delivered)
        /\ sent \in Seq(ExportRecords) /\ got \in 0 .. Len(sent) /\ got \in Nat /\ Len(sent) \in Nat
        BY DEF IInv, ExportInv, TypeInv, TypeOK
  <2>2. \A x : Held(x) = HeldIn(x.table, x.record) BY DEF Held, HeldIn
  <2>3. ASSUME NEW i \in DOMAIN delivered
        PROVE  /\ Held(delivered[i]) # <<>>
               /\ DOMAIN delivered[i].slots = DOMAIN Held(delivered[i])[1]
               /\ \A k \in DOMAIN delivered[i].slots :
                    delivered[i].slots[k] <=> Row(delivered[i], k) = "good"
    <3>1. Faithful(i) BY <2>1 DEF IInv, ExportInv
    <3>2. delivered[i] \in Handed BY <2>1
    <3>3. delivered[i].slots \in Seq(BOOLEAN) BY <3>2 DEF Handed
    <3>4. PICK x : x = delivered[i] OBVIOUS
    <3>5. PICK held : held = HeldIn(x.table, x.record) OBVIOUS
    <3>6. x.record \in 1 .. got /\ held # <<>> /\ Len(x.slots) = Len(held[1])
          /\ \A k \in 1 .. Len(x.slots) : x.slots[k] <=> held[1][k] = "good"
          BY <3>1, <3>4, <3>5 DEF Faithful
    <3>7. x.record \in 1 .. Len(sent) BY <2>1, <3>6
    <3>8. held[1] \in Seq({"good", "bad", "orphan"}) BY <2>1, <3>5, <3>6, <3>7, HeldTyped
    <3>9. DOMAIN x.slots = 1 .. Len(x.slots) /\ DOMAIN held[1] = 1 .. Len(held[1]) BY <3>3, <3>4, <3>8
    <3> QED BY <2>2, <3>4, <3>5, <3>6, <3>9 DEF Row
  <2>4. ASSUME result = "nil"
        PROVE  /\ ended = "eof" /\ got = Len(sent)
               /\ {x \in TablesOf(got) : Held(x) # <<>>}
                    = {[table |-> delivered[i].table, record |-> delivered[i].record] : i \in DOMAIN delivered}
    <3>1. ended = "eof" /\ got = Len(sent) /\ GivenBefore(got + 1) BY <2>4 DEF IInv, ExportInv, Progress
    <3>2. ASSUME NEW x \in TablesOf(got), Held(x) # <<>>
          PROVE  \E i \in DOMAIN delivered : x = [table |-> delivered[i].table, record |-> delivered[i].record]
      <4>1. PICK t \in {"nodes", "edges"}, m \in 1 .. got : x = [table |-> t, record |-> m] BY DEF TablesOf
      <4>2. HeldIn(t, m) # <<>> BY <2>2, <3>2, <4>1
      <4>3. m \in 1 .. (got + 1) - 1 BY <2>1
      <4>4. Given(t, m) BY <3>1, <4>2, <4>3 DEF GivenBefore
      <4> QED BY <2>1, <4>1, <4>4 DEF Given
    <3>3. ASSUME NEW i \in DOMAIN delivered
          PROVE  LET x == [table |-> delivered[i].table, record |-> delivered[i].record]
                 IN  x \in TablesOf(got) /\ Held(x) # <<>>
      <4>1. Faithful(i) BY <2>1 DEF IInv, ExportInv
      <4>2. delivered[i] \in Handed BY <2>1
      <4>3. delivered[i].table \in {"nodes", "edges"} BY <4>2 DEF Handed
      <4> QED BY <4>1, <4>3 DEF Faithful, TablesOf, Held, HeldIn
    <3> QED BY <3>1, <3>2, <3>3
  <2>5. \A i, j \in DOMAIN delivered : i < j => Before(delivered[i], delivered[j])
        BY <2>1 DEF IInv, ExportInv
  <2> QED BY <2>3, <2>4, <2>5 DEF ExportIsExact
<1> QED BY <1>1, Invariance, PTL

\* The downloads hand over the files of the job in their order and the chunks of
\* each in order and without a gap; DownloadAlgoResultFile fetches a file with the
\* name that was asked for if the job has one, and returns nil only after all of it.
THEOREM DownloadExact == Spec => []DownloadIsExact
<1>1. IInv => DownloadIsExact
  <2> SUFFICES ASSUME IInv PROVE DownloadIsExact
      OBVIOUS
  <2>1. Downloading => InOrder
    <3> SUFFICES ASSUME Downloading PROVE InOrder
        OBVIOUS
    <3>1. DOMAIN delivered = 1 .. Len(delivered) BY DEF IInv, DownloadInv
    <3>2. \A k \in DOMAIN delivered : InPlace(k) BY <3>1 DEF IInv, DownloadInv
    <3>3. \A i, j \in DOMAIN delivered : i < j => Precedes(delivered[i], delivered[j])
          BY <3>1 DEF IInv, DownloadInv
    <3> QED BY <3>2, <3>3 DEF InPlace, Precedes, InOrder
  <2>2. ASSUME mode = "download", n = 1
        PROVE  /\ HasSuffix(files[1], call.want)
               /\ LET list == FilesOf(call.job) IN
                  (\E i \in DOMAIN list : HasSuffix(list[i], call.want)) => \E i \in DOMAIN list : files[1] = list[i]
               /\ result = "nil" => ended = "eof" /\ Len(delivered) = Len(sent)
    <3>1. files = <<Resolve(FilesOf(call.job), call.want)>> BY <2>2 DEF IInv, SingleInv
    <3>2. call.job \in Seq(Seq(STRING)) /\ call.want \in Seq(STRING)
          BY <2>2, CallTyped DEF IInv, TypeInv, TypeOK, Downloading
    <3>3. FilesOf(call.job) \in Seq(Seq(STRING)) BY <3>2, FilesTyped
    <3>4. files[1] = Resolve(FilesOf(call.job), call.want) BY <3>1
    <3>5. result = "nil" => ended = "eof" /\ Len(delivered) = Len(sent) BY <2>2 DEF IInv, SingleInv
    <3> QED BY <3>2, <3>3, <3>4, <3>5, ResolveFinds
  <2> QED BY <2>1, <2>2 DEF DownloadIsExact, Downloading
<1> QED BY <1>1, Invariance, PTL

\* When InstallHDCAlgo waits for its reply the server was sent every chunk of
\* every file once and in order, with the name of the HDC server where it belongs.
THEOREM UploadWhole == Spec => []UploadIsWhole
<1>1. IInv => UploadIsWhole
  <2> SUFFICES ASSUME IInv, mode = "install", pc = "reply" PROVE UploadIsWhole
      BY DEF UploadIsWhole
  <2>1. /\ call.uploads \in Seq(Nat) /\ DOMAIN call.uploads = 1 .. Len(call.uploads) /\ Len(call.uploads) \in Nat
        /\ uploaded \in Seq(Parts) /\ DOMAIN uploaded = 1 .. Len(uploaded)
        BY CallTyped DEF IInv, TypeInv, TypeOK, UploadInv
  <2>2. ASSUME NEW f \in DOMAIN call.uploads PROVE {uploaded[i].chunk : i \in SentOf(f)} = 1 .. call.uploads[f]
    <3>1. n = Len(call.uploads) /\ {uploaded[i].chunk : i \in SentOf(n)} = 1 .. call.uploads[n]
          BY DEF IInv, UploadInv
    <3>2. f \in 1 .. n - 1 \/ f = n BY <2>1, <3>1
    <3> QED BY <3>1, <3>2 DEF IInv, UploadInv
  <2> QED BY <2>1, <2>2 DEF IInv, UploadInv, UploadIsWhole
<1> QED BY <1>1, Invariance, PTL

-----------------------------------------------------------------------------
(* DownloadAlgoResultFile and StreamConsumer *)

\* The stream is empty until it is opened.
FreshInv == Single /\ n = 0 => sent = <<>> /\ ended = "open"

LEMMA FreshStep == ASSUME IInv, FreshInv, Next PROVE FreshInv'
<1>1. n \in Nat /\ Single' = Single BY CallKept DEF IInv, TypeInv, TypeOK, Single
<1>2. CASE Open
  <2>1. CASE UNCHANGED stream /\ UNCHANGED n
    <3>1. UNCHANGED <<n, sent, ended>> BY <2>1 DEF stream
    <3> QED BY <1>1, <3>1 DEF FreshInv
  <2>2. CASE n' = n + 1
    <3>1. n' # 0 BY <1>1, <2>2
    <3> QED BY <3>1 DEF FreshInv
  <2> QED BY <1>2, <2>1, <2>2 DEF Open
<1>3. CASE Server
  <2>1. Single => n > 0 /\ n' = n
        BY <1>3 DEF Server, ServerSend, ServerEnd, Single, IInv, DownloadInv, Downloading
  <2> QED BY <1>1, <2>1 DEF FreshInv
<1>4. CASE NextFile
  <2>1. ~Single BY <1>4 DEF NextFile, Single, IInv, TypeInv, Points
  <2> QED BY <1>1, <2>1 DEF FreshInv
<1>5. CASE UNCHANGED <<n, sent, ended>> BY <1>1, <1>5 DEF FreshInv
<1>6. ASSUME Main, ~Open, ~NextFile PROVE UNCHANGED <<n, sent, ended>>
      BY <1>6 DEF Main, ShowJob, CheckFiles, Prepare, RecvEOF, RecvError, RecvChunk, RecvTables, Spawn,
                  ParseError, Callback, SendChunk, CloseAndRecv, stream
<1>7. ASSUME Workers \/ Expire PROVE UNCHANGED <<n, sent, ended>>
      BY <1>7 DEF Workers, Convert, Expire, stream
<1> QED BY <1>2, <1>3, <1>4, <1>5, <1>6, <1>7 DEF Next

\* A step of another call is not seen.
LEMMA OthersUnseen == ASSUME ~Single, Next PROVE UNCHANGED Consumer!vars
<1>1. ~Single' BY CallKept DEF Single
<1>2. Told = "nothing" /\ Told' = "nothing" BY <1>1 DEF Told
<1> QED BY <1>1, <1>2 DEF Consumer!vars

\* A step that ends the call with an error, or that the caller does not see.
LEMMA FailsOrStays ==
  ASSUME Single, Single', result = "none", result' # "nil", UNCHANGED <<sent, ended, delivered>>
  PROVE  [Consumer!Next]_(Consumer!vars)
<1>1. Told = "nothing" /\ Told' \in {"nothing", "error"} BY DEF Told
<1>2. UNCHANGED PartsOf(delivered) BY DEF PartsOf
<1>3. Consumer!Fail \/ UNCHANGED Consumer!vars BY <1>1, <1>2 DEF Consumer!Fail, Consumer!vars
<1> QED BY <1>3 DEF Consumer!Next

\* A chunk goes to the callback, a failure ends the call.
LEMMA ChunkPromised == ASSUME IInv, Single, Single', RecvChunk PROVE [Consumer!Next]_(Consumer!vars)
<1>1. /\ pc = "recv" /\ result = "none" /\ got \in Nat /\ got + 1 \in 1 .. Len(sent) /\ Len(sent) \in Nat
      /\ Len(delivered) = got /\ delivered \in Seq(Piece) /\ UNCHANGED <<sent, ended>>
      BY DEF RecvChunk, CanRecv, IInv, TypeInv, TypeOK, SingleInv, DownloadInv, Downloading, Single
<1>2. CASE sent[got + 1] = "failure" /\ result' = FailureResult /\ UNCHANGED delivered
  <2>1. result' # "nil" BY <1>2 DEF FailureResult, Single
  <2> QED BY <1>1, <1>2, <2>1, FailsOrStays
<1>3. ASSUME sent[got + 1] = "chunk", result' = "cbError" \/ UNCHANGED result,
             NEW x, x.part = got + 1, delivered' = Append(delivered, x), x \in Piece
      PROVE  [Consumer!Next]_(Consumer!vars)
  <2>1. Told = "nothing" /\ Told' \in {"nothing", "error"} BY <1>1, <1>3 DEF Told
  <2>2. /\ Len(delivered') = got + 1 /\ delivered'[got + 1] = x
        /\ \A i \in 1 .. got : delivered'[i] = delivered[i]
        BY <1>1, <1>3
  <2>3. PICK p : p = PartsOf(delivered) OBVIOUS
  <2>a. \A y \in Piece : y.part \in Nat BY DEF Piece
  <2>b. \A i \in 1 .. got : delivered[i] \in Piece BY <1>1, ElementOfSeq
  <2>4. p \in Seq(Nat) /\ Len(p) = got /\ \A i \in 1 .. got : p[i] = delivered[i].part
    <3>1. \A i \in 1 .. got : delivered[i].part \in Nat BY <2>a, <2>b
    <3> QED BY <1>1, <2>3, <3>1 DEF PartsOf
  <2>5. PartsOf(delivered') = Append(p, got + 1)
    <3>1. PICK q : q = PartsOf(delivered') OBVIOUS
    <3>2. q \in Seq(Nat) /\ Len(q) = got + 1 /\ \A i \in 1 .. got + 1 : q[i] = delivered'[i].part
      <4>a. \A i \in 1 .. got + 1 : i \in 1 .. got \/ i = got + 1 BY <1>1
      <4>b. \A i \in 1 .. got + 1 : delivered'[i] \in Piece BY <1>3, <2>2, <2>b, <4>a
      <4>1. \A i \in 1 .. got + 1 : delivered'[i].part \in Nat BY <2>a, <4>b
      <4> QED BY <1>1, <2>2, <3>1, <4>1 DEF PartsOf
    <3>3. /\ Append(p, got + 1) \in Seq(Nat) /\ Len(Append(p, got + 1)) = got + 1
          /\ Append(p, got + 1)[got + 1] = got + 1
          /\ \A i \in 1 .. got : Append(p, got + 1)[i] = p[i]
          BY <1>1, <2>4
    <3>4. \A i \in 1 .. got + 1 : q[i] = Append(p, got + 1)[i]
      <4>1. ASSUME NEW i \in 1 .. got PROVE q[i] = Append(p, got + 1)[i]
        <5>1. i \in 1 .. got + 1 BY <1>1
        <5>2. q[i] = delivered'[i].part /\ delivered'[i] = delivered[i] BY <2>2, <3>2, <5>1
        <5>3. Append(p, got + 1)[i] = p[i] /\ p[i] = delivered[i].part BY <2>4, <3>3
        <5> QED BY <5>2, <5>3
      <4>2. q[got + 1] = Append(p, got + 1)[got + 1] BY <1>1, <1>3, <2>2, <3>2, <3>3
      <4>3. \A i \in 1 .. got + 1 : i \in 1 .. got \/ i = got + 1 BY <1>1
      <4> QED BY <4>1, <4>2, <4>3
    <3>5. q = Append(p, got + 1) BY <3>2, <3>3, <3>4, SeqEqual
    <3> QED BY <3>1, <3>5
  <2>6. PartsOf(delivered)' = PartsOf(delivered') BY DEF PartsOf
  <2>7. Consumer!Deliver
        BY <1>1, <1>3, <2>1, <2>3, <2>4, <2>5, <2>6 DEF Consumer!Deliver
  <2> QED BY <2>7 DEF Consumer!Next
<1>4. CASE /\ sent[got + 1] = "chunk"
           /\ delivered' = Append(delivered, [file |-> files[n], nth |-> n, part |-> got + 1])
           /\ result' = "cbError" \/ UNCHANGED result
  <2>1. n \in 1 .. Len(files) /\ files \in Seq(Seq(STRING))
        BY <1>1 DEF IInv, TypeInv, TypeOK, DownloadInv, Downloading, Single
  <2>2. n \in Nat /\ files[n] \in Seq(STRING) BY <2>1
  <2>3. [file |-> files[n], nth |-> n, part |-> got + 1] \in Piece BY <1>1, <2>2 DEF Piece
  <2> QED BY <1>3, <1>4, <2>3
<1> QED BY <1>2, <1>4 DEF RecvChunk, Return

\* Every step of a call is one of StreamConsumer, or not seen there.
LEMMA DownloadPromised == ASSUME IInv, FreshInv, Next PROVE [Consumer!Next]_(Consumer!vars)
<1>1. CASE ~Single BY <1>1, OthersUnseen
<1>2. CASE Single
  <2>1. Single' /\ mode = "download" BY <1>2, CallKept DEF Single
  <2>2. /\ pc \in {"job", "client", "open", "recv", "returned"} /\ (pc # "returned" => result = "none")
        /\ n \in Nat
        BY <2>1 DEF IInv, TypeInv, TypeOK, Points
  <2>3. CASE ShowJob \/ Prepare \/ RecvError
    <3>1. result = "none" /\ result' # "nil" /\ UNCHANGED <<sent, ended, delivered>>
          BY <2>2, <2>3 DEF ShowJob, Prepare, RecvError, Return, stream
    <3> QED BY <1>2, <2>1, <3>1, FailsOrStays
  <2>4. CASE Open
    <3>1. sent = <<>> /\ ended = "open" BY <1>2, <2>1, <2>4 DEF Open, FreshInv, IInv, SingleInv
    <3>2. result = "none" /\ result' # "nil" /\ UNCHANGED <<sent, ended, delivered>>
          BY <2>2, <2>4, <3>1 DEF Open, Return, stream
    <3> QED BY <1>2, <2>1, <3>2, FailsOrStays
  <2>5. CASE RecvEOF
    <3>1. /\ result = "none" /\ result' = "nil" /\ ended = "eof" /\ UNCHANGED <<sent, ended, delivered>>
          /\ Len(delivered) = Len(sent) /\ delivered \in Seq(Piece)
          BY <2>1, <2>2, <2>5 DEF RecvEOF, Return, stream, IInv, SingleInv, DownloadInv, Downloading
    <3>2. Told = "nothing" /\ Told' = "nil" BY <1>2, <2>1, <3>1 DEF Told
    <3>3. Len(PartsOf(delivered)) = Len(sent) /\ UNCHANGED PartsOf(delivered) BY <3>1 DEF PartsOf
    <3>4. Consumer!Finish BY <1>2, <2>1, <3>1, <3>2, <3>3 DEF Consumer!Finish
    <3> QED BY <3>4 DEF Consumer!Next
  <2>6. CASE RecvChunk BY <1>2, <2>1, <2>6, ChunkPromised
  <2>7. CASE Server
    <3>1. result = "none" /\ ended = "open" /\ UNCHANGED <<delivered, result>>
          BY <2>2, <2>7 DEF Server, ServerSend, ServerEnd
    <3>2. Told = "nothing" /\ Told' = "nothing" /\ UNCHANGED PartsOf(delivered)
          BY <2>1, <3>1 DEF Told, PartsOf
    <3>3. CASE \E r \in ChunkRecords : ServerSend(r)
      <4>1. Consumer!Send BY <1>2, <2>1, <3>1, <3>2, <3>3 DEF ServerSend, Consumer!Send
      <4> QED BY <4>1 DEF Consumer!Next
    <3>4. CASE \E e \in {"eof", "broken"} : ServerEnd(e)
      <4>1. Consumer!End BY <1>2, <2>1, <3>1, <3>2, <3>4 DEF ServerEnd, Consumer!End
      <4> QED BY <4>1 DEF Consumer!Next
    <3> QED BY <2>1, <2>7, <3>3, <3>4 DEF Server
  <2>8. CASE Expire
    <3>1. UNCHANGED <<sent, ended, delivered, result>> BY <2>8 DEF Expire, stream
    <3>2. UNCHANGED Told /\ UNCHANGED PartsOf(delivered) BY <1>2, <2>1, <3>1 DEF Told, PartsOf
    <3> QED BY <1>2, <2>1, <3>1, <3>2 DEF Consumer!vars
  <2>9. ~(\/ CheckFiles \/ RecvTables \/ Spawn \/ ParseError \/ Callback \/ SendChunk \/ NextFile
          \/ CloseAndRecv \/ Workers)
        BY <2>1, <2>2 DEF CheckFiles, RecvTables, Spawn, ParseError, Callback, SendChunk, NextFile,
                          CloseAndRecv, Workers, Convert
  <2> QED BY <2>3, <2>4, <2>5, <2>6, <2>7, <2>8, <2>9 DEF Next, Main
<1> QED BY <1>1, <1>2

\* For any job and any file, DownloadAlgoResultFile (download.file.go) keeps the
\* promise of StreamConsumer: the callback is given the parts one at a time, none
\* after a failure or after the call has returned, and all of them before nil.
THEOREM DownloadImplements == Spec => DownloadImplementsConsumer
<1>1. Init => Consumer!Init /\ FreshInv
  <2> SUFFICES ASSUME Init PROVE Consumer!Init /\ FreshInv
      OBVIOUS
  <2>1. PartsOf(delivered) = <<>> BY DEF Init, PartsOf
  <2>2. Told = "nothing" BY DEF Init, Told
  <2> QED BY <2>1, <2>2 DEF Init, FreshInv, Consumer!Init
<1>2. IInv /\ FreshInv /\ [Next]_vars => FreshInv' /\ [Consumer!Next]_(Consumer!vars)
  <2> SUFFICES ASSUME IInv, FreshInv, [Next]_vars PROVE FreshInv' /\ [Consumer!Next]_(Consumer!vars)
      OBVIOUS
  <2>1. CASE Next BY <2>1, FreshStep, DownloadPromised
  <2>2. CASE UNCHANGED vars
    <3>1. UNCHANGED <<call, n, sent, ended, delivered, result>> BY <2>2 DEF vars
    <3>2. UNCHANGED <<Single, Told, PartsOf(delivered)>> BY <3>1 DEF Single, mode, Told, PartsOf
    <3> QED BY <3>1, <3>2 DEF FreshInv, Consumer!vars
  <2> QED BY <2>1, <2>2
<1>3. Spec => Consumer!Spec BY <1>1, <1>2, Invariance, PTL DEF Spec, Consumer!Spec
<1> QED BY <1>3 DEF DownloadImplementsConsumer
=============================================================================
