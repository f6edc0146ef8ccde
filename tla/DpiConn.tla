------------------------------- MODULE DpiConn -------------------------------
(***************************************************************************)
(* One TCP connection through the DPI tunnel in its default mode           *)
(* (post-async), end to end:                                               *)
(*   - the handler of an accepted connection (dpi/client/proxy.go,         *)
(*     handleTCPForward or handleHTTPProxy) with its two copy goroutines;  *)
(*   - tunnelConn with its goroutines pumpRead and pumpWrite;              *)
(*   - the transport (dpi/client/transport.go): every upload is a POST of  *)
(*     its own, at most Window at a time, and the caller waits 5 ms for    *)
(*     the answer and no longer;                                           *)
(*   - the server (dpi/server/handler.go): a goroutine per POST, the table *)
(*     of connections, the goroutine that reads the target, and the one    *)
(*     that answers the GET of the download.                               *)
(* A chunk is its number, counted from 1 in each direction. The upload of  *)
(* a chunk and the POST that carries it have the same name: io.Copy makes  *)
(* one Write at a time and waits for its ack, so pumpWrite's batch never   *)
(* holds more than one.                                                    *)
(***************************************************************************)
EXTENDS Naturals, Sequences, FiniteSets

CONSTANTS MaxUp,        \* bound on the chunks the application sends
          MaxEvents,    \* bound on the chunks sent either way and the failures together
          Window,       \* capacity of postSem (8)
          DataCap,      \* capacity of dataCh (16)
          ReadCap,      \* capacity of readCh (16)
          MaxFail       \* bound on requests that fail in the network and the stall together

CloseP == MaxUp + 1     \* the POST that carries MsgClose
Posts == 1..CloseP
Nothing == 0

ASSUME DpiConnAssumption ==
    /\ MaxUp \in Nat /\ MaxEvents \in Nat /\ MaxFail \in Nat
    /\ Window \in Nat \ {0} /\ DataCap \in Nat \ {0} /\ ReadCap \in Nat \ {0}

VARIABLES
    hpc,        \* where the handler is
    active,     \* t.active, as far as this connection goes
    appGone,    \* the handler has closed the application's connection
    upc, wr,    \* the upload copy, and the chunk its Write carries
    ack,        \* what pumpWrite has answered that Write
    writeCh, batch, wpc,        \* pumpWrite: its queue, its batch, where it is
    dpc, got, eof,      \* the download copy, what it has read, Read said io.EOF
    readCh, readDone,   \* the channel readCh and whether it is closed
    rpc, rbuf,          \* pumpRead and the chunk it holds
    closed,     \* closeCh is closed
    cpc,        \* where CloseConn is
    readerClosed,       \* the body of the download was closed by Close
    res,        \* each POST, as its sender sees it
    srv,        \* each POST, as the server sees it
    cst, gst,   \* the server's side of the connect POST and of the download GET
    entry,      \* clients[connID] is set
    remote,     \* the server's connection to the target is open
    spc, sbuf,  \* the goroutine that reads the target, and the chunk it holds
    dataCh, dataDone,   \* the channel dataCh and whether it is closed
    body,       \* chunks on the way in the body of the download
    tsent, tclosed,     \* the target: chunks sent, and that it has closed
    target,     \* chunks written to the target, oldest first
    stalled,    \* the target has stopped reading
    fails, bodyFailed, targetFailed     \* what has failed so far

handlerVars == <<hpc, active, appGone>>
writeVars == <<upc, wr, ack, writeCh, batch, wpc>>
readVars == <<dpc, got, eof, readCh, readDone, rpc, rbuf>>
closeVars == <<closed, cpc, readerClosed>>
postVars == <<res, srv>>
tableVars == <<entry, remote>>
pumpVars == <<spc, sbuf, tsent, tclosed>>
downVars == <<gst, dataCh, dataDone, body>>
failVars == <<fails, bodyFailed, targetFailed>>
vars == <<handlerVars, writeVars, readVars, closeVars, postVars, cst, tableVars,
          pumpVars, downVars, target, stalled, failVars>>

Init ==
    /\ hpc = "connect" /\ active = 0 /\ appGone = FALSE
    /\ upc = "off" /\ wr = Nothing /\ ack = "none"
    /\ writeCh = <<>> /\ batch = Nothing /\ wpc = "off"
    /\ dpc = "off" /\ got = <<>> /\ eof = FALSE /\ readCh = <<>> /\ readDone = FALSE
    /\ rpc = "off" /\ rbuf = Nothing
    /\ closed = FALSE /\ cpc = "no" /\ readerClosed = FALSE
    /\ res = [p \in Posts |-> "none"] /\ srv = [p \in Posts |-> "none"]
    /\ cst = "sent" /\ gst = "none" /\ entry = FALSE /\ remote = FALSE
    /\ spc = "off" /\ sbuf = Nothing /\ dataCh = <<>> /\ dataDone = FALSE /\ body = <<>>
    /\ tsent = 0 /\ tclosed = FALSE /\ target = <<>> /\ stalled = FALSE
    /\ fails = 0 /\ bodyFailed = FALSE /\ targetFailed = FALSE

\* The bounds leave room for one more event, for one more fault.
Room == wr + tsent + fails < MaxEvents
FaultRoom == fails + (IF stalled THEN 1 ELSE 0) < MaxFail

\* One more failure of the network.
Fails == Room /\ FaultRoom /\ fails' = fails + 1
-----------------------------------------------------------------------------
(* The handler: Connect, newTunnelConn, the copies, Close *)

\* Connect waits for the answer: "status":"ok" or an error.
ConnectReturns ==
    /\ hpc = "connect" /\ cst \in {"ok", "error"}
    /\ \/ cst = "ok" /\ hpc' = "connected" /\ active' = 1
       \/ cst = "error" /\ hpc' = "done" /\ UNCHANGED active
    /\ UNCHANGED <<appGone, writeVars, readVars, closeVars, postVars, cst, tableVars,
                   pumpVars, downVars, target, failVars, stalled>>

\* The connect POST fails, before or after the server has seen it.
ConnectFails ==
    /\ hpc = "connect" /\ Fails
    /\ hpc' = "done"
    /\ cst' \in {cst, IF cst = "sent" THEN "lost" ELSE cst}
    /\ UNCHANGED <<active, appGone, writeVars, readVars, closeVars, postVars, tableVars,
                   pumpVars, downVars, target, bodyFailed, targetFailed, stalled>>

\* DownloadStream sends its GET. handleHTTPProxy first answers the
\* application, and when that fails it returns without CloseConn.
Download ==
    /\ hpc = "connected"
    /\ \/ hpc' = "download" /\ gst' = "sent"
       \/ hpc' = "done" /\ UNCHANGED gst
    /\ UNCHANGED <<active, appGone, writeVars, readVars, closeVars, postVars, cst,
                   tableVars, pumpVars, dataCh, dataDone, body, target, failVars, stalled>>

\* 200: the pumps and the copies start.
DownloadReturns ==
    /\ hpc = "download" /\ gst \in {"serving", "done"}
    /\ hpc' = "run"
    /\ upc' = "read" /\ wpc' = "select" /\ dpc' = "read" /\ rpc' = "check"
    /\ UNCHANGED <<active, appGone, wr, ack, writeCh, batch, got, eof, readCh, readDone,
                   rbuf, closeVars, postVars, cst, tableVars, pumpVars, downVars, target,
                   failVars, stalled>>

\* No tunnelConn: handleTCPForward calls CloseConn, handleHTTPProxy does not. They
\* differ only here and in Download, so which one it is need not be remembered.
GiveUp ==
    \/ hpc' = "closewait" /\ cpc' = "sem"
    \/ hpc' = "done" /\ UNCHANGED cpc

\* 404, or the GET fails.
DownloadFails ==
    /\ hpc = "download"
    /\ \/ gst = "notfound" /\ UNCHANGED <<gst, fails>>
       \/ gst # "notfound" /\ Fails /\ gst' = "done"
    /\ GiveUp
    /\ UNCHANGED <<active, appGone, writeVars, readVars, closed, readerClosed, postVars,
                   cst, tableVars, pumpVars, dataCh, dataDone, body, target, bodyFailed,
                   targetFailed, stalled>>

\* One of the copies has ended: the deferred tunnel.Close().
HandlerCloses ==
    /\ hpc = "run" /\ (upc = "done" \/ dpc = "done")
    /\ hpc' = "closewait"
    /\ \/ ~closed /\ closed' = TRUE /\ cpc' = "sem"
       \/ closed /\ UNCHANGED <<closed, cpc>>
    /\ UNCHANGED <<active, appGone, writeVars, readVars, readerClosed, postVars, cst,
                   tableVars, pumpVars, downVars, target, failVars, stalled>>

\* Close has returned (closeOnce waits for one that is under way): the
\* deferred conn.Close().
HandlerReturns ==
    /\ hpc = "closewait" /\ cpc = "done"
    /\ hpc' = "done" /\ appGone' = TRUE
    /\ UNCHANGED <<active, writeVars, readVars, closeVars, postVars, cst, tableVars,
                   pumpVars, downVars, target, failVars, stalled>>
-----------------------------------------------------------------------------
(* postAsyncFire and doPost *)

\* The POSTs that hold a place of postSem.
InWindow == {p \in Posts : res[p] = "flying"}

\* postSem <- struct{}{}, then doPost in a goroutine.
Fire(p) ==
    /\ Cardinality(InWindow) < Window
    /\ res' = [res EXCEPT ![p] = "flying"]
    /\ srv' = [srv EXCEPT ![p] = "sent"]

\* The answer comes back.
PostReturns(p) ==
    /\ res[p] = "flying" /\ srv[p] = "applied"
    /\ res' = [res EXCEPT ![p] = "ok"]
    /\ UNCHANGED <<handlerVars, writeVars, readVars, closeVars, srv, cst, tableVars, pumpVars,
                   downVars, target, failVars, stalled>>

\* doPost fails, before or after the server has seen the request.
PostFails(p) ==
    /\ res[p] = "flying" /\ Fails
    /\ res' = [res EXCEPT ![p] = "err"]
    /\ \/ UNCHANGED srv
       \/ srv[p] = "sent" /\ srv' = [srv EXCEPT ![p] = "lost"]
    /\ UNCHANGED <<handlerVars, writeVars, readVars, closeVars, cst, tableVars, pumpVars,
                   downVars, target, bodyFailed, targetFailed, stalled>>

\* CloseConn: a place in the window ...
CloseFires ==
    /\ cpc = "sem" /\ Fire(CloseP)
    /\ cpc' = "post"
    /\ UNCHANGED <<handlerVars, writeVars, readVars, closed, readerClosed, cst, tableVars,
                   pumpVars, downVars, target, failVars, stalled>>

\* ... then the answer, an error or 5 ms, all the same; the reader is closed.
CloseFired ==
    /\ cpc = "post"
    /\ cpc' = "done" /\ active' = active - 1
    /\ readerClosed' = closed
    /\ UNCHANGED <<hpc, appGone, writeVars, readVars, closed, postVars, cst, tableVars,
                   pumpVars, downVars, target, failVars, stalled>>
-----------------------------------------------------------------------------
(* Write and pumpWrite *)

\* io.Copy(tunnel, conn): the next chunk of the application, or its end.
AppSends ==
    /\ upc = "read"
    /\ \/ wr < MaxUp /\ Room /\ ~appGone /\ wr' = wr + 1 /\ upc' = "offer"
       \/ upc' = "done" /\ UNCHANGED wr
    /\ UNCHANGED <<handlerVars, ack, writeCh, batch, wpc, readVars, closeVars, postVars, cst,
                   tableVars, pumpVars, downVars, target, failVars, stalled>>

\* The two selects of Write: writeCh or closeCh ...
WriteOffers ==
    /\ upc = "offer"
    /\ \/ upc' = "ack" /\ writeCh' = Append(writeCh, wr)
       \/ closed /\ upc' = "done" /\ UNCHANGED writeCh
    /\ UNCHANGED <<handlerVars, wr, ack, batch, wpc, readVars, closeVars, postVars, cst,
                   tableVars, pumpVars, downVars, target, failVars, stalled>>

\* ... then the ack or closeCh.
WriteReturns ==
    /\ upc = "ack"
    /\ \/ ack = "ok" /\ upc' = "read"
       \/ ack = "err" /\ upc' = "done"
       \/ closed /\ upc' = "done"
    /\ ack' = "none"
    /\ UNCHANGED <<handlerVars, wr, writeCh, batch, wpc, readVars, closeVars, postVars, cst,
                   tableVars, pumpVars, downVars, target, failVars, stalled>>

\* pumpWrite takes a request into its batch, and sends it at once if it is big.
PumpTakes ==
    /\ wpc = "select" /\ writeCh # <<>>
    /\ batch' = Head(writeCh) /\ writeCh' = Tail(writeCh)
    /\ wpc' \in {"select", "sem"}
    /\ UNCHANGED <<handlerVars, upc, wr, ack, readVars, closeVars, postVars, cst, tableVars,
                   pumpVars, downVars, target, failVars, stalled>>

\* The timer, or the closing of closeCh: sendBatch. With closeCh closed and
\* nothing in the batch pumpWrite ends.
PumpFlushes ==
    /\ wpc = "select"
    /\ \/ batch # Nothing /\ wpc' = "sem"
       \/ batch = Nothing /\ closed /\ wpc' = "done"
    /\ UNCHANGED <<handlerVars, upc, wr, ack, writeCh, batch, readVars, closeVars, postVars,
                   cst, tableVars, pumpVars, downVars, target, failVars, stalled>>

\* SendData: a place in the window ...
PumpFires ==
    /\ wpc = "sem" /\ Fire(batch)
    /\ wpc' = "post"
    /\ UNCHANGED <<handlerVars, upc, wr, ack, writeCh, batch, readVars, closeVars, cst,
                   tableVars, pumpVars, downVars, target, failVars, stalled>>

\* ... then the answer or 5 ms: the Write is acked.
PumpAcks ==
    /\ wpc = "post"
    /\ res[batch] # "err"
    /\ ack' = "ok" /\ batch' = Nothing /\ wpc' = "select"
    /\ UNCHANGED <<handlerVars, upc, wr, writeCh, readVars, closeVars, postVars, cst,
                   tableVars, pumpVars, downVars, target, failVars, stalled>>

\* An error within 5 ms: the Write fails, tc.Close() is called, pumpWrite ends.
PumpFails ==
    /\ wpc = "post"
    /\ res[batch] = "err"
    /\ ack' = "err" /\ batch' = Nothing /\ wpc' = "done"
    /\ \/ ~closed /\ closed' = TRUE /\ cpc' = "sem"
       \/ closed /\ UNCHANGED <<closed, cpc>>
    /\ UNCHANGED <<handlerVars, upc, wr, writeCh, readVars, readerClosed, postVars, cst,
                   tableVars, pumpVars, downVars, target, failVars, stalled>>
-----------------------------------------------------------------------------
(* pumpRead and Read *)

\* The select at the head of the loop.
ReadChecks ==
    /\ rpc = "check"
    /\ rpc' = IF closed THEN "done" ELSE "read"
    /\ UNCHANGED <<handlerVars, writeVars, dpc, got, eof, readCh, readDone, rbuf, closeVars,
                   postVars, cst, tableVars, pumpVars, downVars, target, failVars, stalled>>

\* reader.Read gives a chunk ...
ReadChunk ==
    /\ rpc = "read" /\ body # <<>> /\ ~readerClosed
    /\ rbuf' = Head(body) /\ body' = Tail(body) /\ rpc' = "send"
    /\ UNCHANGED <<handlerVars, writeVars, dpc, got, eof, readCh, readDone, closeVars, postVars,
                   cst, tableVars, pumpVars, gst, dataCh, dataDone, target, failVars, stalled>>

\* ... or ends: the body is over, has failed, or was closed. readCh is closed
\* unless closeCh is.
ReadEnds ==
    /\ rpc = "read"
    /\ (gst = "done" /\ body = <<>>) \/ bodyFailed \/ readerClosed
    /\ rpc' = "done"
    /\ readDone' = ~closed
    /\ UNCHANGED <<handlerVars, writeVars, dpc, got, eof, readCh, rbuf, closeVars, postVars,
                   cst, tableVars, pumpVars, downVars, target, failVars, stalled>>

\* Fault: the chunk stays in hand when it has been sent.
ReadSendsAgain ==
    /\ rpc = "send"
    /\ Len(readCh) < ReadCap /\ readCh' = Append(readCh, rbuf)
    /\ UNCHANGED <<handlerVars, writeVars, dpc, rpc, rbuf, got, eof, readDone, closeVars, postVars,
                   cst, tableVars, pumpVars, downVars, target, failVars, stalled>>

\* The select on readCh and closeCh.
ReadSends ==
    /\ rpc = "send"
    /\ \/ Len(readCh) < ReadCap /\ readCh' = Append(readCh, rbuf) /\ rpc' = "check"
       \/ closed /\ rpc' = "done" /\ UNCHANGED readCh
    /\ rbuf' = Nothing
    /\ UNCHANGED <<handlerVars, writeVars, dpc, got, eof, readDone, closeVars, postVars, cst,
                   tableVars, pumpVars, downVars, target, failVars, stalled>>

\* io.Copy(conn, tunnel): Read and the write to the application, which fails
\* once it is gone.
CopyDown ==
    /\ dpc = "read" /\ readCh # <<>>
    /\ readCh' = Tail(readCh)
    /\ \/ ~appGone /\ got' = Append(got, Head(readCh)) /\ UNCHANGED dpc
       \/ dpc' = "done" /\ UNCHANGED got
    /\ UNCHANGED <<handlerVars, writeVars, eof, readDone, rpc, rbuf, closeVars, postVars, cst,
                   tableVars, pumpVars, downVars, target, failVars, stalled>>

\* Read finds readCh closed.
CopyEnds ==
    /\ dpc = "read" /\ readCh = <<>> /\ readDone
    /\ dpc' = "done" /\ eof' = TRUE
    /\ UNCHANGED <<handlerVars, writeVars, got, readCh, readDone, rpc, rbuf, closeVars, postVars,
                   cst, tableVars, pumpVars, downVars, target, failVars, stalled>>
-----------------------------------------------------------------------------
(* The server: POSTs *)

\* handleConnect dials, registers the connection and starts its pump.
ServeConnect ==
    /\ cst = "sent"
    /\ \/ /\ cst' = "ok"
          /\ entry' = TRUE /\ remote' = TRUE /\ spc' = "read"
       \/ /\ cst' = "error"
          /\ UNCHANGED <<entry, remote, spc>>
    /\ UNCHANGED <<handlerVars, writeVars, readVars, closeVars, postVars, sbuf, tsent, tclosed,
                   downVars, target, failVars, stalled>>

\* dispatchPlain: getClient, and the answer if there is no such connection.
Lookup(p) ==
    /\ srv[p] = "sent"
    /\ srv' = [srv EXCEPT ![p] = IF entry THEN "found" ELSE "applied"]
    /\ UNCHANGED <<handlerVars, writeVars, readVars, closeVars, res, cst, tableVars, pumpVars,
                   downVars, target, failVars, stalled>>

\* Fault: the POST is answered and its payload forgotten.
DispatchDataQuiet(p) ==
    /\ p # CloseP /\ srv[p] = "found"
    /\ srv' = [srv EXCEPT ![p] = "applied"]
    /\ UNCHANGED <<handlerVars, writeVars, readVars, closeVars, res, cst, tableVars, pumpVars,
                   downVars, target, failVars, stalled>>

\* conn.remote.Write of the POST waits for a target that does not read: it has
\* no deadline, and only the closing of the connection ends it.
Waits(p) == p # CloseP /\ srv[p] = "found" /\ remote /\ stalled

\* MsgData: conn.remote.Write, and on an error Close and unregisterClient.
DispatchData(p) ==
    /\ p # CloseP /\ srv[p] = "found"
    /\ srv' = [srv EXCEPT ![p] = "applied"]
    /\ \/ /\ remote /\ ~stalled
          /\ target' = Append(target, p)
          /\ UNCHANGED <<tableVars, targetFailed>>
       \/ /\ remote' = FALSE /\ entry' = FALSE
          /\ targetFailed' = (targetFailed \/ remote)
          /\ UNCHANGED target
    /\ UNCHANGED <<handlerVars, writeVars, readVars, closeVars, res, cst, pumpVars, downVars,
                   fails, bodyFailed, stalled>>

\* Fault: MsgClose leaves the table to the pump.
DispatchCloseOnly ==
    /\ srv[CloseP] = "found"
    /\ srv' = [srv EXCEPT ![CloseP] = "applied"]
    /\ remote' = FALSE
    /\ UNCHANGED <<handlerVars, writeVars, readVars, closeVars, res, cst, entry, pumpVars,
                   downVars, target, failVars, stalled>>

\* MsgClose: Close and unregisterClient.
DispatchClose ==
    /\ srv[CloseP] = "found"
    /\ srv' = [srv EXCEPT ![CloseP] = "applied"]
    /\ remote' = FALSE /\ entry' = FALSE
    /\ UNCHANGED <<handlerVars, writeVars, readVars, closeVars, res, cst, pumpVars, downVars,
                   target, failVars, stalled>>
-----------------------------------------------------------------------------
(* The server: the goroutine that reads the target, and the download *)

\* remote.Read: a chunk, or the end (the target's, or our own Close).
TargetSends ==
    /\ spc = "read"
    /\ \/ /\ remote /\ Room
          /\ tsent' = tsent + 1 /\ sbuf' = tsent + 1 /\ spc' = "put"
          /\ UNCHANGED tclosed
       \/ /\ tclosed' = remote
          /\ spc' = "end"
          /\ UNCHANGED <<tsent, sbuf>>
    /\ UNCHANGED <<handlerVars, writeVars, readVars, closeVars, postVars, cst, tableVars,
                   downVars, target, failVars, stalled>>

\* The target stops reading, for good, and a Write meets it. (A target that is
\* slow is covered by the steps that come before its next read.)
TargetStalls ==
    /\ remote /\ ~stalled /\ FaultRoom
    /\ \E p \in Posts \ {CloseP} : srv[p] = "found"
    /\ stalled' = TRUE
    /\ UNCHANGED <<handlerVars, writeVars, readVars, closeVars, postVars, cst, tableVars,
                   pumpVars, downVars, target, failVars>>

\* cc.dataCh <- data waits for room, for ever if need be.
PutData ==
    /\ spc = "put" /\ Len(dataCh) < DataCap
    /\ dataCh' = Append(dataCh, sbuf)
    /\ spc' = "read" /\ sbuf' = Nothing
    /\ UNCHANGED <<handlerVars, writeVars, readVars, closeVars, postVars, cst, tableVars, tsent,
                   tclosed, gst, dataDone, body, target, failVars, stalled>>

\* The end of the loop: close(dataCh), remote.Close() ...
PumpCloses ==
    /\ spc = "end"
    /\ dataDone' = TRUE /\ remote' = FALSE
    /\ spc' = "unregister"
    /\ UNCHANGED <<handlerVars, writeVars, readVars, closeVars, postVars, cst, entry, sbuf,
                   tsent, tclosed, gst, dataCh, body, target, failVars, stalled>>

\* Fault: the goroutine leaves its entry in the table.
PumpForgets ==
    /\ spc = "unregister"
    /\ spc' = "done"
    /\ UNCHANGED <<handlerVars, writeVars, readVars, closeVars, postVars, cst, tableVars, sbuf,
                   tsent, tclosed, downVars, target, failVars, stalled>>

\* ... and unregisterClient.
PumpUnregisters ==
    /\ spc = "unregister"
    /\ entry' = FALSE
    /\ spc' = "done"
    /\ UNCHANGED <<handlerVars, writeVars, readVars, closeVars, postVars, cst, remote, sbuf,
                   tsent, tclosed, downVars, target, failVars, stalled>>

\* handleDownload: 200 for a connection in the table, 404 for others.
ServeDownload ==
    /\ gst = "sent"
    /\ gst' = IF entry THEN "serving" ELSE "notfound"
    /\ UNCHANGED <<handlerVars, writeVars, readVars, closeVars, postVars, cst, tableVars,
                   pumpVars, dataCh, dataDone, body, target, failVars, stalled>>

\* Its loop: a chunk of dataCh goes into the body ...
SendBody ==
    /\ gst = "serving" /\ dataCh # <<>>
    /\ body' = Append(body, Head(dataCh)) /\ dataCh' = Tail(dataCh)
    /\ UNCHANGED <<handlerVars, writeVars, readVars, closeVars, postVars, cst, tableVars,
                   pumpVars, gst, dataDone, target, failVars, stalled>>

\* Fault: the loop ends when the goroutine does, whatever dataCh holds.
EndBodyEarly ==
    /\ gst = "serving"
    /\ dataDone \/ readerClosed \/ bodyFailed
    /\ gst' = "done"
    /\ UNCHANGED <<handlerVars, writeVars, readVars, closeVars, postVars, cst, tableVars,
                   pumpVars, dataCh, dataDone, body, target, failVars, stalled>>

\* ... until dataCh is closed and empty, or the request's context is done.
EndBody ==
    /\ gst = "serving"
    /\ (dataDone /\ dataCh = <<>>) \/ readerClosed \/ bodyFailed
    /\ gst' = "done"
    /\ UNCHANGED <<handlerVars, writeVars, readVars, closeVars, postVars, cst, tableVars,
                   pumpVars, dataCh, dataDone, body, target, failVars, stalled>>

\* The connection that carries the body fails.
BodyFails ==
    /\ hpc = "run" /\ gst = "serving" /\ ~bodyFailed
    /\ Fails
    /\ bodyFailed' = TRUE
    /\ UNCHANGED <<handlerVars, writeVars, readVars, closeVars, postVars, cst, tableVars,
                   pumpVars, downVars, target, targetFailed, stalled>>
-----------------------------------------------------------------------------
Handler == ConnectReturns \/ Download \/ DownloadReturns \/ HandlerCloses \/ HandlerReturns
Closing == CloseFires \/ CloseFired
Writing == WriteOffers \/ WriteReturns
PumpWrite == PumpTakes \/ PumpFlushes \/ PumpFires \/ PumpAcks \/ PumpFails
PumpRead == ReadChecks \/ ReadChunk \/ ReadEnds \/ ReadSends
CopyDownward == CopyDown \/ CopyEnds
Request(p) == Lookup(p) \/ DispatchData(p) \/ (p = CloseP /\ DispatchClose) \/ PostReturns(p)
TargetPump == PutData \/ PumpCloses \/ PumpUnregisters
ServerDownload == ServeDownload \/ SendBody \/ EndBody

Next ==
    \/ Handler \/ ConnectFails \/ DownloadFails
    \/ Closing
    \/ AppSends \/ Writing \/ PumpWrite
    \/ PumpRead \/ CopyDownward
    \/ ServeConnect \/ ServerDownload \/ BodyFails
    \/ TargetSends \/ TargetStalls \/ TargetPump
    \/ \E p \in Posts : Request(p) \/ PostFails(p)

Spec == Init /\ [][Next]_vars

(***************************************************************************)
(* Goroutines run, and a request is answered unless its Write waits for a  *)
(* target that does not read. The application and the target need not send *)
(* or close, and nothing need fail. Weak fairness is enough for the window *)
(* while it has places: a connection takes one a bounded number of times.  *)
(***************************************************************************)
Fairness ==
    /\ WF_vars(Handler)
    /\ WF_vars(gst = "notfound" /\ DownloadFails)
    /\ WF_vars(Closing) /\ WF_vars(Writing) /\ WF_vars(PumpWrite)
    /\ WF_vars(PumpRead) /\ WF_vars(CopyDownward)
    /\ WF_vars(ServeConnect) /\ WF_vars(ServerDownload) /\ WF_vars(TargetPump)
    /\ WF_vars(~remote /\ TargetSends)
    /\ \A p \in Posts : WF_vars(~Waits(p) /\ Request(p))

FairSpec == Spec /\ Fairness
-----------------------------------------------------------------------------
(* Properties *)

\* What the application has read is a prefix of what the target sent, through
\* dataCh, the body, pumpRead and readCh, whatever closes or fails.
DownloadIsPrefix == \A i \in 1..Len(got) : got[i] = i

\* The end of file is not early: when Read says io.EOF and neither the body nor
\* a write to the target has failed, the target has closed and the
\* application has read all it sent.
EofMeansAll ==
    eof /\ ~bodyFailed /\ ~targetFailed => tclosed /\ Len(got) = tsent

\* A connection in the table has a goroutine that will take it out.
EntryHasPump == entry => spc \in {"read", "put", "end", "unregister"}

\* Close overtakes the data: the server has applied MsgClose and not chunk n.
Overtaken(n) == srv[CloseP] = "applied" /\ srv[n] \in {"sent", "found"}

\* A Write that was acked while the connection was open reaches the target,
\* however many uploads are under way and in whatever order the server takes
\* them. It is lost only when MsgClose overtakes it, when a request or the
\* target's connection fails, when the target closes or stops reading.
AckedArrives ==
    \A n \in 1..MaxUp :
        (upc = "read" /\ wr = n /\ ~closed) ~>
            \/ \E i \in 1..Len(target) : target[i] = n
            \/ Overtaken(n) \/ Waits(n)
            \/ fails > 0 \/ targetFailed \/ tclosed

\* Every place of postSem is held by a POST whose Write waits for the target.
WindowStuck == Cardinality(InWindow) = Window /\ \A p \in InWindow : Waits(p)

\* A connection that the client has closed leaves the server's table, also when
\* nobody takes what its goroutine has read or some of its Writes wait for the
\* target. A request that fails can prevent it, and so can a window that is full
\* of waiting Writes: then CloseConn waits for a place for ever.
ClosedIsRemoved == closed ~> (~entry \/ fails > 0 \/ WindowStuck)
=============================================================================
