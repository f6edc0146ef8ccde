------------------------------ MODULE Turbotunnel ------------------------------
(***************************************************************************)
(* The turbotunnel of the Snowflake transport: one client session's packet *)
(* connection, carried by a sequence of WebSockets.                        *)
(*   - Client (turbotunnel/redialpacketconn.go, standalone/session.go):    *)
(*     dialLoop dials a WebSocket and runs exchange on it, a reader and a  *)
(*     writer goroutine that report an error to each other and to exchange *)
(*     through two unbuffered channels.                                    *)
(*   - Server (standalone/handler.go, turbotunnel/queuepacketconn.go and   *)
(*     clientmap.go): serveHTTP runs a reader and a writer for each        *)
(*     WebSocket; the writer drains the send queue that the client map     *)
(*     had for the ClientID when it started.                               *)
(* Conn e is the e-th WebSocket of the session. Packets are counted, not   *)
(* told apart: KCP, which writes and reads them, sends lost ones again.    *)
(* Reading never blocks on the receive queues, which drop when full, so    *)
(* they are left out, as are packets in flight: both sides of a connection *)
(* send at least their keepalive, so a packet may come at any time.        *)
(***************************************************************************)
EXTENDS Naturals, FiniteSets, FiniteSetsExt

CONSTANTS MaxConn,      \* bound on the WebSockets dialed; the last one does not break
          QueueSize     \* queueSize

ASSUME TurboAssumption == MaxConn \in Nat \ {0} /\ QueueSize \in Nat \ {0}

WebSockets == 1..MaxConn
Queues == 1..(MaxConn + 1)      \* send queues of the ClientID, used again when free
None == 0

VARIABLES
    closed,     \* the RedialPacketConn is closed
    loop, n,    \* dialLoop and the number of its latest connection
    rd, wr,     \* the goroutines of exchange; "err" is blocked sending its error
    sendQ,      \* packets in sendQueue
    link,       \* each WebSocket: "none", "up", "down", "shut" (closed by the client)
    hd,         \* serveHTTP: "none", "greet", "serve", "gone"
    swr,        \* its writer goroutine
    q,          \* the send queue its writer ranges over
    rec, old,   \* the client map's record: its send queue, and whether it has timed out
    qlen,       \* packets in each send queue
    sess,       \* the server has a KCP session with the client
    stale       \* packets taken by the writers, client and server, of a closed connection (history)

loopVars == <<closed, loop, n>>
cliVars == <<rd, wr, sendQ>>
srvVars == <<hd, swr, q>>
mapVars == <<rec, old, qlen, sess>>
vars == <<loopVars, cliVars, link, srvVars, mapVars, stale>>

All(x) == [e \in WebSockets |-> x]

Init ==
    /\ closed = FALSE /\ loop = "check" /\ n = 0
    /\ rd = All("none") /\ wr = All("none") /\ sendQ = 0
    /\ link = All("none")
    /\ hd = All("none") /\ swr = All("none") /\ q = All(None)
    /\ rec = None /\ old = FALSE /\ qlen = [i \in Queues |-> 0] /\ sess = FALSE
    /\ stale = All(<<0, 0>>)

Connected == ~closed /\ n > 0 /\ link[n] = "up"

------------------------------------------------------------------------------
(* Client: dialLoop *)

Check ==
    /\ loop = "check"
    /\ loop' = IF closed THEN "done" ELSE "dial"
    /\ UNCHANGED <<closed, n, cliVars, link, srvVars, mapVars, stale>>

\* WrapWebSocketDial writes the token and the ClientID, and exchange starts.
DialOk ==
    /\ loop = "dial" /\ n < MaxConn
    /\ n' = n + 1 /\ loop' = "exchange"
    /\ link' = [link EXCEPT ![n'] = "up"] /\ hd' = [hd EXCEPT ![n'] = "greet"]
    /\ rd' = [rd EXCEPT ![n'] = "check"] /\ wr' = [wr EXCEPT ![n'] = "select"]
    /\ UNCHANGED <<closed, sendQ, swr, q, mapVars, stale>>

\* The backoff, which a close cuts short.
DialFails ==
    /\ loop = "dial" /\ loop' = "check"
    /\ UNCHANGED <<closed, n, cliVars, link, srvVars, mapVars, stale>>

ReturnsOnClose ==
    /\ loop = "exchange" /\ (closed \/ {rd[n], wr[n]} \cap {"err", "done"} # {})
    /\ rd' = [rd EXCEPT ![n] = IF @ = "err" THEN "done" ELSE @]
    /\ wr' = [wr EXCEPT ![n] = IF @ = "err" /\ rd[n] # "err" THEN "done" ELSE @]
    /\ loop' = "close"
    /\ UNCHANGED <<closed, n, sendQ, link, srvVars, mapVars, stale>>

\* exchange receives one goroutine's error, or finds its channel closed, and returns.
ExchangeReturns ==
    /\ loop = "exchange"
    /\ \/ rd[n] = "err" /\ rd' = [rd EXCEPT ![n] = "done"] /\ UNCHANGED wr
       \/ wr[n] = "err" /\ wr' = [wr EXCEPT ![n] = "done"] /\ UNCHANGED rd
       \/ "done" \in {rd[n], wr[n]} /\ UNCHANGED <<rd, wr>>
    /\ loop' = "close"
    /\ UNCHANGED <<closed, n, sendQ, link, srvVars, mapVars, stale>>

CloseConn ==
    /\ loop = "close" /\ loop' = "check"
    /\ link' = [link EXCEPT ![n] = "shut"]
    /\ UNCHANGED <<closed, n, cliVars, srvVars, mapVars, stale>>

------------------------------------------------------------------------------
(* Client: the goroutines of exchange *)

\* The select with a default: it takes the error of a writer that is blocked
\* sending it, and the writer returns too.
ReaderCheck(e) ==
    /\ rd[e] = "check"
    /\ IF closed \/ wr[e] \in {"err", "done"}
       THEN /\ rd' = [rd EXCEPT ![e] = "done"]
            /\ \/ wr[e] = "err" /\ wr' = [wr EXCEPT ![e] = "done"]
               \/ (closed \/ wr[e] = "done") /\ UNCHANGED wr
       ELSE rd' = [rd EXCEPT ![e] = "read"] /\ UNCHANGED wr
    /\ UNCHANGED <<loopVars, sendQ, link, srvVars, mapVars, stale>>

Read(e) ==
    /\ rd[e] = "read" /\ link[e] = "up" /\ hd[e] = "serve"
    /\ rd' = [rd EXCEPT ![e] = "check"]
    /\ UNCHANGED <<loopVars, wr, sendQ, link, srvVars, mapVars, stale>>

ReadFails(e) ==
    /\ rd[e] = "read" /\ link[e] # "up"
    /\ rd' = [rd EXCEPT ![e] = "err"]
    /\ UNCHANGED <<loopVars, wr, sendQ, link, srvVars, mapVars, stale>>

\* WriteTo drops the packet when sendQueue is full.
WriteTo ==
    /\ ~closed /\ sendQ < QueueSize
    /\ sendQ' = sendQ + 1
    /\ UNCHANGED <<loopVars, rd, wr, link, srvVars, mapVars, stale>>

BlindToClose(e) ==
    /\ wr[e] = "select" /\ rd[e] \in {"err", "done"}
    /\ rd' = [rd EXCEPT ![e] = "done"] /\ wr' = [wr EXCEPT ![e] = "done"]
    /\ UNCHANGED <<loopVars, sendQ, link, srvVars, mapVars, stale>>

\* The writer's select finds the connection closed or the reader's error.
WriterReturns(e) ==
    /\ wr[e] = "select"
    /\ \/ closed /\ UNCHANGED rd
       \/ rd[e] \in {"err", "done"} /\ rd' = [rd EXCEPT ![e] = "done"]
    /\ wr' = [wr EXCEPT ![e] = "done"]
    /\ UNCHANGED <<loopVars, sendQ, link, srvVars, mapVars, stale>>

ErrorSkipped(e) ==
    /\ wr[e] = "select" /\ sendQ > 0
    /\ sendQ' = sendQ - 1
    /\ stale' = [stale EXCEPT ![e][1] = IF link[e] = "shut" THEN @ + 1 ELSE @]
    /\ UNCHANGED <<loopVars, rd, wr, link, srvVars, mapVars>>

\* It may as well take a packet, whatever else is ready, and write it. A packet
\* written to a WebSocket that is down without anyone knowing is lost.
WriterTakes(e) ==
    /\ wr[e] = "select" /\ sendQ > 0
    /\ sendQ' = sendQ - 1
    /\ wr' \in {wr} \cup {[wr EXCEPT ![e] = "err"]}
    /\ link[e] = "up" => wr' = wr
    /\ link[e] = "shut" => wr' # wr
    /\ stale' = [stale EXCEPT ![e][1] = IF link[e] = "shut" THEN @ + 1 ELSE @]
    /\ UNCHANGED <<loopVars, rd, link, srvVars, mapVars>>

\* closeWithError, called when the session on top has ended.
Close ==
    /\ ~closed /\ closed' = TRUE
    /\ UNCHANGED <<loop, n, cliVars, link, srvVars, mapVars, stale>>

------------------------------------------------------------------------------
(* The network *)

Break(e) ==
    /\ link[e] = "up" /\ e < MaxConn
    /\ link' = [link EXCEPT ![e] = "down"]
    /\ UNCHANGED <<loopVars, cliVars, srvVars, mapVars, stale>>

------------------------------------------------------------------------------
(* Server: the client map and the packet connection *)

Held == {q[e] : e \in WebSockets} \ {None}
FreeQueue == Min(Queues \ Held)

\* Only the queues of the set are still referred to.
Garbage(held) == [i \in Queues |-> IF i \in held THEN qlen[i] ELSE 0]

\* SendQueue: the record of the ClientID, made if there is none, is seen now.
SendQueue == /\ rec' = IF rec # None THEN rec ELSE FreeQueue
             /\ old' = FALSE

\* QueuePacketConn.WriteTo by the server's KCP session; a full queue drops.
ServerWrites ==
    /\ sess /\ SendQueue
    /\ qlen' = [qlen EXCEPT ![rec'] = IF @ < QueueSize THEN @ + 1 ELSE @]
    /\ UNCHANGED <<loopVars, cliVars, link, srvVars, sess, stale>>

\* A minute without a packet to the client. A session writes at least its keepalive,
\* every 10 seconds, and a client that is connected has one.
Ages ==
    /\ rec # None /\ ~sess /\ ~Connected
    /\ old' = TRUE
    /\ UNCHANGED <<loopVars, cliVars, link, srvVars, rec, qlen, sess, stale>>

RemoveYoungest ==
    /\ rec # None
    /\ rec' = None /\ old' = FALSE /\ qlen' = Garbage(Held)
    /\ UNCHANGED <<loopVars, cliVars, link, srvVars, sess, stale>>

\* removeExpired, at the next tick of NewClientMap's goroutine.
RemoveExpired ==
    /\ rec # None /\ old
    /\ rec' = None /\ old' = FALSE /\ qlen' = Garbage(Held)
    /\ UNCHANGED <<loopVars, cliVars, link, srvVars, sess, stale>>

\* Ten minutes without a packet from the client: Serve returns in acceptSmux.
SessionEnds ==
    /\ sess /\ ~Connected
    /\ sess' = FALSE
    /\ UNCHANGED <<loopVars, cliVars, link, srvVars, rec, old, qlen, stale>>

------------------------------------------------------------------------------
(* Server: serveHTTP *)

\* The token and the ClientID are read and the two goroutines start.
Greeted(e) ==
    /\ hd[e] = "greet" /\ link[e] = "up"
    /\ hd' = [hd EXCEPT ![e] = "serve"]
    /\ swr' = [swr EXCEPT ![e] = "start"]
    /\ UNCHANGED <<loopVars, cliVars, link, q, mapVars, stale>>

GreetFails(e) ==
    /\ hd[e] = "greet" /\ link[e] # "up"
    /\ hd' = [hd EXCEPT ![e] = "gone"]
    /\ UNCHANGED <<loopVars, cliVars, link, swr, q, mapVars, stale>>

\* A packet for QueueIncoming; the first one makes the KCP listener start a session.
ServerReads(e) ==
    /\ link[e] = "up" /\ hd[e] = "serve"
    /\ sess' = TRUE
    /\ UNCHANGED <<loopVars, cliVars, link, srvVars, rec, old, qlen, stale>>

\* The reader's error is received from errCh and the deferred Close closes the
\* WebSocket. The channel has room for both errors: nobody blocks on it.
ServerReadFails(e) ==
    /\ hd[e] = "serve" /\ link[e] # "up"
    /\ hd' = [hd EXCEPT ![e] = "gone"]
    /\ UNCHANGED <<loopVars, cliVars, link, swr, q, mapVars, stale>>

\* The writer calls OutgoingQueue once, before its loop.
OutgoingQueue(e) ==
    /\ swr[e] = "start" /\ SendQueue
    /\ q' = [q EXCEPT ![e] = rec'] /\ swr' = [swr EXCEPT ![e] = "wait"]
    /\ UNCHANGED <<loopVars, cliVars, link, hd, qlen, sess, stale>>

\* The write fails: the writer returns, and serveHTTP with it.
ServerWriteFails(e) ==
    /\ swr' = [swr EXCEPT ![e] = "done"] /\ q' = [q EXCEPT ![e] = None]
    /\ hd' = [hd EXCEPT ![e] = "gone"]
    /\ qlen' = [Garbage({rec} \cup {q[c] : c \in WebSockets \ {e}})
                EXCEPT ![q[e]] = IF @ > 0 THEN @ - 1 ELSE 0]

\* The writer takes a packet and writes it; a queue that is empty keeps it waiting.
ServerTakes(e) ==
    /\ swr[e] = "wait" /\ qlen[q[e]] > 0
    /\ stale' = [stale EXCEPT ![e][2] = IF hd[e] = "gone" THEN @ + 1 ELSE @]
    /\ \/ /\ hd[e] = "serve"
          /\ qlen' = [qlen EXCEPT ![q[e]] = @ - 1] /\ UNCHANGED srvVars
       \/ (hd[e] = "gone" \/ link[e] # "up") /\ ServerWriteFails(e)
    /\ UNCHANGED <<loopVars, cliVars, link, rec, old, sess>>

------------------------------------------------------------------------------
Loop == Check \/ ExchangeReturns \/ CloseConn
Reader(e) == ReaderCheck(e) \/ ReadFails(e)
Handler(e) == Greeted(e) \/ GreetFails(e) \/ ServerReadFails(e)
ServerWriter(e) == OutgoingQueue(e) \/ ServerTakes(e)

Next == \/ Loop \/ DialOk \/ DialFails \/ WriteTo \/ Close
        \/ ServerWrites \/ Ages \/ RemoveExpired \/ SessionEnds
        \/ \E e \in WebSockets : \/ Reader(e) \/ Read(e) \/ WriterTakes(e) \/ WriterReturns(e) \/ Break(e)
                                 \/ Handler(e) \/ ServerReads(e) \/ ServerWriter(e)

Spec == Init /\ [][Next]_vars

\* Goroutines run; packets may or may not come. A select that finds a channel ready
\* again and again takes it in the end, and a dial succeeds in the end.
FairSpec ==
    /\ Spec
    /\ WF_vars(Loop) /\ SF_vars(DialOk)
    /\ \A e \in WebSockets : /\ WF_vars(Reader(e)) /\ WF_vars(WriterTakes(e)) /\ SF_vars(WriterReturns(e))
                             /\ WF_vars(Handler(e)) /\ WF_vars(ServerWriter(e))

------------------------------------------------------------------------------
(* Properties *)

\* An error that exchange does not receive blocks the goroutine that sends it for
\* ever, when the other one has gone. It is never both: of the two goroutines of an
\* exchange that is over, at most one is left behind.
OneStranded == \A e \in WebSockets : ~(rd[e] = "err" /\ wr[e] = "err" /\ (loop # "exchange" \/ n # e))

\* The writers of a connection that is closed, on the client and on the server,
\* share the queues with those of its successor; each takes at most one packet
\* more, which is lost.
StaleTakesOne == \A e \in WebSockets : stale[e][1] <= 1 /\ stale[e][2] <= 1

\* Close stops the dial loop, wherever it is, and no WebSocket is left open, on
\* either side.
CloseReleases ==
    closed ~> /\ loop = "done"
              /\ \A e \in WebSockets : link[e] # "up" /\ hd[e] \in {"none", "gone"}

\* Once the network holds, a session that is not closed has a WebSocket whose
\* server side drains the queue that the client map hands to its KCP session.
WellConnected ==
    <>[](closed \/ (/\ loop = "exchange" /\ link[n] = "up" /\ hd[n] = "serve"
                    /\ swr[n] = "wait" /\ (rec # None => q[n] = rec)))
=============================================================================
