-------------------------------- MODULE MuxPipe --------------------------------
(***************************************************************************)
(* The mux pipe (common/muxpipe/muxpipe.go) with the loops that keep a      *)
(* session up: those of the obfuscated transports (obfs/client/client.go,  *)
(* obfs/server/server.go), where the server must recognise the session by  *)
(* its magic, and those of Snowflake (main/snowflake.go), where it comes   *)
(* with the first KCP packets. The client is one of two kinds:             *)
(*   - forward: RunForwardClient accepts local connections and opens a     *)
(*     stream for each; a goroutine carries the local UDP socket;          *)
(*   - reverse: RequestReverseBind asks the server to listen, and          *)
(*     RunReverseClient dials for each stream the server opens.            *)
(* Both dial again when their session has ended. A number of Sess stands   *)
(* for one session and is used again when nothing refers to it. Conns are  *)
(* the TCP connections that arrive at the listener, the client's or the    *)
(* server's.                                                               *)
(***************************************************************************)
EXTENDS Naturals, FiniteSets

CONSTANTS Conns,        \* connections that arrive
          MaxSess,      \* bound on the sessions that exist at a time
          MaxDeath      \* bound on the sessions that fail

ASSUME MuxAssumption == MaxSess \in Nat \ {0} /\ MaxDeath \in Nat

Sess == 1..MaxSess
NoSess == 0
Ways == {"up", "down"}          \* the two goroutines of Copy

VARIABLES
    transport,  \* "obfs" or "snowflake"
    role,       \* "forward" or "reverse"
    pc,         \* the client's loop
    cur,        \* its session
    cli, srv,   \* the two ends of each session
    udp,        \* sessions whose goroutine reads the UDP socket beside the listener
    relay,      \* relayUDP of each session, at its other end: "none", "on", "over"
    bind,       \* the reverse bind of each session: "asked" on its way, then on the server
    lis,        \* the session whose runReverse has the listener
    st,         \* each connection: "new", "queued", "piped", "done", "lost"
    via,        \* the session that carries it
    copying,    \* the goroutines of its Copy that run
    open,       \* piped connections with both ends open
    deaths, udpLost     \* sessions and relays that failed, datagrams dropped (history)

kind == <<transport, role>>
sessVars == <<pc, cur, cli, srv, udp, relay, bind, lis>>
pipeVars == <<st, via, copying, open>>
muxVars == <<kind, sessVars, pipeVars, deaths, udpLost>>

MuxInit ==
    /\ transport \in {"obfs", "snowflake"} /\ role \in {"forward", "reverse"}
    /\ pc = "dial" /\ cur = NoSess
    /\ cli = [s \in Sess |-> "none"] /\ srv = [s \in Sess |-> "none"]
    /\ udp = {} /\ relay = [s \in Sess |-> "none"] /\ bind = [s \in Sess |-> "none"] /\ lis = NoSess
    /\ st = [c \in Conns |-> "new"] /\ via = [c \in Conns |-> NoSess]
    /\ copying = [c \in Conns |-> {}] /\ open = {}
    /\ deaths = 0 /\ udpLost = 0

Used == {s \in Sess : cli[s] # "none" \/ srv[s] # "none" \/ s \in udp \cup {lis}
                      \/ relay[s] = "on" \/ bind[s] \in {"asked", "bound"}
                      \/ \E c \in Conns : via[c] = s}

\* The client's end of a session is closed, by sess.Close or because it failed; the
\* streams of the session end with it.
Ended(s) == /\ cli' = [cli EXCEPT ![s] = "none"]
            /\ open' = {c \in open : via[c] # s}

------------------------------------------------------------------------------
(* The session *)

\* OpenClient writes the magic; NewClientSession makes a session whose packets the
\* redialing connection will carry.
OpenClient(s) == srv' = [srv EXCEPT ![s] = "magic"]
NewClientSession(s) == srv' = [srv EXCEPT ![s] = "packets"]

\* The session is handed to RequestReverseBind, which sends its request, or to
\* RunForwardClient, which starts the goroutine that reads the local UDP socket.
Start(s) ==
    /\ pc = "dial" /\ s \in Sess \ Used /\ \A r \in Sess \ Used : s <= r
    /\ cur' = s /\ cli' = [cli EXCEPT ![s] = "live"]
    /\ pc' = IF role = "forward" THEN "accept" ELSE "bind"
    /\ udp' = IF role = "forward" THEN udp \cup {s} ELSE udp
    /\ relay' = [relay EXCEPT ![s] = "none"]
    /\ bind' = [bind EXCEPT ![s] = IF role = "reverse" THEN "asked" ELSE "none"]
    /\ UNCHANGED <<kind, lis, pipeVars, deaths, udpLost>>

\* The loops of obfs/client and of main/snowflake.go.
Dial(s) == transport = "obfs" /\ Start(s) /\ OpenClient(s)
SnowflakeDial(s) == transport = "snowflake" /\ Start(s) /\ NewClientSession(s)

\* AcceptKCP and acceptSmux: the first packets of a session have come.
AcceptKCP(s) ==
    /\ srv[s] = "packets"
    /\ srv' = [srv EXCEPT ![s] = IF cli[s] = "live" THEN "mux" ELSE "none"]
    /\ UNCHANGED <<kind, pc, cur, cli, udp, relay, bind, lis, pipeVars, deaths, udpLost>>

\* Detect: the magic came within 500 ms.
Detect(s) ==
    /\ srv[s] = "magic"
    /\ srv' = [srv EXCEPT ![s] = IF cli[s] = "live" THEN "mux" ELSE "none"]
    /\ UNCHANGED <<kind, pc, cur, cli, udp, relay, bind, lis, pipeVars, deaths, udpLost>>

\* It did not: the connection is piped to the target as it is, and the client
\* learns from the keepalive that nobody answers.
DetectLate(s) ==
    /\ srv[s] = "magic" /\ cli[s] = "live" /\ deaths < MaxDeath
    /\ srv' = [srv EXCEPT ![s] = "none"]
    /\ deaths' = deaths + 1
    /\ UNCHANGED <<kind, pc, cur, cli, udp, relay, bind, lis, pipeVars, udpLost>>

\* The transport fails, and one end or the other is the first to notice.
ClientDies(s) ==
    /\ cli[s] = "live" /\ srv[s] \in {"mux", "packets"} /\ deaths < MaxDeath
    /\ deaths' = deaths + 1 /\ Ended(s)
    /\ UNCHANGED <<kind, pc, cur, srv, udp, relay, bind, lis, st, via, copying, udpLost>>

ServerNotices(s) ==
    /\ srv[s] = "mux" /\ cli[s] # "live"
    /\ srv' = [srv EXCEPT ![s] = "none"]
    /\ UNCHANGED <<kind, pc, cur, cli, udp, relay, bind, lis, pipeVars, deaths, udpLost>>

ClientNotices(s) ==
    /\ cli[s] = "live" /\ srv[s] = "none"
    /\ Ended(s)
    /\ UNCHANGED <<kind, pc, cur, srv, udp, relay, bind, lis, st, via, copying, deaths, udpLost>>

ServerDies(s) ==
    /\ cli[s] = "live" /\ srv[s] = "mux" /\ deaths < MaxDeath
    /\ srv' = [srv EXCEPT ![s] = "none"]
    /\ deaths' = deaths + 1
    /\ UNCHANGED <<kind, pc, cur, cli, udp, relay, bind, lis, pipeVars, udpLost>>

------------------------------------------------------------------------------
(* Connections *)

Arrive(c) ==
    /\ st[c] = "new" /\ (role = "reverse" => lis # NoSess)
    /\ st' = [st EXCEPT ![c] = "queued"]
    /\ UNCHANGED <<kind, sessVars, via, copying, open, deaths, udpLost>>

\* Copy starts its two goroutines.
Pipe(c, s) ==
    /\ st' = [st EXCEPT ![c] = "piped"] /\ via' = [via EXCEPT ![c] = s]
    /\ copying' = [copying EXCEPT ![c] = Ways] /\ open' = open \cup {c}

AcceptKeepsSession(c) ==
    /\ pc = "accept" /\ st[c] = "queued"
    /\ IF cli[cur] = "live"
       THEN Pipe(c, cur)
       ELSE st' = [st EXCEPT ![c] = "lost"] /\ UNCHANGED <<via, copying, open>>
    /\ UNCHANGED <<kind, sessVars, deaths, udpLost>>

\* RunForwardClient: Accept, then OpenTCP; when that fails the connection is closed
\* and runForward dials again.
ForwardAccept(c) ==
    /\ pc = "accept" /\ st[c] = "queued"
    /\ IF cli[cur] = "live"
       THEN Pipe(c, cur) /\ UNCHANGED pc
       ELSE /\ st' = [st EXCEPT ![c] = "lost"] /\ pc' = "dial"
            /\ UNCHANGED <<via, copying, open>>
    /\ UNCHANGED <<kind, cur, cli, srv, udp, relay, bind, lis, deaths, udpLost>>

NotClosed(c) == UNCHANGED open

\* Each goroutine closes both ends when its copy is over.
Closes(c) == open' = open \ {c}

CopyEnds(c, w) ==
    /\ w \in copying[c]
    /\ Closes(c)
    /\ copying' = [copying EXCEPT ![c] = @ \ {w}]
    /\ st' = [st EXCEPT ![c] = IF copying[c] = {w} THEN "done" ELSE @]
    /\ via' = [via EXCEPT ![c] = IF copying[c] = {w} THEN NoSess ELSE @]
    /\ UNCHANGED <<kind, sessVars, deaths, udpLost>>

\* A copy ends because its source has no more to send, or because one end of the
\* connection has been closed.
SourceEnds(c, w) == c \in open /\ CopyEnds(c, w)
CopyFails(c, w) == c \notin open /\ CopyEnds(c, w)

\* The end of a session where the UDP socket is read, and the one that relays.
Near(s) == IF role = "forward" THEN cli[s] = "live" ELSE srv[s] = "mux"
Far(s) == IF role = "forward" THEN srv[s] = "mux" ELSE cli[s] = "live" /\ pc = "serve"

\* The KindUDP stream arrives and relayUDP opens a socket for it.
RelayStarts(s) ==
    /\ s \in udp /\ relay[s] = "none" /\ Near(s) /\ Far(s)
    /\ relay' = [relay EXCEPT ![s] = "on"]
    /\ UNCHANGED <<kind, pc, cur, cli, srv, udp, bind, lis, pipeVars, deaths, udpLost>>

\* ReadUDP fails because the session or its stream has ended: the socket is closed.
RelayEnds(s) ==
    /\ relay[s] = "on" /\ (s \notin udp \/ cli[s] # "live" \/ srv[s] # "mux")
    /\ relay' = [relay EXCEPT ![s] = "over"]
    /\ UNCHANGED <<kind, pc, cur, cli, srv, udp, bind, lis, pipeVars, deaths, udpLost>>

\* A datagram cannot be sent on: relayUDP returns while the session goes on.
RelayFails(s) ==
    /\ relay[s] = "on" /\ deaths < MaxDeath
    /\ relay' = [relay EXCEPT ![s] = "over"]
    /\ deaths' = deaths + 1
    /\ UNCHANGED <<kind, pc, cur, cli, srv, udp, bind, lis, pipeVars, udpLost>>

\* A datagram is read by the goroutine of a session or a stream that has ended:
\* WriteUDP fails, the datagram is dropped and the goroutine returns.
UdpToDeadSession(s) ==
    /\ s \in udp /\ (~Near(s) \/ relay[s] = "over")
    /\ udp' = udp \ {s}
    /\ udpLost' = udpLost + 1
    /\ UNCHANGED <<kind, pc, cur, cli, srv, relay, bind, lis, pipeVars, deaths>>

------------------------------------------------------------------------------
(* Reverse mode *)

\* runReverse: listenDual, which fails when the address is taken. The client may have
\* given its request up by now.
RevListen(s) ==
    /\ bind[s] = "asked" /\ srv[s] = "mux"
    /\ lis' = IF lis = NoSess THEN s ELSE lis
    /\ bind' = [bind EXCEPT ![s] = IF lis = NoSess THEN "bound" ELSE "refused"]
    /\ UNCHANGED <<kind, pc, cur, cli, srv, udp, relay, pipeVars, deaths, udpLost>>

\* The session ended, or was not recognised, before the request came.
RevAskLost(s) ==
    /\ bind[s] = "asked" /\ srv[s] = "none"
    /\ bind' = [bind EXCEPT ![s] = "none"]
    /\ UNCHANGED <<kind, pc, cur, cli, srv, udp, relay, lis, pipeVars, deaths, udpLost>>

\* The answer cannot be written any more: the listener is closed again.
RevAnswerFails(s) ==
    /\ bind[s] = "bound" /\ srv[s] = "none"
    /\ lis' = NoSess /\ bind' = [bind EXCEPT ![s] = "none"]
    /\ UNCHANGED <<kind, pc, cur, cli, srv, udp, relay, pipeVars, deaths, udpLost>>

\* It is written, and a goroutine reads the UDP socket that listenDual may have got.
RevAnswers(s) ==
    /\ bind[s] = "bound" /\ srv[s] = "mux"
    /\ bind' = [bind EXCEPT ![s] = "answered"]
    /\ udp' \in {udp, udp \cup {s}}
    /\ UNCHANGED <<kind, pc, cur, cli, srv, relay, lis, pipeVars, deaths, udpLost>>

\* RequestReverseBind returns the bound address.
BindOk ==
    /\ pc = "bind" /\ bind[cur] = "answered" /\ cli[cur] = "live"
    /\ bind' = [bind EXCEPT ![cur] = "none"]
    /\ pc' = "serve"
    /\ UNCHANGED <<kind, cur, cli, srv, udp, relay, lis, pipeVars, deaths, udpLost>>

\* It returns the empty string, or the session has ended: runReverse closes it
\* and dials again.
BindFails ==
    /\ pc = "bind" /\ (bind[cur] = "refused" \/ cli[cur] # "live")
    /\ Ended(cur)
    /\ bind' = [bind EXCEPT ![cur] = IF @ \in {"asked", "bound"} THEN @ ELSE "none"]
    /\ pc' = "dial"
    /\ UNCHANGED <<kind, cur, srv, udp, relay, lis, st, via, copying, deaths, udpLost>>

\* AcceptStream fails in RunReverseClient.
ServeEnds ==
    /\ pc = "serve" /\ cli[cur] # "live"
    /\ pc' = "dial"
    /\ UNCHANGED <<kind, cur, cli, srv, udp, relay, bind, lis, pipeVars, deaths, udpLost>>

\* The accept loop of runReverse, which goes on after its session has ended.
RevAccept(c) ==
    /\ role = "reverse" /\ st[c] = "queued" /\ lis # NoSess /\ bind[lis] # "bound"
    /\ IF srv[lis] = "mux" /\ cli[lis] = "live"
       THEN Pipe(c, lis)
       ELSE st' = [st EXCEPT ![c] = "lost"] /\ UNCHANGED <<via, copying, open>>
    /\ UNCHANGED <<kind, sessVars, deaths, udpLost>>

------------------------------------------------------------------------------
Client == (\E s \in Sess : Dial(s) \/ SnowflakeDial(s)) \/ BindOk \/ BindFails \/ ServeEnds
Session(s) == \/ Detect(s) \/ AcceptKCP(s) \/ ServerNotices(s) \/ ClientNotices(s)
              \/ RevListen(s) \/ RevAskLost(s) \/ RevAnswerFails(s) \/ RevAnswers(s)
              \/ RelayEnds(s)
Accepts(c) == ForwardAccept(c) \/ RevAccept(c)

MuxNext ==
    \/ Client
    \/ \E s \in Sess : \/ Session(s) \/ DetectLate(s) \/ ClientDies(s) \/ ServerDies(s)
                       \/ RelayStarts(s) \/ RelayFails(s) \/ UdpToDeadSession(s)
    \/ \E c \in Conns : \/ Arrive(c) \/ Accepts(c)
                        \/ \E w \in Ways : SourceEnds(c, w) \/ CopyFails(c, w)

MuxSpec == MuxInit /\ [][MuxNext]_muxVars

\* Goroutines run, and both ends learn of a failure in the end (smux's keepalive).
\* Datagrams and connections may or may not come.
MuxFairSpec ==
    /\ MuxSpec /\ WF_muxVars(Client)
    /\ \A s \in Sess : WF_muxVars(Session(s))
    /\ \A c \in Conns : WF_muxVars(Accepts(c)) /\ \A w \in Ways : WF_muxVars(CopyFails(c, w))

------------------------------------------------------------------------------
(* Properties *)

\* The forward client finds out about a dead session only when it uses it, and
\* a UDP goroutine of a dead session goes on reading beside its successor: each
\* session or relay that fails makes it refuse at most one local connection and drop at
\* most one datagram after it has noticed.
LossPerDeath ==
    role = "forward" => /\ Cardinality({c \in Conns : st[c] = "lost"}) <= deaths
                        /\ udpLost <= deaths

\* No connection is left hanging by the end of a session: from some time on none
\* waits to be accepted, and one that is still piped has its session and both of
\* its copies, the others having been closed. Nor does the end of a session leave
\* a relay behind with its socket.
NoneLeftHanging ==
    <>[](/\ \A c \in Conns : /\ st[c] # "queued"
                             /\ st[c] = "piped" => c \in open /\ copying[c] = Ways
         /\ \A s \in Sess : relay[s] = "on" => cli[s] = "live")

\* A reverse client that dials again after its session failed is published again.
ReverseRecovers == <>[](role = "forward" \/ pc = "serve")
=============================================================================
