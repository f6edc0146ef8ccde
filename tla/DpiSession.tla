----------------------------- MODULE DpiSession -----------------------------
(***************************************************************************)
(* The stream mode of the DPI client (dpi/client/session.go and the stream *)
(* branches of transport.go): a pool of sessions, each one long POST (the  *)
(* uplink) and one long GET (the downlink), shared by all connections.     *)
(* A connection is handleTCPForward: Connect, DownloadStream, copying,     *)
(* CloseConn. Its goroutine, its pumpWrite, the demultiplexer of each      *)
(* session and the goroutine of each uplink run concurrently.              *)
(*                                                                         *)
(* pinned and readers of a session always have the same keys (pin, unpin,  *)
(* openConnReader and close change both under s.mu), so they are one       *)
(* variable. A pipe is named after the call that made it: a connection     *)
(* makes at most one in Connect and two in DownloadStream.                 *)
(* The server is external: after a whole Connect frame it sends chunks and *)
(* a Close on the session's downlink.                                      *)
(***************************************************************************)
EXTENDS Integers, Sequences, FiniteSets

CONSTANTS Conns,        \* the connections
          None,         \* no session, no pipe, no connection
          MaxSessions,  \* maxSessions (2)
          SecondAt,     \* connections from which a second session is wanted (8)
          PipeCap,      \* capacity of a pipe (32)
          MaxStarts,    \* bound on the sessions started
          MaxChunks,    \* bound on the chunks a target sends
          MaxFail,      \* bound on failures of the network
          Busy          \* the connections whose two ends send, and whose target may close

Sids == 1..MaxStarts
Garbled == "garbled"
Pipes == Conns \X {"connect", "download", "open"}

ASSUME DpiSessionAssumption ==
    /\ MaxSessions \in Nat \ {0} /\ SecondAt \in Nat /\ PipeCap \in Nat \ {0}
    /\ MaxStarts \in Nat /\ MaxChunks \in Nat /\ MaxFail \in Nat
    /\ None \notin Conns \cup Sids \cup Pipes \cup {Garbled} /\ Garbled \notin Conns
    /\ IsFiniteSet(Conns) /\ Busy \subseteq Conns

VARIABLES
    sessions,   \* t.sessions
    active,     \* t.active
    started,    \* sessions started so far
    closed,     \* s.closed
    uplink,     \* the uplink pipe: "nil", "open", "broken" or "closed"
    wire,       \* the uplink: the connection whose length has no data yet, or
                \* Garbled once parts of two frames are mixed
    readers,    \* s.readers and s.pinned
    down,       \* frames on their way down
    demux, hand,        \* the demultiplexer: where it is, the pipe and chunk it holds
    ch, ended,  \* pipes: the chunks in them, and whether they are closed
    pc, why,    \* where the connection's goroutine is, and for whom it picks
    sess,       \* the session it has at hand
    wpc, wsess, \* pumpWrite in SendData, and its session
    reader,     \* the pipe its pumpRead reads
    srv, home, sent,    \* the server: the connection's state, session, chunks sent
    crashed,    \* a send on a closed channel
    fails

poolVars == <<sessions, active, started>>
sessVars == <<closed, uplink, readers>>
demuxVars == <<down, demux, hand>>
pipeVars == <<ch, ended>>
flowVars == <<pc, why, sess>>
pumpVars == <<wpc, wsess>>
srvVars == <<srv, home, sent>>
vars == <<poolVars, sessVars, wire, demuxVars, pipeVars, flowVars, pumpVars, reader,
          srvVars, crashed, fails>>

Init ==
    /\ sessions = <<>> /\ active = 0 /\ started = 0
    /\ closed = [s \in Sids |-> FALSE] /\ uplink = [s \in Sids |-> "nil"]
    /\ readers = [s \in Sids |-> [c \in Conns |-> None]]
    /\ wire = [s \in Sids |-> None]
    /\ down = [s \in Sids |-> <<>>] /\ demux = [s \in Sids |-> "off"]
    /\ hand = [s \in Sids |-> <<None, 0>>]
    /\ ch = [p \in Pipes |-> <<>>] /\ ended = [p \in Pipes |-> FALSE]
    /\ pc = [c \in Conns |-> "pick"] /\ why = [c \in Conns |-> "connect"]
    /\ sess = [c \in Conns |-> None]
    /\ wpc = [c \in Conns |-> "off"] /\ wsess = [c \in Conns |-> None]
    /\ reader = [c \in Conns |-> None]
    /\ srv = [c \in Conns |-> "none"] /\ home = [c \in Conns |-> None]
    /\ sent = [c \in Conns |-> 0]
    /\ crashed = FALSE /\ fails = 0

Goto(c, l) == pc' = [pc EXCEPT ![c] = l]
Fails == fails < MaxFail /\ fails' = fails + 1
-----------------------------------------------------------------------------
(* muxSession *)

Pool == {sessions[i] : i \in 1..Len(sessions)}
Live == {s \in Pool : ~closed[s]}
PinCount(s) == Cardinality({c \in Conns : readers[s][c] # None})

\* close of the sessions in S: their pipes, their pins, their uplink.
CloseAll(S) ==
    LET C == {s \in S : ~closed[s]}
    IN  /\ closed' = [s \in Sids |-> closed[s] \/ s \in C]
        /\ uplink' = [s \in Sids |-> IF s \in C /\ uplink[s] # "nil" THEN "closed"
                                     ELSE uplink[s]]
        /\ ended' = [p \in Pipes |-> ended[p] \/ \E s \in C, c \in Conns : p = readers[s][c]]
        /\ readers' = [s \in Sids |-> IF s \in C THEN [c \in Conns |-> None] ELSE readers[s]]

\* Fault: the pipe is forgotten and left open.
UnpinOnly(s, c) ==
    /\ readers' = [readers EXCEPT ![s][c] = None]
    /\ UNCHANGED ended

\* unpin: the pipe is closed and the connection forgotten.
Unpin(s, c) ==
    /\ ended' = [p \in Pipes |-> ended[p] \/ p = readers[s][c]]
    /\ readers' = [readers EXCEPT ![s][c] = None]

\* pin, and the first half of openConnReader: the pipe, made if there is none.
Pin(s, c, place) ==
    readers' = [readers EXCEPT ![s][c] = IF @ = None THEN <<c, place>> ELSE @]
-----------------------------------------------------------------------------
(* pickSession *)

\* The first section: a live session, unless a second is wanted and this one
\* has its share of the connections.
PickSession(c) ==
    /\ pc[c] = "pick"
    /\ LET second == active >= SecondAt /\ Len(sessions) < MaxSessions
           fits(i) == /\ ~closed[sessions[i]]
                      /\ second => PinCount(sessions[i]) < active \div 2 + 1
           I == {i \in 1..Len(sessions) : fits(i)}
       IN  IF I # {}
           THEN /\ Goto(c, "pin")
                /\ \E i \in I : /\ \A j \in I : i <= j
                                /\ sess' = [sess EXCEPT ![c] = sessions[i]]
           ELSE Goto(c, "start") /\ UNCHANGED sess
    /\ UNCHANGED <<poolVars, sessVars, wire, demuxVars, pipeVars, why, pumpVars, reader,
                   srvVars, crashed, fails>>

\* startSession: the GET is answered and the demultiplexer runs ...
StartSession(c) ==
    /\ pc[c] = "start" /\ started < MaxStarts
    /\ started' = started + 1
    /\ demux' = [demux EXCEPT ![started + 1] = "read"]
    /\ sess' = [sess EXCEPT ![c] = started + 1]
    /\ Goto(c, "uplink")
    /\ UNCHANGED <<sessions, active, sessVars, wire, down, hand, pipeVars, why, pumpVars,
                   reader, srvVars, crashed, fails>>

\* ... or fails: Connect fails, or newTunnelConn does and CloseConn follows.
StartFails(c) ==
    /\ pc[c] = "start" /\ Fails
    /\ Goto(c, IF why[c] = "connect" THEN "done" ELSE "close")
    /\ UNCHANGED <<poolVars, sessVars, wire, demuxVars, pipeVars, why, sess, pumpVars,
                   reader, srvVars, crashed>>

\* The uplink pipe is stored and its POST starts, whatever close has done.
StartUplink(c) ==
    /\ pc[c] = "uplink"
    /\ uplink' = [uplink EXCEPT ![sess[c]] = "open"]
    /\ Goto(c, "add")
    /\ UNCHANGED <<poolVars, closed, readers, wire, demuxVars, pipeVars, why, sess,
                   pumpVars, reader, srvVars, crashed, fails>>

\* Fault: the second section does not look again.
AddAlways(c) ==
    /\ pc[c] = "add" /\ Goto(c, "pin")
    /\ sessions' = Append(sessions, sess[c])
    /\ UNCHANGED <<active, started, sessVars, wire, demuxVars, pipeVars, why, sess,
                   pumpVars, reader, srvVars, crashed, fails>>

\* Fault: the session that is not needed stays open.
AddKeeps(c) ==
    /\ pc[c] = "add" /\ Goto(c, "pin")
    /\ IF Len(sessions) >= MaxSessions /\ Live # {}
       THEN /\ \E s \in Live : sess' = [sess EXCEPT ![c] = s]
            /\ UNCHANGED sessions
       ELSE sessions' = Append(sessions, sess[c]) /\ UNCHANGED sess
    /\ UNCHANGED <<active, started, sessVars, wire, demuxVars, pipeVars, why, pumpVars,
                   reader, srvVars, crashed, fails>>

\* The second section: if others have filled the pool, the new session is
\* closed and the first live one taken.
AddSession(c) ==
    /\ pc[c] = "add" /\ Goto(c, "pin")
    /\ IF Len(sessions) >= MaxSessions /\ Live # {}
       THEN /\ \E i \in 1..Len(sessions) :
                  /\ ~closed[sessions[i]]
                  /\ \A j \in 1..(i - 1) : closed[sessions[j]]
                  /\ sess' = [sess EXCEPT ![c] = sessions[i]]
            /\ CloseAll({sess[c]})
            /\ UNCHANGED sessions
       ELSE /\ sessions' = Append(sessions, sess[c])
            /\ UNCHANGED <<sess, closed, uplink, readers, ended>>
    /\ UNCHANGED <<active, started, wire, demuxVars, ch, why, pumpVars, reader,
                   srvVars, crashed, fails>>
-----------------------------------------------------------------------------
(* writeEncrypted: WriteLengthPrefixed is two writes to the uplink pipe *)

CanWrite(s) == ~closed[s] /\ uplink[s] = "open"

\* The length.
WriteLength(s, c) == wire' = [wire EXCEPT ![s] = IF @ = None THEN c ELSE Garbled]

\* The data.
WriteData(s, c) == wire' = [wire EXCEPT ![s] = IF @ = c THEN None ELSE Garbled]
-----------------------------------------------------------------------------
(* Connect *)

\* Fault: the connection is pinned after its frame is written.
PinLater(c) ==
    /\ pc[c] = "pin"
    /\ Goto(c, IF why[c] = "connect" THEN "length" ELSE "reader")
    /\ UNCHANGED <<poolVars, sessVars, wire, demuxVars, pipeVars, why, sess, pumpVars,
                   reader, srvVars, crashed, fails>>

\* pin, in Connect and in DownloadStream.
PinConn(c) ==
    /\ pc[c] = "pin"
    /\ Pin(sess[c], c, why[c])
    /\ Goto(c, IF why[c] = "connect" THEN "length" ELSE "reader")
    /\ UNCHANGED <<poolVars, closed, uplink, wire, demuxVars, pipeVars, why, sess,
                   pumpVars, reader, srvVars, crashed, fails>>

\* The Connect frame; on an error unpin.
ConnectWrites(c) ==
    /\ pc[c] \in {"length", "data"}
    /\ LET s == sess[c]
       IN  \/ /\ ~CanWrite(s)
              /\ Unpin(s, c)
              /\ Goto(c, "done") /\ sess' = [sess EXCEPT ![c] = None]
              /\ UNCHANGED <<active, wire, srvVars>>
           \/ /\ CanWrite(s) /\ pc[c] = "length"
              /\ WriteLength(s, c)
              /\ Goto(c, "data")
              /\ UNCHANGED <<active, readers, ended, sess, srvVars>>
           \/ /\ CanWrite(s) /\ pc[c] = "data"
              /\ WriteData(s, c)
              /\ srv' = [srv EXCEPT ![c] = IF wire[s] = c THEN "open" ELSE @]
              /\ home' = [home EXCEPT ![c] = IF wire[s] = c THEN s ELSE @]
              /\ active' = active + 1
              /\ Goto(c, "download") /\ sess' = [sess EXCEPT ![c] = None]
              /\ UNCHANGED <<readers, ended, sent>>
    /\ UNCHANGED <<sessions, started, closed, uplink, demuxVars, ch, why, pumpVars,
                   reader, crashed, fails>>
-----------------------------------------------------------------------------
(* DownloadStream, and what tunnelConn does with it *)

\* sessionFor: the first session in the pool that the connection is pinned to.
SessionFor(c) ==
    LET I == {i \in 1..Len(sessions) : readers[sessions[i]][c] # None}
    IN  IF I = {} THEN None
        ELSE sessions[CHOOSE i \in I : \A j \in I : i <= j]

\* The connection's session, or any if it has none.
DownloadStream(c) ==
    /\ pc[c] = "download"
    /\ why' = [why EXCEPT ![c] = "download"]
    /\ IF SessionFor(c) = None
       THEN Goto(c, "pick") /\ UNCHANGED sess
       ELSE Goto(c, "reader") /\ sess' = [sess EXCEPT ![c] = SessionFor(c)]
    /\ UNCHANGED <<poolVars, sessVars, wire, demuxVars, pipeVars, pumpVars, reader,
                   srvVars, crashed, fails>>

\* openConnReader; pumpRead and pumpWrite start.
OpenConnReader(c) ==
    /\ pc[c] = "reader"
    /\ Pin(sess[c], c, "open")
    /\ reader' = [reader EXCEPT ![c] = readers'[sess[c]][c]]
    /\ wpc' = [wpc EXCEPT ![c] = IF c \in Busy THEN "idle" ELSE "off"]
    /\ Goto(c, "run") /\ sess' = [sess EXCEPT ![c] = None]
    /\ UNCHANGED <<poolVars, closed, uplink, wire, demuxVars, pipeVars, why, wsess,
                   srvVars, crashed, fails>>

\* demuxReader.Read: a chunk, or the end, also when both are ready. pumpRead
\* ends with the end.
Read(c) ==
    /\ reader[c] # None
    /\ LET p == reader[c]
       IN  \/ /\ ch[p] # <<>>
              /\ ch' = [ch EXCEPT ![p] = Tail(@)]
              /\ UNCHANGED reader
           \/ /\ ended[p]
              /\ reader' = [reader EXCEPT ![c] = None]
              /\ UNCHANGED ch
    /\ UNCHANGED <<poolVars, sessVars, wire, demuxVars, ended, flowVars, pumpVars, srvVars,
                   crashed, fails>>

\* SendData, by pumpWrite: sessionFor and the length, then the data. An error
\* ends it.
SendData(c) ==
    /\ \/ /\ wpc[c] = "idle"
          /\ LET s == SessionFor(c)
             IN  IF s # None /\ CanWrite(s)
                 THEN /\ WriteLength(s, c)
                      /\ wpc' = [wpc EXCEPT ![c] = "data"] /\ wsess' = [wsess EXCEPT ![c] = s]
                 ELSE /\ wpc' = [wpc EXCEPT ![c] = "off"]
                      /\ UNCHANGED <<wsess, wire>>
       \/ /\ wpc[c] = "data"
          /\ IF CanWrite(wsess[c]) THEN WriteData(wsess[c], c) ELSE UNCHANGED wire
          /\ wpc' = [wpc EXCEPT ![c] = "off"] /\ wsess' = [wsess EXCEPT ![c] = None]
    /\ UNCHANGED <<poolVars, sessVars, demuxVars, pipeVars, flowVars, reader, srvVars,
                   crashed, fails>>
-----------------------------------------------------------------------------
(* CloseConn *)

\* A copy has ended, or SendData has failed: tunnelConn.Close.
Close(c) ==
    /\ pc[c] = "run"
    /\ Goto(c, "close")
    /\ UNCHANGED <<poolVars, sessVars, wire, demuxVars, pipeVars, why, sess, pumpVars,
                   reader, srvVars, crashed, fails>>

\* The Close frame, whose failure is ignored, then unpin.
CloseWrites(c) ==
    /\ pc[c] \in {"close", "cdata", "unpin"}
    /\ LET s == IF pc[c] = "close" THEN SessionFor(c) ELSE sess[c]
       IN  \/ /\ s = None
              /\ Goto(c, "inactive")
              /\ UNCHANGED <<sess, readers, ended, wire, srv>>
           \/ /\ s # None /\ pc[c] = "close" /\ CanWrite(s)
              /\ WriteLength(s, c)
              /\ Goto(c, "cdata") /\ sess' = [sess EXCEPT ![c] = s]
              /\ UNCHANGED <<readers, ended, srv>>
           \/ /\ s # None /\ pc[c] # "unpin" /\ ~CanWrite(s)
              /\ Goto(c, "unpin") /\ sess' = [sess EXCEPT ![c] = s]
              /\ UNCHANGED <<readers, ended, wire, srv>>
           \/ /\ s # None /\ pc[c] = "cdata" /\ CanWrite(s)
              /\ WriteData(s, c)
              /\ srv' = [srv EXCEPT ![c] = IF wire[s] = c /\ @ = "open" THEN "ending" ELSE @]
              /\ Goto(c, "unpin")
              /\ UNCHANGED <<sess, readers, ended>>
           \/ /\ s # None /\ pc[c] = "unpin"
              /\ Unpin(s, c)
              /\ Goto(c, "inactive") /\ sess' = [sess EXCEPT ![c] = None]
              /\ UNCHANGED <<wire, srv>>
    /\ UNCHANGED <<poolVars, closed, uplink, demuxVars, ch, why, pumpVars, reader,
                   home, sent, crashed, fails>>

\* The deferred decrement of active ...
Inactive(c) ==
    /\ pc[c] = "inactive"
    /\ active' = active - 1
    /\ Goto(c, "shrink")
    /\ UNCHANGED <<sessions, started, sessVars, wire, demuxVars, pipeVars, why, sess,
                   pumpVars, reader, srvVars, crashed, fails>>

\* Fault: no maybeShrinkSessions.
NoShrink(c) ==
    /\ pc[c] = "shrink" /\ Goto(c, "done")
    /\ UNCHANGED <<poolVars, sessVars, wire, demuxVars, pipeVars, why, sess, pumpVars,
                   reader, srvVars, crashed, fails>>

\* ... and maybeShrinkSessions: closed sessions leave the pool, and so do those
\* without pins except the first, which are closed.
MaybeShrinkSessions(c) ==
    /\ pc[c] = "shrink" /\ Goto(c, "done")
    /\ LET idle(i) == i > 1 /\ PinCount(sessions[i]) = 0
           keep(i) == ~closed[sessions[i]] /\ ~idle(i)
           Kept == {i \in 1..Len(sessions) : keep(i)}
       IN  IF Len(sessions) <= 1
           THEN UNCHANGED <<sessions, closed, uplink, readers, ended>>
           ELSE /\ sessions' = [k \in 1..Cardinality(Kept) |->
                                   sessions[CHOOSE i \in Kept :
                                               Cardinality({j \in Kept : j <= i}) = k]]
                /\ CloseAll({sessions[i] : i \in {j \in 1..Len(sessions) : idle(j)}})
    /\ UNCHANGED <<active, started, wire, demuxVars, ch, why, sess, pumpVars,
                   reader, srvVars, crashed, fails>>
-----------------------------------------------------------------------------
(* The demultiplexer of a session, and the end of its uplink *)

\* A frame: MsgData is looked up in readers, MsgClose unpins.
DemuxFrame(s) ==
    /\ demux[s] = "read" /\ down[s] # <<>>
    /\ down' = [down EXCEPT ![s] = Tail(@)]
    /\ LET c == Head(down[s])[1]
           n == Head(down[s])[2]
       IN  \/ /\ n = 0
              /\ Unpin(s, c)
              /\ UNCHANGED <<demux, hand>>
           \/ /\ n # 0 /\ readers[s][c] # None
              /\ demux' = [demux EXCEPT ![s] = "send"]
              /\ hand' = [hand EXCEPT ![s] = <<readers[s][c], n>>]
              /\ UNCHANGED <<readers, ended>>
           \/ /\ n # 0 /\ readers[s][c] = None
              /\ UNCHANGED <<demux, hand, readers, ended>>
    /\ UNCHANGED <<poolVars, closed, uplink, wire, ch, flowVars, pumpVars, reader,
                   srvVars, crashed, fails>>

\* The select of deliver, after the unlock. A closed pipe makes two of its
\* cases ready, and the send panics.
Deliver(s) ==
    /\ demux[s] = "send"
    /\ LET p == hand[s][1]
           n == hand[s][2]
       IN  \/ /\ ended[p] /\ crashed' \in BOOLEAN
              /\ UNCHANGED ch
           \/ /\ ~ended[p] /\ UNCHANGED crashed
              /\ ch' = [ch EXCEPT ![p] = IF Len(@) < PipeCap THEN Append(@, n) ELSE @]
    /\ demux' = [demux EXCEPT ![s] = "read"]
    /\ hand' = [hand EXCEPT ![s] = <<None, 0>>]
    /\ UNCHANGED <<poolVars, sessVars, wire, down, ended, flowVars, pumpVars, reader,
                   srvVars, fails>>

\* The downlink fails: close.
DemuxEnds(s) ==
    /\ demux[s] = "read" /\ Fails
    /\ demux' = [demux EXCEPT ![s] = "done"]
    /\ CloseAll({s})
    /\ UNCHANGED <<poolVars, wire, down, hand, ch, flowVars, pumpVars, reader,
                   srvVars, crashed>>

\* The uplink's POST fails, or the server gives up a stream it cannot read:
\* writes to the pipe fail ...
UplinkBreaks(s) ==
    /\ uplink[s] = "open"
    /\ Fails \/ (wire[s] = Garbled /\ UNCHANGED fails)
    /\ uplink' = [uplink EXCEPT ![s] = "broken"]
    /\ UNCHANGED <<poolVars, closed, readers, wire, demuxVars, pipeVars, flowVars, pumpVars,
                   reader, srvVars, crashed>>

\* ... then its goroutine closes the session.
UplinkEnds(s) ==
    /\ uplink[s] = "broken"
    /\ CloseAll({s})
    /\ UNCHANGED <<poolVars, wire, demuxVars, ch, flowVars, pumpVars, reader,
                   srvVars, crashed, fails>>
-----------------------------------------------------------------------------
(* The server (external) *)

\* It sends a chunk of the target down the session of the Connect, or the end.
ServerSends(c) ==
    /\ srv[c] \in {"open", "ending"}
    /\ \/ /\ srv[c] = "open" /\ c \in Busy /\ sent[c] < MaxChunks
          /\ sent' = [sent EXCEPT ![c] = @ + 1]
          /\ down' = [down EXCEPT ![home[c]] = Append(@, <<c, sent[c] + 1>>)]
          /\ UNCHANGED srv
       \/ /\ srv[c] = "ending" \/ c \in Busy
          /\ srv' = [srv EXCEPT ![c] = "ended"]
          /\ down' = [down EXCEPT ![home[c]] = Append(@, <<c, 0>>)]
          /\ UNCHANGED sent
    /\ UNCHANGED <<poolVars, sessVars, wire, demux, hand, pipeVars, flowVars, pumpVars,
                   reader, home, crashed, fails>>
-----------------------------------------------------------------------------
Conn(c) ==
    \/ PickSession(c) \/ StartSession(c) \/ StartFails(c) \/ StartUplink(c) \/ AddSession(c)
    \/ PinConn(c) \/ ConnectWrites(c) \/ DownloadStream(c) \/ OpenConnReader(c)
    \/ Read(c) \/ SendData(c) \/ Close(c) \/ CloseWrites(c) \/ Inactive(c)
    \/ MaybeShrinkSessions(c)
    \/ ServerSends(c)

Session(s) ==
    DemuxFrame(s) \/ Deliver(s) \/ DemuxEnds(s) \/ UplinkBreaks(s) \/ UplinkEnds(s)

Next ==
    /\ ~crashed
    /\ (\E c \in Conns : Conn(c)) \/ (\E s \in Sids : Session(s))

Spec == Init /\ [][Next]_vars
-----------------------------------------------------------------------------
(* Properties *)

\* However many connections start sessions at once, the pool never has more
\* than maxSessions live ones.
PoolBounded == Cardinality(Live) <= MaxSessions

\* A session that lives is in the pool or in the hands of the connection that
\* starts it: no session is lost from sight.
NoOrphanSession ==
    \A s \in 1..started :
        closed[s] \/ s \in Pool \/ \E c \in Conns : pc[c] \in {"uplink", "add"} /\ sess[c] = s

\* The pipe that pumpRead of c reads is where it will be closed: CloseConn finds
\* it through sessionFor, and the session it finds has not been closed yet.
Findable(c) ==
    LET s == SessionFor(c) IN s # None /\ ~closed[s] /\ readers[s][c] = reader[c]

\* A pipe that is read, open, and that no close of a session will ever close.
Stranded(c) == reader[c] # None /\ ~ended[reader[c]] /\ ~Findable(c)

\* A pipe that is read stays findable until it is closed, whatever the other
\* connections pin, unpin, shrink and close. It is stranded in one way only: when
\* openConnReader makes it in a session that was closed after pickSession or
\* sessionFor chose it (close is over and looks at its table no more).
PipeKeepsOwner ==
    [][\A c \in Conns :
          Stranded(c)' => Stranded(c) \/ (pc[c] = "reader" /\ closed[sess[c]])]_vars

\* A chunk on its way down finds the pipe of its connection, unless the
\* session or the connection has been closed meanwhile: no answer of the
\* server overtakes the pin.
ChunkHasPipe ==
    \A s \in Sids : \A i \in 1..Len(down[s]) :
        LET c == down[s][i][1]
        IN  \/ down[s][i][2] = 0
            \/ readers[s][c] # None
            \/ closed[s] \/ pc[c] \in {"inactive", "shrink", "done"}

\* When every connection has gone at most one session is left, but for one
\* whose uplink has broken and that is about to be closed.
IdlePoolShrinks ==
    (\A c \in Conns : pc[c] = "done") =>
        Cardinality({s \in Live : uplink[s] # "broken"}) <= 1

=============================================================================
