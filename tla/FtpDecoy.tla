------------------------------- MODULE FtpDecoy -------------------------------
(***************************************************************************)
(* The data ports of the FTP server, which decoy transfers and tunnel      *)
(* channels share (ftp/server/server.go), with the client's side of a      *)
(* decoy session (ftp/client/client.go decoyLoop, ftp/common/ftpclient.go).*)
(*   - A session is one control connection: decoyLoop logs in, lists the   *)
(*     directory, fetches a file and quits; ftpSess.serve answers.         *)
(*   - Each pool has one listener, an acceptLoop and decoyPend, the        *)
(*     channel that gets the next connection accepted. PASV arms both      *)
(*     pools with a new channel of capacity one.                           *)
(*   - Tunnels dial the same ports and send a Hello.                       *)
(* With port ranges every PASV has a listener of its own, whose backlog is *)
(* then the only place its connection can be in (single = FALSE).          *)
(* A connection is <<who dialed it, number>>; a channel of reserveDecoyAny *)
(* is <<session, number of the PASV>>.                                     *)
(***************************************************************************)
EXTENDS Naturals, Sequences, FiniteSets

CONSTANTS Sess,         \* decoy sessions
          UpTunnels, DownTunnels,       \* tunnel channels to be brought up
          MaxTries,     \* bound on the dials of each tunnel
          MaxFault,     \* bound on failed dials of decoy data connections
          Nil           \* no connection, no channel

Pools == {"up", "down"}
Tunnels == UpTunnels \cup DownTunnels
PoolOf(t) == IF t \in UpTunnels THEN "up" ELSE "down"
Keys == Sess \X (1..2)          \* a session has one PASV to list and one to retrieve
Conns == Keys \cup (Tunnels \X (1..MaxTries))

ASSUME DecoyAssumption ==
    /\ Sess \cap (UpTunnels \cup DownTunnels) = {} /\ UpTunnels \cap DownTunnels = {}
    /\ MaxTries \in Nat \ {0} /\ MaxFault \in Nat
    /\ Nil \notin Conns

VARIABLES
    single,     \* both port ranges are single ports
    cli, srv,   \* what the client and the server of each session do next
    round,      \* PASV commands of each session so far
    cancel,     \* sessions with decoyCancel and decoyWait set
    replies,    \* replies on the way to each client
    dc,         \* the data connection each server session writes to
    pend,       \* decoyPend of each pool
    box,        \* the connection in each channel
    backlog,    \* connections each listener has yet to accept
    held,       \* what acceptLoop holds: a connection and the decoyPend it saw
    reading,    \* connections in handleDataConn
    bound, closed,  \* tunnel channels bound, and connections closed
    served,     \* connections that were sent a listing or a file
    tries,      \* dials of each tunnel
    late,       \* sessions whose wait has timed out (history)
    faults

sessVars == <<cli, srv, round, cancel, replies, dc, late>>
poolVars == <<pend, box, backlog, held>>
connVars == <<reading, bound, closed, served, tries>>
decoyVars == <<single, sessVars, poolVars, connVars, faults>>

DecoyInit ==
    /\ single \in BOOLEAN
    /\ cli = [s \in Sess |-> "pasv"] /\ srv = [s \in Sess |-> "idle"]
    /\ round = [s \in Sess |-> 0] /\ cancel = {}
    /\ replies = [s \in Sess |-> <<>>] /\ dc = [s \in Sess |-> Nil]
    /\ pend = [p \in Pools |-> Nil] /\ box = [k \in Keys |-> Nil]
    /\ backlog = [p \in Pools |-> <<>>] /\ held = [p \in Pools |-> Nil]
    /\ reading = {} /\ bound = {} /\ closed = {} /\ served = {}
    /\ tries = [t \in Tunnels |-> 0]
    /\ late = {} /\ faults = 0

Key(s) == <<s, round[s]>>       \* the channel, and the data connection, of the last PASV

ClearUp(k) == [pend EXCEPT !["up"] = IF @ = k THEN Nil ELSE @]

\* The two calls of clearDecoy for a channel.
ClearDecoy(k) == [p \in Pools |-> IF pend[p] = k THEN Nil ELSE pend[p]]

\* decoyCancel: disarm, and close a connection that is in the channel already.
Cancel(s) ==
    IF s \notin cancel THEN UNCHANGED <<cancel, pend, box, closed>>
    ELSE /\ cancel' = cancel \ {s}
         /\ pend' = ClearDecoy(Key(s))
         /\ box' = [box EXCEPT ![Key(s)] = Nil]
         /\ closed' = closed \cup ({box[Key(s)]} \ {Nil})

------------------------------------------------------------------------------
(* A session: its client and its server *)

\* PASV outside the tunnel's paths: the upload pool is armed, or with ranges a
\* listener made. Nothing is pending for clearPasv: decoyLoop uses every PASV.
Pasv(s) ==
    /\ cli[s] = "pasv" /\ srv[s] = "idle"
    /\ round' = [round EXCEPT ![s] = @ + 1]
    /\ pend' = IF single THEN [pend EXCEPT !["up"] = Key(s)'] ELSE pend
    /\ srv' = [srv EXCEPT ![s] = "arm"]
    /\ cli' = [cli EXCEPT ![s] = "227"]
    /\ UNCHANGED <<single, cancel, replies, dc, late, box, backlog, held, connVars, faults>>

\* The download pool is armed and 227 sent.
ArmDown(s) ==
    /\ srv[s] = "arm"
    /\ pend' = IF single THEN [pend EXCEPT !["down"] = Key(s)] ELSE pend
    /\ cancel' = cancel \cup {s}
    /\ srv' = [srv EXCEPT ![s] = "idle"]
    /\ cli' = [cli EXCEPT ![s] = "dial"]
    /\ UNCHANGED <<single, round, replies, dc, late, box, backlog, held, connVars, faults>>

\* applyPasvOverrides: the port of the 227, or with overrides that do not match
\* it, one of them.
DialsPool(s) == Pools

\* The client dials the data connection.
Dial(s) ==
    /\ cli[s] = "dial"
    /\ IF single
       THEN /\ \E p \in DialsPool(s) : backlog' = [backlog EXCEPT ![p] = Append(@, Key(s))]
            /\ UNCHANGED box
       ELSE box' = [box EXCEPT ![Key(s)] = Key(s)] /\ UNCHANGED backlog
    /\ cli' = [cli EXCEPT ![s] = "cmd"]
    /\ UNCHANGED <<single, srv, round, cancel, replies, dc, late, pend, held, connVars, faults>>

\* The dial fails: List or Download returns an error and the client closes.
DialFails(s) ==
    /\ cli[s] = "dial" /\ faults < MaxFault
    /\ faults' = faults + 1
    /\ cli' = [cli EXCEPT ![s] = "done"]
    /\ UNCHANGED <<single, srv, round, cancel, replies, dc, late, poolVars, connVars>>

\* NLST or RETR; openData takes decoyWait and drops decoyCancel with it.
Command(s) ==
    /\ cli[s] = "cmd"
    /\ cli' = [cli EXCEPT ![s] = "reply"]
    /\ srv' = [srv EXCEPT ![s] = "wait"]
    /\ cancel' = cancel \ {s}
    /\ UNCHANGED <<single, round, replies, dc, late, poolVars, connVars, faults>>

\* wait: the connection comes out of the channel, or sixty seconds are over. The
\* pools are still armed.
WaitGets(s) ==
    /\ srv[s] = "wait" /\ box[Key(s)] # Nil
    /\ dc' = [dc EXCEPT ![s] = box[Key(s)]]
    /\ box' = [box EXCEPT ![Key(s)] = Nil]
    /\ srv' = [srv EXCEPT ![s] = "clear"]
    /\ UNCHANGED <<single, cli, round, cancel, replies, late, pend, backlog, held, connVars, faults>>

WaitTimesOut(s) ==
    /\ srv[s] = "wait" /\ box[Key(s)] = Nil
    /\ late' = late \cup {s}
    /\ srv' = [srv EXCEPT ![s] = "clear"]
    /\ UNCHANGED <<single, cli, round, cancel, replies, dc, poolVars, connVars, faults>>

\* wait returns and disarms; the transfer begins or is refused.
WaitClears(s) ==
    /\ srv[s] = "clear"
    /\ pend' = ClearDecoy(Key(s))
    /\ replies' = [replies EXCEPT ![s] = Append(@, IF dc[s] = Nil THEN 425 ELSE 150)]
    /\ srv' = [srv EXCEPT ![s] = IF dc[s] = Nil THEN "idle" ELSE "send"]
    /\ UNCHANGED <<single, cli, round, cancel, dc, late, box, backlog, held, connVars, faults>>

SendKeepsOpen(s) == UNCHANGED closed

\* dc.Close after the listing or the file.
SendCloses(s) == closed' = closed \cup {dc[s]}

Send(s) ==
    /\ srv[s] = "send"
    /\ served' = served \cup {dc[s]}
    /\ SendCloses(s)
    /\ dc' = [dc EXCEPT ![s] = Nil]
    /\ replies' = [replies EXCEPT ![s] = Append(@, 226)]
    /\ srv' = [srv EXCEPT ![s] = "idle"]
    /\ UNCHANGED <<single, cli, round, cancel, late, poolVars, reading, bound, tries, faults>>

\* List reads a first reply, whatever it is, then the client's own connection to
\* its end, then a second reply. decoyLoop goes on with a file if it got names.
ListReturns(s) ==
    /\ cli[s] = "reply" /\ round[s] = 1 /\ Len(replies[s]) = 2 /\ Key(s) \in closed
    /\ cli' = [cli EXCEPT ![s] = IF Key(s) \in served THEN "pasv" ELSE "done"]
    /\ replies' = [replies EXCEPT ![s] = <<>>]
    /\ UNCHANGED <<single, srv, round, cancel, dc, late, poolVars, connVars, faults>>

\* Download fails unless the first reply is 150.
DownloadReturns(s) ==
    /\ cli[s] = "reply" /\ round[s] = 2 /\ replies[s] # <<>>
    /\ Head(replies[s]) = 150 => Len(replies[s]) = 2 /\ Key(s) \in closed
    /\ cli' = [cli EXCEPT ![s] = "done"]
    /\ replies' = [replies EXCEPT ![s] = <<>>]
    /\ UNCHANGED <<single, srv, round, cancel, dc, late, poolVars, connVars, faults>>

\* QUIT, or the connection is gone: serve returns and clears what is pending.
ServeEnds(s) ==
    /\ cli[s] = "done" /\ srv[s] = "idle"
    /\ Cancel(s)
    /\ srv' = [srv EXCEPT ![s] = "ended"]
    /\ UNCHANGED <<single, cli, round, replies, dc, late, backlog, held, reading, bound,
                   served, tries, faults>>

------------------------------------------------------------------------------
(* The pools and the tunnels *)

\* Accept, then decoyPend read under the lock.
AcceptLoop(p) ==
    /\ held[p] = Nil /\ backlog[p] # <<>>
    /\ held' = [held EXCEPT ![p] = [conn |-> Head(backlog[p]), pend |-> pend[p]]]
    /\ backlog' = [backlog EXCEPT ![p] = Tail(@)]
    /\ UNCHANGED <<single, sessVars, pend, box, connVars, faults>>

Offered(p) == held[p].pend # Nil /\ box[held[p].pend] = Nil

HandBoth(p) ==
    /\ held[p] # Nil
    /\ box' = IF Offered(p) THEN [box EXCEPT ![held[p].pend] = held[p].conn] ELSE box
    /\ reading' = reading \cup {held[p].conn}
    /\ held' = [held EXCEPT ![p] = Nil]
    /\ UNCHANGED <<single, sessVars, pend, backlog, bound, closed, served, tries, faults>>

\* The connection goes to the channel that was seen if that has room, and to
\* handleDataConn otherwise.
Hand(p) ==
    /\ held[p] # Nil
    /\ IF Offered(p)
       THEN box' = [box EXCEPT ![held[p].pend] = held[p].conn] /\ UNCHANGED reading
       ELSE reading' = reading \cup {held[p].conn} /\ UNCHANGED box
    /\ held' = [held EXCEPT ![p] = Nil]
    /\ UNCHANGED <<single, sessVars, pend, backlog, bound, closed, served, tries, faults>>

DropSilently(c) == UNCHANGED closed

\* A decoy's connection sends no Hello: the deadline passes and it is closed.
NoHello(c) == closed' = closed \cup {c}

HandleDataConn(c) ==
    /\ c \in reading
    /\ reading' = reading \ {c}
    /\ IF c[1] \in Tunnels THEN bound' = bound \cup {c[1]} /\ UNCHANGED closed
                           ELSE NoHello(c) /\ UNCHANGED bound
    /\ UNCHANGED <<single, sessVars, poolVars, served, tries, faults>>

\* A tunnel channel is dialed, and again when the server has closed it. The dial
\* after PASV in a tunnel path goes to the pool of its direction; with ranges a
\* goroutine of advertise accepts it.
TunnelDial(t) ==
    /\ t \notin bound /\ tries[t] < MaxTries
    /\ tries[t] > 0 => <<t, tries[t]>> \in closed
    /\ tries' = [tries EXCEPT ![t] = @ + 1]
    /\ IF single
       THEN /\ backlog' = [backlog EXCEPT ![PoolOf(t)] = Append(@, <<t, tries[t] + 1>>)]
            /\ UNCHANGED reading
       ELSE reading' = reading \cup {<<t, tries[t] + 1>>} /\ UNCHANGED backlog
    /\ UNCHANGED <<single, sessVars, pend, box, held, bound, closed, served, faults>>

------------------------------------------------------------------------------
\* decoyLoop, after it has logged in and sent the commands that change nothing:
\* the working directory is / and not one of the tunnel's paths.
Client(s) == \/ Pasv(s) \/ Dial(s) \/ Command(s)
             \/ ListReturns(s) \/ DownloadReturns(s)
Server(s) == \/ ArmDown(s) \/ WaitGets(s) \/ WaitTimesOut(s) \/ WaitClears(s)
             \/ Send(s) \/ ServeEnds(s)
Pool(p) == AcceptLoop(p) \/ Hand(p)

DecoyNext ==
    \/ \E s \in Sess : Client(s) \/ Server(s) \/ DialFails(s)
    \/ \E p \in Pools : Pool(p)
    \/ \E c \in Conns : HandleDataConn(c)
    \/ \E t \in Tunnels : TunnelDial(t)

DecoySpec == DecoyInit /\ [][DecoyNext]_decoyVars

\* Goroutines run, and deadlines and timers fire.
DecoyFairSpec ==
    /\ DecoySpec
    /\ \A s \in Sess : WF_decoyVars(Client(s)) /\ WF_decoyVars(Server(s))
    /\ \A p \in Pools : WF_decoyVars(Pool(p))
    /\ \A c \in Conns : WF_decoyVars(HandleDataConn(c))
    /\ \A t \in Tunnels : WF_decoyVars(TunnelDial(t))

------------------------------------------------------------------------------
(* Properties *)

\* A channel that a session can still take its connection from, or will close it in.
Owned(k) == k = Key(k[1]) /\ (k[1] \in cancel \/ srv[k[1]] \in {"arm", "wait", "clear"})

\* Connections put in a channel that nobody looks at any more: acceptLoop saw the
\* channel in decoyPend before its wait timed out or it was cancelled.
Abandoned == {box[k] : k \in {j \in Keys : ~Owned(j)}} \ {Nil}

\* A pool is armed only for a session that is waiting or has a cancel function to
\* disarm it: a session that ends, fails or times out leaves no channel in
\* decoyPend to swallow the next tunnel connection (clearDecoy, clearPasv).
ArmedHasOwner == \A p \in Pools : pend[p] # Nil => Owned(pend[p])

\* A connection is in one place: handed to a decoy it is not a tunnel channel
\* too, and nobody writes to one that another goroutine has (acceptLoop).
OneHolder ==
    LET Places(c) == Cardinality({p \in Pools : held[p] # Nil /\ held[p].conn = c})
                     + Cardinality({k \in Keys : box[k] = c}) + Cardinality({s \in Sess : dc[s] = c})
                     + Cardinality({c} \cap reading) + Cardinality({c} \cap closed)
    IN \A c \in Conns : Places(c) <= 1 /\ (c[1] \in bound /\ c = <<c[1], tries[c[1]]>> => Places(c) = 0)

\* A decoy session of the client ends, whichever connections its server and the
\* others' take for theirs, unless its wait timed out (List then waits for a
\* second reply that does not come) or its connection was abandoned.
DecoyEnds ==
    \A s \in Sess : <>(cli[s] = "done" \/ s \in late \/ Key(s) \in Abandoned)

\* A tunnel channel is bound in the end, although decoys take connections of
\* tunnels for theirs, unless it was abandoned in a channel.
TunnelBinds ==
    \A t \in Tunnels : <>(t \in bound \/ <<t, tries[t]>> \in Abandoned)
=============================================================================
