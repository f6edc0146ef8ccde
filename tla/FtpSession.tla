----------------------------- MODULE FtpSession -----------------------------
(***************************************************************************)
(* One session of the FTP tunnel server (ftp/server/server.go): the upload *)
(* channels of one client token, the goroutine that binds a new channel    *)
(* (handleDataConn), the goroutine that reads each channel                 *)
(* (readUploadLoop), and the tables of upstream TCP and UDP flows that the *)
(* frames open and close and that the last reader clears.                  *)
(*                                                                         *)
(* A channel is one TCP connection of the client, bound to an index. The   *)
(* client redials an index whenever it pleases, so several channels of one *)
(* index exist at once: a new one that binds, an old one that is closed    *)
(* under its reader's hands. sess.mu is a variable; Channel.Close is two   *)
(* steps (conn.Close, conn = nil) because ReadFrames reads conn without a  *)
(* lock. writeMu is held exactly while conn is "closed".                   *)
(***************************************************************************)
EXTENDS Naturals, FiniteSets

CONSTANTS Chans,        \* the channels the client dials, one after the other
          Indices,      \* upload channel indices of the session
          IndexOf,      \* the index the hello of each channel carries
          TcpFlows,     \* connection ids of TCP flows
          UdpFlows,     \* connection ids of UDP flows
          None

Flows == TcpFlows \cup UdpFlows

ASSUME SessionAssumption ==
    /\ IndexOf \in [Chans -> Indices]
    /\ None \notin Chans \cup Flows
    /\ TcpFlows \cap UdpFlows = {}

VARIABLES
    conn,       \* c.conn: "open", "closed" (closed, not yet nil), "nil"
    broken,     \* channels whose TCP connection has failed or timed out
    ups,        \* sess.ups
    mu,         \* the channel whose goroutine holds sess.mu, or None
    pc,         \* where handleDataConn, then readUploadLoop, of a channel is
    batch,      \* frames of the batch a reader has still to process
    unsent,     \* frames the client has not sent yet
    upstream,   \* tcpUps and udpUps: flows that have an upstream connection
    writing,    \* the flow whose upstream connection a reader writes to, or None
    crashed     \* a nil conn was dereferenced: the process is gone

vars == <<conn, broken, ups, mu, pc, batch, unsent, upstream, writing, crashed>>

\* The client sends one Open, some data and one Close for a flow, each from a
\* goroutine of its own, so they come in any order over any channel.
Frames == {"Open", "Data", "Close"} \X Flows

Init ==
    /\ conn = [c \in Chans |-> "nil"]
    /\ broken = {}
    /\ ups = [i \in Indices |-> None]
    /\ mu = None
    /\ pc = [c \in Chans |-> "undialed"]
    /\ batch = [c \in Chans |-> {}]
    /\ unsent = Frames
    /\ upstream = {}
    /\ writing = [c \in Chans |-> None]
    /\ crashed = FALSE

Goto(c, l) == pc' = [pc EXCEPT ![c] = l]
Step(c, from, to) == pc[c] = from /\ Goto(c, to)
-----------------------------------------------------------------------------
(* handleDataConn and bind *)

\* A connection with a good hello becomes a channel. (A bad one is closed and
\* touches nothing of the session.)
Accept(c) ==
    /\ Step(c, "undialed", "bind")
    /\ conn' = [conn EXCEPT ![c] = "open"]
    /\ UNCHANGED <<broken, ups, mu, batch, unsent, upstream, writing, crashed>>

\* The TCP connection fails, or the client closes it. (Once the server has
\* closed its side that makes no difference.)
Break(c) ==
    /\ conn[c] = "open" /\ c \notin broken
    /\ broken' = broken \cup {c}
    /\ UNCHANGED <<conn, ups, mu, pc, batch, unsent, upstream, writing, crashed>>

\* conn.Close() of the channel d, by a thread that waits for writeMu first.
\* A channel that is already closed is left alone.
CloseConn(d) ==
    \/ conn[d] = "open" /\ conn' = [conn EXCEPT ![d] = "closed"]
    \/ conn[d] = "nil" /\ UNCHANGED conn

\* The end of Channel.Close: conn = nil.
NilConn(d) == conn' = [conn EXCEPT ![d] = "nil"]

\* Fault: bind forgets the channel that the index has.
BindLeavesOld(c) ==
    /\ Step(c, "bind", "assign")
    /\ mu = None
    /\ mu' = c
    /\ UNCHANGED <<conn, broken, ups, batch, unsent, upstream, writing, crashed>>

\* bind takes sess.mu.
Bind(c) ==
    /\ Step(c, "bind", "closeOld")
    /\ mu = None
    /\ mu' = c
    /\ UNCHANGED <<conn, broken, ups, batch, unsent, upstream, writing, crashed>>

\* old.Close(), if the index has a channel.
CloseOld(c) ==
    LET old == ups[IndexOf[c]] IN
    /\ Step(c, "closeOld", "nilOld")
    /\ IF old = None THEN UNCHANGED conn ELSE CloseConn(old)
    /\ UNCHANGED <<broken, ups, mu, batch, unsent, upstream, writing, crashed>>

\* Fault: bind closes every channel of the table.
NilAll(c) ==
    /\ Step(c, "nilOld", "assign")
    /\ conn' = [d \in Chans |-> IF \E i \in Indices : ups[i] = d THEN "nil" ELSE conn[d]]
    /\ UNCHANGED <<broken, ups, mu, batch, unsent, upstream, writing, crashed>>

NilOld(c) ==
    LET old == ups[IndexOf[c]] IN
    /\ Step(c, "nilOld", "assign")
    /\ IF old = None THEN UNCHANGED conn ELSE NilConn(old)
    /\ UNCHANGED <<broken, ups, mu, batch, unsent, upstream, writing, crashed>>

\* s.ups[ch.Index()] = ch; unlock; go readUploadLoop.
Assign(c) ==
    /\ Step(c, "assign", "check")
    /\ ups' = [ups EXCEPT ![IndexOf[c]] = c]
    /\ mu' = None
    /\ UNCHANGED <<conn, broken, batch, unsent, upstream, writing, crashed>>
-----------------------------------------------------------------------------
(* ReadFrames *)

\* if c.conn == nil: return "channel closed".
Check(c) ==
    /\ pc[c] = "check"
    /\ Goto(c, IF conn[c] = "nil" THEN "close" ELSE "deref")
    /\ UNCHANGED <<conn, broken, ups, mu, batch, unsent, upstream, writing, crashed>>

\* A method of c.conn is called: SetReadDeadline before and after ReadBatch.
Deref(c, from, to) ==
    /\ pc[c] = from
    /\ \/ conn[c] # "nil" /\ Goto(c, to) /\ UNCHANGED crashed
       \/ conn[c] = "nil" /\ crashed' = TRUE /\ UNCHANGED pc
    /\ UNCHANGED <<conn, broken, ups, mu, batch, unsent, upstream, writing>>

DerefBefore(c) == Deref(c, "deref", "read")

\* ReadBatch returns a batch ...
ReadOk(c) ==
    /\ Step(c, "read", "derefOk")
    /\ conn[c] = "open" /\ c \notin broken
    /\ \E b \in SUBSET unsent :
          /\ b # {}
          /\ batch' = [batch EXCEPT ![c] = b]
          /\ unsent' = unsent \ b
    /\ UNCHANGED <<conn, broken, ups, mu, upstream, writing, crashed>>

\* ... or an error: the connection has failed or was closed by bind.
ReadError(c) ==
    /\ Step(c, "read", "derefErr")
    /\ conn[c] # "open" \/ c \in broken
    /\ UNCHANGED <<conn, broken, ups, mu, batch, unsent, upstream, writing, crashed>>

DerefAfter(c) == Deref(c, "derefOk", "process") \/ Deref(c, "derefErr", "close")
-----------------------------------------------------------------------------
(* processFrame, as far as the flow tables go *)

\* The upstream table after a frame: tcpDial and udpGetOrCreate keep a flow
\* that exists and may fail to make a new one; only UDP data makes one, TCP data
\* for a flow that has none is dropped; Close removes.
AfterFrame(f) ==
    LET kind == f[1]  flow == f[2]
        with == upstream \cup {flow}
        without == upstream \ {flow}
    IN  CASE kind = "Open" -> {with, upstream}
          [] kind = "Close" -> {without}
          [] kind = "Data" /\ flow \in UdpFlows -> {with, upstream}
          [] kind = "Data" /\ flow \in TcpFlows -> {upstream}

\* TCP data for a flow that has an upstream connection.
IsWrite(f) == f[1] = "Data" /\ f[2] \in TcpFlows \cap upstream

\* A frame that is processed without a write to a TCP target.
ProcessFrame(c) ==
    /\ pc[c] = "process"
    /\ \E f \in batch[c] :
          /\ ~IsWrite(f)
          /\ upstream' \in AfterFrame(f)
          /\ batch' = [batch EXCEPT ![c] = @ \ {f}]
    /\ UNCHANGED <<conn, broken, ups, mu, pc, unsent, writing, crashed>>

\* u.conn.Write begins: it has no deadline ...
WriteBegins(c) ==
    /\ Step(c, "process", "write")
    /\ \E f \in batch[c] :
          /\ IsWrite(f)
          /\ writing' = [writing EXCEPT ![c] = f[2]]
          /\ batch' = [batch EXCEPT ![c] = @ \ {f}]
    /\ UNCHANGED <<conn, broken, ups, mu, unsent, upstream, crashed>>

\* ... and returns when the target has taken the data, or with an error: then
\* the flow is removed.
WriteReturns(c) ==
    /\ Step(c, "write", "process")
    /\ upstream' \in {upstream, upstream \ {writing[c]}}
    /\ writing' = [writing EXCEPT ![c] = None]
    /\ UNCHANGED <<conn, broken, ups, mu, batch, unsent, crashed>>

\* A reader in a Write on a connection that is still open: it waits for the target.
InWrite(c) == pc[c] = "write" /\ writing[c] \in upstream

\* The batch is done: read the next one.
NextBatch(c) ==
    /\ Step(c, "process", "check")
    /\ batch[c] = {}
    /\ UNCHANGED <<conn, broken, ups, mu, batch, unsent, upstream, writing, crashed>>

\* pumpTCP or pumpUDP ends: the target closed, an error, the UDP timeout.
PumpEnds(f) ==
    /\ f \in upstream
    /\ upstream' = upstream \ {f}
    /\ UNCHANGED <<conn, broken, ups, mu, pc, batch, unsent, writing, crashed>>
-----------------------------------------------------------------------------
(* The deferred function of readUploadLoop *)

CloseSelf(c) ==
    /\ Step(c, "close", "nilSelf")
    /\ CloseConn(c)
    /\ UNCHANGED <<broken, ups, mu, batch, unsent, upstream, writing, crashed>>

NilSelf(c) ==
    /\ Step(c, "nilSelf", "unbind")
    /\ NilConn(c)
    /\ UNCHANGED <<broken, ups, mu, batch, unsent, upstream, writing, crashed>>

\* Fault: the reader removes whatever channel its index has.
UnboundAny(c) == [ups EXCEPT ![IndexOf[c]] = None]

\* The table after a reader's exit: it removes its own channel only.
Unbound(c) ==
    IF ups[IndexOf[c]] = c THEN [ups EXCEPT ![IndexOf[c]] = None] ELSE ups

\* Fault: empty is computed before the delete.
UnbindLate(c) ==
    /\ pc[c] = "unbind"
    /\ mu = None
    /\ ups' = Unbound(c)
    /\ Goto(c, IF \A i \in Indices : ups[i] = None THEN "tcpRemoveAll" ELSE "done")
    /\ UNCHANGED <<conn, broken, mu, batch, unsent, upstream, writing, crashed>>

\* lock; delete the channel if it is still the current one; empty; unlock.
Unbind(c) ==
    /\ pc[c] = "unbind"
    /\ mu = None
    /\ ups' = Unbound(c)
    /\ Goto(c, IF \A i \in Indices : Unbound(c)[i] = None THEN "tcpRemoveAll" ELSE "done")
    /\ UNCHANGED <<conn, broken, mu, batch, unsent, upstream, writing, crashed>>

\* tcpRemoveAll, then udpRemoveAll, each under the lock of its table.
TcpRemoveAll(c) ==
    /\ Step(c, "tcpRemoveAll", "udpRemoveAll")
    /\ upstream' = upstream \ TcpFlows
    /\ UNCHANGED <<conn, broken, ups, mu, batch, unsent, writing, crashed>>

UdpRemoveAll(c) ==
    /\ Step(c, "udpRemoveAll", "done")
    /\ upstream' = upstream \ UdpFlows
    /\ UNCHANGED <<conn, broken, ups, mu, batch, unsent, writing, crashed>>
-----------------------------------------------------------------------------
Binding(c) == Bind(c) \/ CloseOld(c) \/ NilOld(c) \/ Assign(c)

Reading(c) ==
    \/ Check(c) \/ DerefBefore(c) \/ ReadError(c) \/ DerefAfter(c)
    \/ ProcessFrame(c) \/ WriteBegins(c) \/ NextBatch(c)
    \/ ~InWrite(c) /\ WriteReturns(c)

Leaving(c) ==
    \/ CloseSelf(c) \/ NilSelf(c) \/ Unbind(c)
    \/ TcpRemoveAll(c) \/ UdpRemoveAll(c)

\* What the goroutine of a channel does on its own.
Goroutine(c) == Binding(c) \/ Reading(c) \/ Leaving(c)

Next ==
    /\ ~crashed
    /\ \/ \E c \in Chans : Accept(c) \/ Break(c) \/ ReadOk(c) \/ WriteReturns(c) \/ Goroutine(c)
       \/ \E f \in Flows : PumpEnds(f)

Spec == Init /\ [][Next]_vars

(***************************************************************************)
(* A goroutine that can run does run. The client need not dial or send,    *)
(* connections need not fail, a target need not take the data written to   *)
(* it: the Write returns for certain once the connection is closed. Weak   *)
(* fairness is enough for sess.mu: each goroutine takes it a bounded       *)
(* number of times.                                                        *)
(***************************************************************************)
Fairness == \A c \in Chans : WF_vars(~crashed /\ Goroutine(c))

FairSpec == Spec /\ Fairness
-----------------------------------------------------------------------------
(* Properties *)

\* Every variable holds a value of its type, and a reader holds frames only
\* between the read of a batch and the end of its loop over it.
TypeOK ==
    /\ conn \in [Chans -> {"open", "closed", "nil"}]
    /\ broken \subseteq Chans
    /\ ups \in [Indices -> Chans \cup {None}]
    /\ mu \in Chans \cup {None}
    /\ pc \in [Chans -> {"undialed", "bind", "closeOld", "nilOld", "assign",
                         "check", "deref", "read", "derefOk", "derefErr",
                         "process", "write", "close", "nilSelf", "unbind",
                         "tcpRemoveAll", "udpRemoveAll", "done"}]
    /\ batch \in [Chans -> SUBSET Frames]
    /\ \A c \in Chans : batch[c] # {} => pc[c] \in {"derefOk", "process", "write"}
    /\ unsent \subseteq Frames
    /\ upstream \subseteq Flows
    /\ writing \in [Chans -> TcpFlows \cup {None}]
    /\ \A c \in Chans : writing[c] # None <=> pc[c] = "write"
    /\ crashed \in BOOLEAN

\* A reader that may still process frames or has its cleanup before it.
BeforeUnbind == {"check", "deref", "read", "derefOk", "derefErr", "process",
                 "write", "close", "nilSelf", "unbind"}

\* A channel in sess.ups has a reader that will take it out: the table never
\* keeps a dead channel, which would keep the flows of a client that is gone.
BoundHasReader ==
    \A i \in Indices : ups[i] # None =>
        IndexOf[ups[i]] = i /\ pc[ups[i]] \in BeforeUnbind

\* "one physical TCP per direction index": a channel whose connection is open
\* and whose binding is over is the one sess.ups has for its index.
OneOpenPerIndex ==
    \A c \in Chans :
        conn[c] = "open" /\ pc[c] \notin {"undialed", "bind", "closeOld", "nilOld", "assign"}
            => ups[IndexOf[c]] = c

\* Flows do not outlive the session: while a flow has an upstream connection
\* some reader is there whose exit will look at the table again.
NoOrphanFlows ==
    /\ upstream \cap TcpFlows # {} =>
          \E c \in Chans : pc[c] \in BeforeUnbind \cup {"tcpRemoveAll"}
    /\ upstream \cap UdpFlows # {} =>
          \E c \in Chans : pc[c] \in BeforeUnbind \cup {"tcpRemoveAll", "udpRemoveAll"}

\* An entry leaves sess.ups only by the exit of its own reader, never by the
\* exit of the reader of a channel it has replaced.
OnlyItselfUnbinds ==
    [][\A i \in Indices :
          ups[i] # None /\ ups'[i] = None =>
              pc[ups[i]] = "unbind" /\ pc'[ups[i]] # "unbind"]_vars

\* When every connection of the client has failed its flows are torn down, all
\* of them, unless a reader waits in a Write to a target that takes no data and
\* whose flow nobody closes: the Write has no deadline, so this reader never
\* comes to see that its own connection is gone, and its channel stays bound.
GoneClientIsCleared ==
    (\A c \in Chans : c \in broken \/ conn[c] # "open") ~>
        \/ upstream = {} \/ crashed
        \/ \E c \in Chans : conn[c] = "open" /\ c \notin broken
        \/ \E c \in Chans : InWrite(c)

\* A reader that is about to call a method of a nil conn.
MeetsNil(c) == conn[c] = "nil" /\ pc[c] \in {"deref", "derefOk", "derefErr"}

\* The bind of another channel of the same index has closed c: it is about to
\* take c's place in sess.ups, or it has taken it.
Replaced(c) ==
    \E d \in Chans \ {c} :
        /\ IndexOf[d] = IndexOf[c]
        /\ IF ups[IndexOf[c]] = c
           THEN pc[d] = "assign"
           ELSE pc[d] \notin {"undialed", "bind", "closeOld", "nilOld", "assign"}

\* ReadFrames uses c.conn without the lock under which Close sets it to nil, and
\* the process dies when it meets the nil. A reader meets it only on a channel
\* that the bind of a redialed channel of the same index replaces: a channel
\* whose index is not dialed again is safe, whatever happens to the others.
NilNeedsRedial ==
    /\ \A c \in Chans : MeetsNil(c) => Replaced(c)
    /\ crashed => \E c \in Chans : MeetsNil(c)
=============================================================================
