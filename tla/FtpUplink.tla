------------------------------ MODULE FtpUplink ------------------------------
(***************************************************************************)
(* The upload direction of one TCP flow of the FTP tunnel, end to end:     *)
(*   - the client's pipe (ftp/client/client.go, pipeExisting), which makes *)
(*     an Open, numbered data and a Close frame and hands each to a        *)
(*     goroutine of its own (sendNow) or to the batcher;                   *)
(*   - sendFrames, which writes a batch to the upload channel of the flow, *)
(*     and on an error starts reconnectUpload and tries once more;         *)
(*   - the server (ftp/server/server.go), which binds the channels of the  *)
(*     index, reads the one that is bound and applies frames as they come. *)
(* The flow uses one upload index. Channel 1 is the one it starts with.    *)
(* A frame is its number: 0 is Open, MaxData + 1 is Close.                 *)
(***************************************************************************)
EXTENDS Naturals, Sequences, FiniteSets

CONSTANTS MaxData,      \* bound on the data frames of the flow
          MaxChan,      \* bound on the channels dialed
          MaxBreak      \* bound on connections that fail

Data == 1..MaxData
OpenF == 0
CloseF == MaxData + 1
Frames == 0..(MaxData + 1)
Chans == 1..MaxChan
None == 0               \* no channel
NextExpected == 1       \* nextExpected of a new ReorderBuffer
RefusalSeq == 0         \* Seq of the Close frame that answers a failed dial

ASSUME UplinkAssumption == MaxData \in Nat /\ MaxChan \in Nat \ {0} /\ MaxBreak \in Nat

VARIABLES
    made,       \* data frames the pipe has made
    rpc,        \* the pipe's read goroutine: "read", "signal" (inside add), "done"
    q, sig, timer,      \* the batcher: queue, the one-place channel sig, timer set
    load,       \* the frames each sendFrames goroutine carries, by its first frame
    spc,        \* where that goroutine is
    pick,       \* the channel it took from uploads
    uploads,    \* the client's channel of the index
    reconns,    \* reconnectUpload goroutines that are dialing
    fresh,      \* channels they have dialed and not yet installed
    cli,        \* the client's end of each channel: "none", "open", "closed"
    srv,        \* the server's end: "none", "dialed", "bound", "closed"
    broken,     \* channels whose TCP connection has failed
    wire,       \* batches on the way on each channel
    inbox,      \* frames of the batch each reader is processing
    sup,        \* sess.ups of the index
    upstream,   \* the flow has an entry in tcpUps
    target,     \* data written to the target, oldest first
    processed,  \* frames the server has applied (history)
    refusal     \* the Close of a failed dial: "no", "sent", "dropped", "delivered"

pipeVars == <<made, rpc>>
batcherVars == <<q, sig, timer>>
senderVars == <<load, spc, pick>>
clientVars == <<uploads, reconns, fresh, cli>>
serverVars == <<srv, inbox, sup>>
netVars == <<broken, wire>>
flowVars == <<upstream, target, processed, refusal>>
vars == <<pipeVars, batcherVars, senderVars, clientVars, serverVars, netVars, flowVars>>

\* The pipe is registered, its Open is in the hands of a goroutine, and
\* channel 1 is up.
Init ==
    /\ made = 0 /\ rpc = "read"
    /\ q = <<>> /\ sig = FALSE /\ timer = FALSE
    /\ load = [s \in Frames |-> IF s = OpenF THEN <<OpenF>> ELSE <<>>]
    /\ spc = [s \in Frames |-> IF s = OpenF THEN "go" ELSE "none"]
    /\ pick = [s \in Frames |-> None]
    /\ uploads = 1 /\ reconns = 0 /\ fresh = {}
    /\ cli = [c \in Chans |-> IF c = 1 THEN "open" ELSE "none"]
    /\ srv = [c \in Chans |-> IF c = 1 THEN "bound" ELSE "none"]
    /\ broken = {} /\ wire = [c \in Chans |-> <<>>]
    /\ inbox = [c \in Chans |-> <<>>] /\ sup = 1
    /\ upstream = FALSE /\ target = <<>> /\ processed = {} /\ refusal = "no"
-----------------------------------------------------------------------------
(* pipeExisting and the batcher *)

\* go sendFrames(fs)
Spawn(fs) ==
    /\ load' = [load EXCEPT ![Head(fs)] = fs]
    /\ spc' = [spc EXCEPT ![Head(fs)] = "go"]
    /\ UNCHANGED pick

\* The first chunk goes out at once.
ReadFirst ==
    /\ rpc = "read" /\ made = 0 /\ made < MaxData
    /\ made' = 1
    /\ Spawn(<<1>>)
    /\ UNCHANGED <<rpc, batcherVars, clientVars, serverVars, netVars, flowVars>>

\* Later chunks go to the batcher: append under its lock ...
ReadNext ==
    /\ rpc = "read" /\ made > 0 /\ made < MaxData
    /\ made' = made + 1
    /\ q' = Append(q, made + 1)
    /\ rpc' = "signal"
    /\ UNCHANGED <<sig, timer, senderVars, clientVars, serverVars, netVars, flowVars>>

\* ... then signal the loop, unless a signal is there.
Signal ==
    /\ rpc = "signal"
    /\ sig' = TRUE
    /\ rpc' = "read"
    /\ UNCHANGED <<made, q, timer, senderVars, clientVars, serverVars, netVars, flowVars>>

\* The application is done: Close goes out at once, ahead of what is queued,
\* and the pipe returns.
ReadEOF ==
    /\ rpc = "read"
    /\ rpc' = "done"
    /\ Spawn(<<CloseF>>)
    /\ UNCHANGED <<made, batcherVars, clientVars, serverVars, netVars, flowVars>>

\* The batcher's loop takes the signal and sets its timer if none is set.
LoopSignal ==
    /\ sig
    /\ sig' = FALSE /\ timer' = TRUE
    /\ UNCHANGED <<q, pipeVars, senderVars, clientVars, serverVars, netVars, flowVars>>

\* Fault: flush sends one frame and leaves the rest.
LoopTimerOne ==
    /\ timer
    /\ timer' = FALSE
    /\ IF q = <<>> THEN UNCHANGED <<q, senderVars>> ELSE q' = Tail(q) /\ Spawn(<<Head(q)>>)
    /\ UNCHANGED <<sig, pipeVars, clientVars, serverVars, netVars, flowVars>>

\* The timer fires and flush sends what is queued.
LoopTimer ==
    /\ timer
    /\ timer' = FALSE
    /\ q' = <<>>
    /\ IF q = <<>> THEN UNCHANGED senderVars ELSE Spawn(q)
    /\ UNCHANGED <<sig, pipeVars, clientVars, serverVars, netVars, flowVars>>
-----------------------------------------------------------------------------
(* sendFrames *)

\* uploadChannel(connID), for the first attempt and for the second one.
PickChannel(s) ==
    /\ \/ spc[s] = "go" /\ spc' = [spc EXCEPT ![s] = "write"]
       \/ spc[s] = "retry" /\ spc' = [spc EXCEPT ![s] = "rewrite"]
    /\ pick' = [pick EXCEPT ![s] = uploads]
    /\ UNCHANGED <<load, pipeVars, batcherVars, clientVars, serverVars, netVars, flowVars>>

\* Both ends of a channel are there and the connection works.
Works(c) == cli[c] = "open" /\ srv[c] \in {"dialed", "bound"} /\ c \notin broken

\* Fault: the batch is tried again although the first write succeeded.
WriteOkRetried(s) ==
    /\ spc[s] \in {"write", "rewrite"}
    /\ Works(pick[s])
    /\ spc' = [spc EXCEPT ![s] = IF @ = "write" THEN "retry" ELSE "sent"]
    /\ wire' = [wire EXCEPT ![pick[s]] = Append(@, load[s])]
    /\ UNCHANGED <<load, pick, broken, pipeVars, batcherVars, clientVars, serverVars, flowVars>>

\* WriteFrames returns nil: the kernel has the batch. On a connection that is
\* dead, and not known to be, it is lost.
WriteOk(s) ==
    LET c == pick[s] IN
    /\ spc[s] \in {"write", "rewrite"}
    /\ cli[c] = "open"
    /\ spc' = [spc EXCEPT ![s] = "sent"]
    /\ wire' = IF Works(c) THEN [wire EXCEPT ![c] = Append(@, load[s])] ELSE wire
    /\ UNCHANGED <<load, pick, broken, pipeVars, batcherVars, clientVars, serverVars, flowVars>>

\* WriteFrames fails: no whole batch was written. The first time a reconnect
\* is started and the batch is tried again.
WriteError(s) ==
    /\ spc[s] \in {"write", "rewrite"}
    /\ ~Works(pick[s])
    /\ \/ /\ spc[s] = "write"
          /\ spc' = [spc EXCEPT ![s] = "retry"]
          /\ reconns' = reconns + 1
       \/ /\ spc[s] = "rewrite"
          /\ spc' = [spc EXCEPT ![s] = "dropped"]
          /\ UNCHANGED reconns
    /\ UNCHANGED <<load, pick, uploads, fresh, cli, pipeVars, batcherVars, serverVars,
                   netVars, flowVars>>
-----------------------------------------------------------------------------
(* reconnectUpload *)

\* dialTunnelChannel: the server will bind the channel in a goroutine.
Dial(c) ==
    /\ reconns > 0 /\ cli[c] = "none"
    /\ \A d \in Chans : d < c => cli[d] # "none"
    /\ reconns' = reconns - 1
    /\ fresh' = fresh \cup {c}
    /\ cli' = [cli EXCEPT ![c] = "open"]
    /\ srv' = [srv EXCEPT ![c] = "dialed"]
    /\ UNCHANGED <<uploads, inbox, sup, pipeVars, batcherVars, senderVars, netVars, flowVars>>

\* Fault: the current channel is closed and kept.
InstallForgets(c) ==
    /\ c \in fresh
    /\ fresh' = fresh \ {c}
    /\ cli' = [cli EXCEPT ![uploads] = "closed"]
    /\ UNCHANGED <<uploads, reconns, pipeVars, batcherVars, senderVars, serverVars, netVars,
                   flowVars>>

\* Under chanMu: close the current channel, whatever it is, and replace it.
Install(c) ==
    /\ c \in fresh
    /\ fresh' = fresh \ {c}
    /\ cli' = [cli EXCEPT ![uploads] = "closed"]
    /\ uploads' = c
    /\ UNCHANGED <<reconns, pipeVars, batcherVars, senderVars, serverVars, netVars, flowVars>>
-----------------------------------------------------------------------------
(* The network and the server *)

\* A connection fails; what is on the way is cut at some batch.
Break(c) ==
    /\ Works(c) /\ Cardinality(broken) < MaxBreak
    /\ broken' = broken \cup {c}
    /\ \E k \in 0..Len(wire[c]) : wire' = [wire EXCEPT ![c] = SubSeq(@, 1, k)]
    /\ UNCHANGED <<pipeVars, batcherVars, senderVars, clientVars, serverVars, flowVars>>

\* Fault: bind starts a reader that skips what the client has already written.
BindSkips(c) ==
    /\ srv[c] = "dialed"
    /\ srv' = [d \in Chans |-> IF d = c THEN "bound" ELSE IF d = sup THEN "closed" ELSE srv[d]]
    /\ wire' = [wire EXCEPT ![c] = <<>>]
    /\ sup' = c
    /\ UNCHANGED <<inbox, broken, pipeVars, batcherVars, senderVars, clientVars, flowVars>>

\* bind: the channel of the index is closed, with all it has not read.
Bind(c) ==
    /\ srv[c] = "dialed"
    /\ srv' = [d \in Chans |-> IF d = c THEN "bound" ELSE IF d = sup THEN "closed" ELSE srv[d]]
    /\ wire' = IF sup = None THEN wire ELSE [wire EXCEPT ![sup] = <<>>]
    /\ sup' = c
    /\ UNCHANGED <<inbox, broken, pipeVars, batcherVars, senderVars, clientVars, flowVars>>

\* ReadFrames of the reader of channel c.
ReadFrames(c) ==
    /\ srv[c] = "bound" /\ inbox[c] = <<>> /\ wire[c] # <<>>
    /\ inbox' = [inbox EXCEPT ![c] = Head(wire[c])]
    /\ wire' = [wire EXCEPT ![c] = Tail(@)]
    /\ UNCHANGED <<srv, sup, broken, pipeVars, batcherVars, senderVars, clientVars, flowVars>>

\* ReadFrames of the bound channel fails; the deferred function takes it out
\* of the table, which is then empty, and clears the flows. (The exit of a
\* reader that bind has replaced changes nothing; the race between the two
\* steps of the teardown is the subject of FtpSession.)
ReaderExits(c) ==
    /\ inbox[c] = <<>> /\ c = sup /\ wire[c] = <<>>
    /\ c \in broken \/ cli[c] = "closed"
    /\ srv' = [srv EXCEPT ![c] = "closed"]
    /\ sup' = None
    /\ upstream' = FALSE
    /\ UNCHANGED <<inbox, target, processed, refusal, pipeVars, batcherVars, senderVars,
                   clientVars, netVars>>

\* processFrame for Open: keep the upstream there is, dial one, or answer a
\* failed dial with a Close frame that has Seq 0.
ProcessOpen ==
    /\ UNCHANGED target
    /\ \/ upstream' = TRUE /\ UNCHANGED refusal
       \/ ~upstream /\ UNCHANGED upstream /\ refusal' = "sent"

\* ... for data: in the order they come, if the flow has an upstream.
ProcessData(f) ==
    /\ target' = IF upstream THEN Append(target, f) ELSE target
    /\ UNCHANGED <<upstream, refusal>>

ProcessClose ==
    /\ upstream' = FALSE
    /\ UNCHANGED <<target, refusal>>

ProcessFrame(c) ==
    /\ inbox[c] # <<>>
    /\ LET f == Head(inbox[c]) IN
         /\ \/ f = OpenF /\ ProcessOpen
            \/ f \in Data /\ ProcessData(f)
            \/ f = CloseF /\ ProcessClose
         /\ processed' = processed \cup {f}
    /\ inbox' = [inbox EXCEPT ![c] = Tail(@)]
    /\ UNCHANGED <<srv, sup, pipeVars, batcherVars, senderVars, clientVars, netVars>>

\* The refusal reaches the client: Push drops it, its Seq is less than the
\* nextExpected of a new buffer.
DispatchRefusal ==
    /\ refusal = "sent"
    /\ refusal' = IF RefusalSeq < NextExpected THEN "dropped" ELSE "delivered"
    /\ UNCHANGED <<upstream, target, processed, pipeVars, batcherVars, senderVars,
                   clientVars, serverVars, netVars>>
-----------------------------------------------------------------------------
Batcher == LoopSignal \/ LoopTimer
Sender(s) == PickChannel(s) \/ WriteOk(s) \/ WriteError(s)
Server(c) == Bind(c) \/ ReadFrames(c) \/ ReaderExits(c) \/ ProcessFrame(c)

Next ==
    \/ ReadFirst \/ ReadNext \/ Signal \/ ReadEOF
    \/ Batcher
    \/ \E s \in Frames : Sender(s)
    \/ \E c \in Chans : Dial(c) \/ Install(c) \/ Break(c) \/ Server(c)
    \/ DispatchRefusal

Spec == Init /\ [][Next]_vars
-----------------------------------------------------------------------------
(* Properties *)

\* The second attempt of sendFrames, over a channel that a third goroutine
\* may replace at any time, never writes data to the target twice.
AtMostOnce ==
    \A i, j \in 1..Len(target) : target[i] = target[j] => i = j

\* A frame in the batcher's queue is never forgotten: a signal is there, the
\* timer is set, or the goroutine that queued it has yet to signal. (add
\* drops a signal when one is there, and the loop clears it before flush.)
QueueIsWatched == q # <<>> => sig \/ timer \/ rpc = "signal"

\* The reconnectUpload goroutines started so far.
Reconnects == reconns + Cardinality({c \in Chans : cli[c] # "none"}) - 1

\* "Retry once after a short wait so the batch is not silently dropped": with
\* one reconnect, whenever the old channel, the new one and the server's bind
\* meet the batch, a batch whose write succeeded on a connection that has not
\* failed is on its way or applied.
OneReconnectKeepsBatches ==
    Reconnects <= 1 =>
        \A s \in Frames : spc[s] = "sent" /\ pick[s] \notin broken =>
            \/ \E i \in 1..Len(wire[pick[s]]) : wire[pick[s]][i] = load[s]
            \/ \A i \in 1..Len(load[s]) :
                  \/ load[s][i] \in processed
                  \/ \E j \in 1..Len(inbox[pick[s]]) : inbox[pick[s]][j] = load[s][i]

\* "one physical TCP per direction index": after one reconnect that is over on
\* both sides, the client has an open channel for the index and the server
\* uses the same one, unless its connection has failed.
OneReconnectAgrees ==
    /\ Reconnects <= 1
    /\ reconns = 0 /\ fresh = {} /\ \A c \in Chans : srv[c] # "dialed"
    => /\ cli[uploads] = "open"
       /\ sup = uploads \/ uploads \in broken
=============================================================================
