------------------------------ MODULE FtpConnect ------------------------------
(***************************************************************************)
(* How the FTP tunnel client brings its data channels up and keeps them up *)
(* (ftp/client/client.go, ftp/common/ftpclient.go), with the part of the   *)
(* server's session that its download channels meet (ftp/server/server.go).*)
(*   - Main is Run: connectWithRetry, then shutdown after ctx is cancelled.*)
(*   - Each downloadReadLoop is a process; openAllChannels starts one per  *)
(*     download channel, before it knows whether the later ones succeed.   *)
(*   - All of them dial with dialTunnelChannel, over one control           *)
(*     connection and under ftpMu.                                         *)
(* An identifier of Chans stands for one TCP connection, and is used again *)
(* when nothing refers to the connection any more.                         *)
(***************************************************************************)
EXTENDS Integers, Sequences, FiniteSets, FiniteSetsExt, SequencesExt

CONSTANTS NUp, NDown,   \* cfgUpChans and cfgDownChans
          RetryMin, RetryMax,   \* bounds of the backoff, in seconds
          MaxLoops,     \* bound on the read loops started
          MaxChan,      \* bound on the connections in existence at a time
          MaxFault      \* bound on dials, logins and connections that fail, and silences

ASSUME ConnectAssumption ==
    /\ NUp \in Nat \ {0} /\ NDown \in Nat \ {0} /\ MaxFault \in Nat
    /\ RetryMin \in Nat \ {0} /\ RetryMax \in Nat /\ RetryMin <= RetryMax
    /\ MaxLoops \in Nat /\ MaxChan \in Nat

Main == 0
Loops == 1..MaxLoops
Procs == 0..MaxLoops
Chans == 1..MaxChan
None == 0                       \* no channel
Nobody == -1                    \* ftpMu is free
Indices == 0..(NDown - 1)
Dirs == {"upload", "download"}

VARIABLES
    pc,         \* what each process does next
    index, ch,  \* the index of each read loop, and the channel it reads
    got,        \* channels this attempt of openAllChannels has dialed
    backoff,    \* of connectWithRetry
    ctx,        \* "live" or "done"
    mu,         \* the holder of ftpMu
    silent,     \* the server reads what it is sent and answers nothing any more
    ctrl,       \* ftpCtrl: "nil", "live", "broken" (not noticed yet), "dead"
    cwd,        \* the working directory of the control session, or "root"
    addr,       \* the pool whose address PASV gave to the holder of ftpMu
    uploads, downloads,     \* the client's tables
    up,         \* connections that neither end has closed and that work
    hello,      \* Hello messages the server has yet to read
    ups, downs, \* the server's tables for the session
    faults,     \* failures so far
    orphans     \* an attempt failed with read loops started (history)

loopVars == <<index, ch>>
mainVars == <<got, backoff, uploads, orphans>>
ctrlVars == <<mu, ctrl, cwd, addr>>
faultVars == <<faults, silent>>
serverVars == <<hello, ups, downs>>
vars == <<pc, loopVars, mainVars, ctx, ctrlVars, downloads, up, serverVars, faultVars>>

Init ==
    /\ pc = [p \in Procs |-> IF p = Main THEN "login" ELSE "none"]
    /\ index = [l \in Loops |-> 0] /\ ch = [l \in Loops |-> None]
    /\ got = <<>> /\ backoff = RetryMin /\ ctx = "live"
    /\ mu = Nobody /\ ctrl = "nil" /\ cwd = "root" /\ addr = "root"
    /\ uploads = <<>> /\ downloads = <<>>
    /\ up = {} /\ hello = {} /\ ups = <<>> /\ downs = <<>>
    /\ faults = 0 /\ silent = FALSE /\ orphans = FALSE

Fault == faults < MaxFault /\ faults' = faults + 1 /\ UNCHANGED silent

\* The places that wait for the server without a deadline: the replies of a login, to
\* CWD and to PASV, and the handshake of a data connection.
Awaits == {"banner", "redial", "cwd", "pasv", "dial"}

\* What a process dials: the channels of openAllChannels in order, or the loop's own.
Dir(p) == IF p = Main /\ Len(got) < NUp THEN "upload" ELSE "download"
Index(p) == IF p # Main THEN index[p]
            ELSE IF Len(got) < NUp THEN Len(got) ELSE Len(got) - NUp

\* Connections that something still refers to.
Used == up \cup Range(ups) \cup Range(downs) \cup Range(got) \cup Range(uploads)
          \cup Range(downloads) \cup Range(ch) \cup {h.ch : h \in hello}
Fresh == Min(Chans \ Used)

------------------------------------------------------------------------------
(* connectWithRetry *)

LockAnyway(p) == mu # p /\ mu' = p

Lock(p) == mu = Nobody /\ mu' = p


Unlock == mu' = Nobody /\ addr' = "root"

\* The pause after the next one.
Double == IF backoff < RetryMax THEN Min({2 * backoff, RetryMax}) ELSE backoff

Backoff == pc' = [pc EXCEPT ![Main] = "sleep"] /\ backoff' = Double

LoginLock ==
    /\ pc[Main] = "login" /\ ctx = "live" /\ Lock(Main)
    /\ Cardinality({l \in Loops : pc[l] = "none"}) >= NDown
    /\ ctrl' = "nil"
    /\ pc' = [pc EXCEPT ![Main] = "banner"]
    /\ UNCHANGED <<loopVars, mainVars, ctx, cwd, addr, downloads, up, serverVars, faultVars>>

LoginOk ==
    /\ pc[Main] = "banner" /\ ~silent
    /\ ctrl' = "live" /\ cwd' = "root" /\ Unlock
    /\ pc' = [pc EXCEPT ![Main] = "lock"]
    /\ UNCHANGED <<loopVars, mainVars, ctx, downloads, up, serverVars, faultVars>>

LoginFails ==
    /\ pc[Main] = "banner" /\ Fault
    /\ Unlock /\ Backoff
    /\ UNCHANGED <<loopVars, got, uploads, orphans, ctx, ctrl, cwd, downloads, up, serverVars>>

\* The timer of sleepBackoff.
Wakes ==
    /\ pc[Main] = "sleep" /\ ctx = "live"
    /\ pc' = [pc EXCEPT ![Main] = "login"]
    /\ UNCHANGED <<loopVars, mainVars, ctx, ctrlVars, downloads, up, serverVars, faultVars>>

\* ctx is done before an attempt or in the pause: nothing is closed.
Aborts ==
    /\ pc[Main] \in {"login", "sleep"} /\ ctx = "done"
    /\ pc' = [pc EXCEPT ![Main] = "ended"]
    /\ UNCHANGED <<loopVars, mainVars, ctx, ctrlVars, downloads, up, serverVars, faultVars>>

\* The attempt failed and its channels are closed; now the control connection goes.
DropCtrl ==
    /\ pc[Main] = "drop" /\ mu = Nobody
    /\ ctrl' = "nil" /\ Backoff
    /\ UNCHANGED <<loopVars, got, uploads, orphans, ctx, mu, cwd, addr, downloads,
                   up, serverVars, faultVars>>

------------------------------------------------------------------------------
(* dialTunnelChannel *)

\* The dial failed: main gives its attempt up, a loop pauses and tries again.
DialError(p) ==
    /\ Unlock
    /\ pc' = [pc EXCEPT ![p] = IF p = Main THEN "drop" ELSE "wait"]
    /\ IF p = Main
       THEN /\ up' = up \ Range(got) /\ got' = <<>>
            /\ orphans' = (orphans \/ Len(got) > NUp)
       ELSE UNCHANGED <<up, got, orphans>>
    /\ UNCHANGED <<loopVars, backoff, uploads, ctx, downloads, serverVars>>

\* ftpMu is taken; a control connection known to be dead is replaced.
DialLock(p) ==
    /\ pc[p] = "lock" /\ Lock(p)
    /\ pc' = [pc EXCEPT ![p] = IF ctrl \in {"nil", "dead"} THEN "redial" ELSE "cwd"]
    /\ UNCHANGED <<loopVars, mainVars, ctx, ctrl, cwd, addr, downloads, up, serverVars, faultVars>>

RedialOk(p) ==
    /\ pc[p] = "redial" /\ ~silent
    /\ ctrl' = "live" /\ cwd' = "root"
    /\ pc' = [pc EXCEPT ![p] = "cwd"]
    /\ UNCHANGED <<loopVars, mainVars, ctx, mu, addr, downloads, up, serverVars, faultVars>>

RedialFails(p) ==
    /\ pc[p] = "redial" /\ Fault
    /\ DialError(p)
    /\ UNCHANGED <<ctrl, cwd>>

DialCwd(p) ==
    /\ pc[p] = "cwd" /\ ctrl = "live" /\ ~silent
    /\ cwd' = Dir(p)
    /\ pc' = [pc EXCEPT ![p] = "pasv"]
    /\ UNCHANGED <<loopVars, mainVars, ctx, mu, ctrl, addr, downloads, up, serverVars, faultVars>>

\* The server advertises a port of the pool its CWD named.
DialPasv(p) ==
    /\ pc[p] = "pasv" /\ ctrl = "live" /\ ~silent
    /\ addr' = cwd
    /\ pc' = [pc EXCEPT ![p] = "dial"]
    /\ UNCHANGED <<loopVars, mainVars, ctx, mu, ctrl, cwd, downloads, up, serverVars, faultVars>>

\* CWD or PASV meets a connection that no longer works.
DialCtrlFails(p) ==
    /\ pc[p] \in {"cwd", "pasv"} /\ ctrl # "live"
    /\ ctrl' = "nil"
    /\ DialError(p)
    /\ UNCHANGED <<cwd, faultVars>>

DialFails(p) ==
    /\ pc[p] = "dial" /\ Fault
    /\ DialError(p)
    /\ UNCHANGED <<ctrl, cwd>>

\* What openAllChannels does with a channel: a download gets its read loop at once,
\* and the tables are published when the last channel is there.
Opened(c) ==
    /\ got' = Append(got, c)
    /\ pc' = [p \in Procs |->
               IF p = Main THEN IF Len(got) + 1 < NUp + NDown THEN "lock" ELSE "publish"
               ELSE IF Dir(Main) = "download" /\ p = Min({l \in Loops : pc[l] = "none"})
                    THEN "read" ELSE pc[p]]
    /\ index' = [l \in Loops |-> IF pc'[l] # pc[l] THEN Index(Main) ELSE index[l]]
    /\ ch' = [l \in Loops |-> IF pc'[l] # pc[l] THEN c ELSE ch[l]]
    /\ UNCHANGED downloads

\* A read loop has the channel it dialed again, and will put it into the table.
Redialed(l, c) ==
    /\ pc' = [pc EXCEPT ![l] = "install"]
    /\ ch' = [ch EXCEPT ![l] = c]
    /\ UNCHANGED <<index, got, downloads>>

\* The data connection is made, the Hello written and ftpMu released.
DialHello(p) ==
    /\ pc[p] = "dial" /\ ~silent
    /\ Chans \ Used # {}
    /\ up' = up \cup {Fresh}
    /\ hello' = hello \cup {[ch |-> Fresh, dir |-> Dir(p), index |-> Index(p), pool |-> addr]}
    /\ Unlock
    /\ IF p = Main THEN Opened(Fresh) ELSE Redialed(p, Fresh)
    /\ UNCHANGED <<backoff, uploads, orphans, ctx, ctrl, cwd, ups, downs, faultVars>>

Publish ==
    /\ pc[Main] = "publish"
    /\ uploads' = SubSeq(got, 1, NUp) /\ downloads' = SubSeq(got, NUp + 1, NUp + NDown)
    /\ got' = <<>>
    /\ pc' = [pc EXCEPT ![Main] = "up"]
    /\ UNCHANGED <<loopVars, backoff, orphans, ctx, ctrlVars, up, serverVars, faultVars>>

------------------------------------------------------------------------------
(* downloadReadLoop and the other goroutines of Run *)

InstallUnread(l) ==
    /\ pc[l] = "install"
    /\ pc' = [pc EXCEPT ![l] = "read"]
    /\ ch' = [ch EXCEPT ![l] = None]
    /\ downloads' = IF index[l] < Len(downloads)
                    THEN [downloads EXCEPT ![index[l] + 1] = ch[l]] ELSE downloads
    /\ UNCHANGED <<index, mainVars, ctx, ctrlVars, up, serverVars, faultVars>>

\* Under chanMu: the new channel takes its place in the table, if the table is there.
Install(l) ==
    /\ pc[l] = "install"
    /\ pc' = [pc EXCEPT ![l] = "read"]
    /\ downloads' = IF index[l] < Len(downloads)
                    THEN [downloads EXCEPT ![index[l] + 1] = ch[l]] ELSE downloads
    /\ UNCHANGED <<loopVars, mainVars, ctx, ctrlVars, up, serverVars, faultVars>>

ReadFails(l) ==
    /\ pc[l] = "read" /\ ch[l] \notin up
    /\ pc' = [pc EXCEPT ![l] = "wait"]
    /\ ch' = [ch EXCEPT ![l] = None]
    /\ UNCHANGED <<index, mainVars, ctx, ctrlVars, downloads, up, serverVars, faultVars>>

\* A second has passed, or ctx is done.
Retries(l) ==
    /\ pc[l] = "wait"
    /\ pc' = [pc EXCEPT ![l] = IF ctx = "live" THEN "lock" ELSE "gone"]
    /\ UNCHANGED <<loopVars, mainVars, ctx, ctrlVars, downloads, up, serverVars, faultVars>>

\* Frames came, and the loop finds ctx done before it reads again.
ReadStops(l) ==
    /\ pc[l] = "read" /\ ch[l] \in up /\ ctx = "done"
    /\ pc' = [pc EXCEPT ![l] = "gone"]
    /\ ch' = [ch EXCEPT ![l] = None]
    /\ UNCHANGED <<index, mainVars, ctx, ctrlVars, downloads, up, serverVars, faultVars>>

\* NOOP on a connection that no longer works.
ControlKeepalive ==
    /\ pc[Main] = "up" /\ mu = Nobody /\ ctrl = "broken"
    /\ ctrl' = "nil"
    /\ UNCHANGED <<pc, loopVars, mainVars, ctx, mu, cwd, addr, downloads, up, serverVars, faultVars>>

Cancel ==
    /\ ctx = "live"
    /\ ctx' = "done"
    /\ UNCHANGED <<pc, loopVars, mainVars, ctrlVars, downloads, up, serverVars, faultVars>>

\* Run closes what the two tables hold, then the control connection.
CloseTables ==
    /\ pc[Main] = "up" /\ ctx = "done"
    /\ up' = up \ (Range(uploads) \cup Range(downloads))
    /\ pc' = [pc EXCEPT ![Main] = "closing"]
    /\ UNCHANGED <<loopVars, mainVars, ctx, ctrlVars, downloads, serverVars, faultVars>>

CloseCtrl ==
    /\ pc[Main] = "closing" /\ mu = Nobody
    /\ ctrl' = IF ctrl = "nil" THEN "nil" ELSE "dead"
    /\ pc' = [pc EXCEPT ![Main] = "ended"]
    /\ UNCHANGED <<loopVars, mainVars, ctx, mu, cwd, addr, downloads, up, serverVars, faultVars>>

------------------------------------------------------------------------------
(* The server and the network *)

NoneReplaced(table, h) == {}

\* The channel that bind finds in the place of a new one, and closes.
Replaced(table, h) == IF h.index \in DOMAIN table THEN {table[h.index]} ELSE {}

Entered(table, h) == [i \in DOMAIN table \cup {h.index} |->
                        IF i = h.index THEN h.ch ELSE table[i]]

\* handleDataConn and bind: a Hello names the direction and the index, and the
\* channel takes the place of the one that is there.
Bind(h) ==
    /\ hello' = hello \ {h}
    /\ IF h.dir = "upload"
       THEN ups' = Entered(ups, h) /\ up' = up \ Replaced(ups, h) /\ UNCHANGED downs
       ELSE downs' = Entered(downs, h) /\ up' = up \ Replaced(downs, h) /\ UNCHANGED ups
    /\ UNCHANGED <<pc, loopVars, mainVars, ctx, ctrlVars, downloads, faultVars>>

\* The connection was gone before the Hello could be read.
HelloLost(h) ==
    /\ h.ch \notin up
    /\ hello' = hello \ {h}
    /\ UNCHANGED <<pc, loopVars, mainVars, ctx, ctrlVars, downloads, up, ups, downs, faultVars>>

\* The reader of an upload channel ends and takes its entry away; nothing takes a
\* download channel away.
ReaderExits(i) ==
    /\ ups[i] \notin up
    /\ ups' = Restrict(ups, DOMAIN ups \ {i})
    /\ UNCHANGED <<pc, loopVars, mainVars, ctx, ctrlVars, downloads, up, hello, downs, faultVars>>

CtrlBreaks ==
    /\ ctrl = "live" /\ Fault
    /\ ctrl' = "broken"
    /\ UNCHANGED <<pc, loopVars, mainVars, ctx, mu, cwd, addr, downloads, up, serverVars>>

DownloadBreaks(l) ==
    /\ pc[l] = "read" /\ ch[l] \in up /\ Fault
    /\ up' = up \ {ch[l]}
    /\ UNCHANGED <<pc, loopVars, mainVars, ctx, ctrlVars, downloads, serverVars>>

FallsSilent ==
    /\ ~silent /\ faults < MaxFault
    /\ faults' = faults + 1 /\ silent' = TRUE
    /\ UNCHANGED <<pc, loopVars, mainVars, ctx, ctrlVars, downloads, up, serverVars>>

\* downloadFor: connID modulo the number of entries, or any entry when that index
\* has none (the first of a map in Go's order).
DownloadFor(connID) ==
    LET want == connID % Cardinality(DOMAIN downs) IN
    IF downs = <<>> THEN {}
    ELSE IF want \in DOMAIN downs THEN {downs[want]} ELSE Range(downs)

\* A frame that writeDown sends for the flow gets to a read loop of the client.
WriteDownReaches(connID) ==
    /\ DownloadFor(connID) # {}
    /\ \A c \in DownloadFor(connID) : c \in up /\ \E l \in Loops : pc[l] = "read" /\ ch[l] = c

------------------------------------------------------------------------------
Dial(p) == \/ DialLock(p) \/ RedialOk(p) \/ DialCwd(p) \/ DialPasv(p) \/ DialHello(p)
           \/ DialCtrlFails(p)
MainStep == \/ LoginLock \/ LoginOk \/ Wakes \/ Aborts \/ DropCtrl \/ Publish
            \/ CloseTables \/ CloseCtrl \/ Dial(Main)
LoopStep(l) == Install(l) \/ ReadFails(l) \/ Retries(l) \/ Dial(l)
ServerStep == \/ \E h \in hello : Bind(h) \/ HelloLost(h)
              \/ \E i \in DOMAIN ups : ReaderExits(i)
Faults == \/ LoginFails \/ CtrlBreaks \/ FallsSilent
          \/ \E p \in Procs : RedialFails(p) \/ DialFails(p)
          \/ \E l \in Loops : DownloadBreaks(l)

Next == \/ MainStep \/ ServerStep \/ Faults \/ ControlKeepalive \/ Cancel
        \/ \E l \in Loops : LoopStep(l) \/ ReadStops(l)

Spec == Init /\ [][Next]_vars

\* Goroutines run and timers fire; a waiter of ftpMu gets it in the end, as the
\* mutex of Go is fair to a goroutine that has waited a millisecond.
FairSpec == /\ Spec
            /\ SF_vars(MainStep)
            /\ \A l \in Loops : SF_vars(LoopStep(l))
            /\ WF_vars(ServerStep)

------------------------------------------------------------------------------
(* Properties *)

\* CWD and PASV are two commands on one control connection that every dialer and the
\* keepalive share: each dialer gets the address of the pool it asked for, so
\* no upload channel is dialed to the download port or the other way round
\* (dialTunnelChannel holds ftpMu over both).
DialsItsOwnPool == \A h \in hello : h.pool = h.dir

\* Once openAllChannels has published its tables, every download index has a read
\* loop until ctx is cancelled, and an open channel of the table has a loop
\* that reads it, whatever failed and was dialed again in between.
PublishedIsRead ==
    pc[Main] = "up" /\ ctx = "live" =>
        \A i \in Indices :
            /\ \E l \in Loops : index[l] = i /\ pc[l] \notin {"none", "gone"}
            /\ downloads[i + 1] \in up =>
                 \E l \in Loops : pc[l] = "read" /\ ch[l] = downloads[i + 1]

\* The holder of ftpMu waits for an answer that will not come.
Hangs == silent /\ mu # Nobody /\ pc[mu] \in Awaits

\* After finitely many failures, and as long as no attempt of openAllChannels failed
\* with loops already started, the client and the server agree again: a
\* frame of any flow reaches a read loop, from some time on and for good. A
\* download channel that died in downs is replaced, and so is one that a late
\* Hello of a dead connection pushed out. A server that stops answering dialers is
\* the exception: none of the waits of a dialer has a deadline.
DownloadsSettle ==
    <>[](ctx = "done" \/ orphans \/ Hangs \/ \A f \in 0..NDown : WriteDownReaches(f))

=============================================================================
