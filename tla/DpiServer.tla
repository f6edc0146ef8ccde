------------------------------ MODULE DpiServer ------------------------------
(***************************************************************************)
(* The server of the DPI tunnel in stream mode (dpi/server/handler.go,     *)
(* dpi/server/server.go): the sessions with their shared downlink, the     *)
(* table of connections that all clients share, and reverse mode.          *)
(*   - A session id has one upload POST, whose handler dispatches the      *)
(*     frames one after the other, and one download GET, whose handler     *)
(*     attaches its response to the session object and waits for its end.  *)
(*   - Every connection has a goroutine that reads the target and writes   *)
(*     frames to the session object (writeFrame).                          *)
(* A connection is <<session id, connID>>, or <<Reverse, connID>>: each    *)
(* client and the reverse mode of the server number theirs from 1.         *)
(***************************************************************************)
EXTENDS Naturals, FiniteSets

CONSTANTS Sids,         \* session ids, one per stream session of a client
          MaxId,        \* bound on the connections of each client
          MaxBind,      \* bound on reverse binds
          MaxWork,      \* bound on connections and reverse binds together
          Addrs,        \* addresses that clients ask for in reverse binds
          Reverse, None

Ids == 1..MaxId
Conns == (Sids \cup {Reverse}) \X Ids

ASSUME ServerAssumption ==
    /\ IsFiniteSet(Sids) /\ MaxId \in Nat /\ MaxBind \in Nat /\ MaxWork \in Nat
    /\ Addrs # {}
    /\ Reverse \notin Sids /\ None \notin Conns

Objs == 0..2 * Cardinality(Sids)        \* session objects, 0 for none
Binds == 0..MaxBind                     \* calls of runReverse, 0 for none

VARIABLES
    sessions,   \* the object of each session id
    made,       \* session objects made so far
    ready, shut,    \* objects whose ready is closed, and with closed set
    mu,         \* the connection that holds each object's mutex
    post, get,  \* the two handlers of each session id
    getObj,     \* the object the download handler got
    pc,         \* the goroutine of each connection, or the dispatch that opens it
    obj,        \* its session object
    remote,     \* connections whose target is open
    clients,    \* the table by connID
    closing,    \* the number each upload handler is about to take out of it, 0 for none
    rpc, listen,    \* each call of runReverse, and the address it was asked for
    revLn, bound    \* the listener the handler knows, and the one each address has

sessVars == <<sessions, made, ready, shut, mu>>
httpVars == <<post, get, getObj>>
connVars == <<pc, obj, remote, clients, closing>>
revVars == <<rpc, listen, revLn, bound>>
vars == <<sessVars, httpVars, connVars, revVars>>

Init ==
    /\ sessions = [s \in Sids |-> 0] /\ made = 0
    /\ ready = {} /\ shut = {} /\ mu = [o \in Objs |-> None]
    /\ post = [s \in Sids |-> "none"] /\ get = [s \in Sids |-> "none"]
    /\ getObj = [s \in Sids |-> 0]
    /\ pc = [c \in Conns |-> "none"] /\ obj = [c \in Conns |-> 0]
    /\ remote = {} /\ clients = [i \in Ids |-> None]
    /\ closing = [s \in Sids |-> 0]
    /\ rpc = [b \in Binds |-> "none"] /\ listen = [b \in Binds |-> CHOOSE a \in Addrs : TRUE]
    /\ revLn = 0 /\ bound = [a \in Addrs |-> 0]

Asked == {b \in Binds : rpc[b] # "none"}
Room == Cardinality({c \in Conns : pc[c] # "none"}) + Cardinality(Asked) < MaxWork

\* getOrCreateSession, and the object it returns.
Object(s) == IF sessions[s] = 0 THEN made + 1 ELSE sessions[s]
GetOrCreate(s) ==
    /\ sessions' = [sessions EXCEPT ![s] = Object(s)]
    /\ made' = IF sessions[s] = 0 THEN made + 1 ELSE made

------------------------------------------------------------------------------
(* The two requests of a session *)

StreamUpload(s) ==
    /\ post[s] = "none"
    /\ post' = [post EXCEPT ![s] = "open"]
    /\ GetOrCreate(s)
    /\ UNCHANGED <<ready, shut, mu, get, getObj, connVars, revVars>>

\* The handler waits for a frame: it is not in the dial or the refusal of an earlier
\* Connect, nor in the middle of a Close.
Idle(s) == /\ post[s] = "open" /\ closing[s] = 0
           /\ \A i \in Ids : pc[<<s, i>>] \notin {"dial", "refuse", "refusing"}

\* The body ends. The handler notices when it reads the next frame.
UploadEnds(s) ==
    /\ Idle(s)
    /\ post' = [post EXCEPT ![s] = "ended"]
    /\ UNCHANGED <<sessVars, get, getObj, connVars, revVars>>

SessionDownload(s) ==
    /\ get[s] = "none"
    /\ get' = [get EXCEPT ![s] = "attach"]
    /\ getObj' = [getObj EXCEPT ![s] = Object(s)]
    /\ GetOrCreate(s)
    /\ UNCHANGED <<ready, shut, mu, post, connVars, revVars>>

Attach(s) ==
    /\ get[s] = "attach" /\ mu[getObj[s]] = None
    /\ ready' = ready \cup {getObj[s]}
    /\ get' = [get EXCEPT ![s] = "open"]
    /\ UNCHANGED <<sessions, made, shut, mu, post, getObj, connVars, revVars>>

DownloadEnds(s) ==
    /\ get[s] = "open"
    /\ get' = [get EXCEPT ![s] = "close"]
    /\ UNCHANGED <<sessVars, post, getObj, connVars, revVars>>

CloseUnlocked(s) ==
    /\ get[s] = "close"
    /\ shut' = shut \cup {getObj[s]}
    /\ get' = [get EXCEPT ![s] = "remove"]
    /\ UNCHANGED <<sessions, made, ready, mu, post, getObj, connVars, revVars>>

\* close waits for a frame that is being written.
Close(s) ==
    /\ get[s] = "close" /\ mu[getObj[s]] = None
    /\ shut' = shut \cup {getObj[s]}
    /\ get' = [get EXCEPT ![s] = "remove"]
    /\ UNCHANGED <<sessions, made, ready, mu, post, getObj, connVars, revVars>>

\* removeSession, by id; the handler returns and its response is no longer valid.
Remove(s) ==
    /\ get[s] = "remove"
    /\ sessions' = [sessions EXCEPT ![s] = 0]
    /\ get' = [get EXCEPT ![s] = "ended"]
    /\ UNCHANGED <<made, ready, shut, mu, post, getObj, connVars, revVars>>

------------------------------------------------------------------------------
(* The frames of an upload, dispatched by its handler *)

Connect(s, i) ==
    /\ Room /\ Idle(s) /\ pc[<<s, i>>] = "none" /\ \A j \in 1..(i - 1) : pc[<<s, j>>] # "none"
    /\ pc' = [pc EXCEPT ![<<s, i>>] = "dial"]
    /\ UNCHANGED <<sessVars, httpVars, obj, remote, clients, closing, revVars>>

\* The target is dialed: the connection is registered and its goroutine starts.
Dialed(s, i) ==
    /\ pc[<<s, i>>] = "dial"
    /\ GetOrCreate(s)
    /\ obj' = [obj EXCEPT ![<<s, i>>] = Object(s)]
    /\ remote' = remote \cup {<<s, i>>}
    /\ clients' = [clients EXCEPT ![i] = <<s, i>>]
    /\ pc' = [pc EXCEPT ![<<s, i>>] = "read"]
    /\ UNCHANGED <<ready, shut, mu, httpVars, closing, revVars>>

\* The dial fails: the handler itself writes a Close frame.
DialFails(s, i) ==
    /\ pc[<<s, i>>] = "dial"
    /\ GetOrCreate(s)
    /\ obj' = [obj EXCEPT ![<<s, i>>] = Object(s)]
    /\ pc' = [pc EXCEPT ![<<s, i>>] = "refuse"]
    /\ UNCHANGED <<ready, shut, mu, httpVars, remote, clients, closing, revVars>>

\* Close, or Data that cannot be written, of a connection the client has opened or
\* the server has offered: what the table has under its number is closed.
CloseEntry(s, i) ==
    /\ Idle(s) /\ \E o \in {s, Reverse} : pc[<<o, i>>] # "none"
    /\ clients[i] # None
    /\ remote' = remote \ {clients[i]}
    /\ closing' = [closing EXCEPT ![s] = i]
    /\ UNCHANGED <<sessVars, httpVars, pc, obj, clients, revVars>>

\* unregisterClient, later: what the table has under the number now goes.
Unregister(s) ==
    /\ closing[s] # 0
    /\ clients' = [clients EXCEPT ![closing[s]] = None]
    /\ closing' = [closing EXCEPT ![s] = 0]
    /\ UNCHANGED <<sessVars, httpVars, pc, obj, remote, revVars>>

------------------------------------------------------------------------------
(* The goroutine of a connection *)

\* The target has sent something.
Reads(c) ==
    /\ pc[c] = "read" /\ c \in remote
    /\ pc' = [pc EXCEPT ![c] = "frame"]
    /\ UNCHANGED <<sessVars, httpVars, obj, remote, clients, closing, revVars>>

\* It has ended its connection, or the server has closed it.
ReadEnds(c) ==
    /\ pc[c] = "read"
    /\ pc' = [pc EXCEPT ![c] = "last"]
    /\ UNCHANGED <<sessVars, httpVars, obj, remote, clients, closing, revVars>>

\* The frames a goroutine writes, and where it is while it writes one, has written
\* it or could not. A reverse connection does not try a Close after a failure.
Frames == {"open", "frame", "last", "refuse"}
During == [open |-> "opening", frame |-> "writing", last |-> "ending", refuse |-> "refusing"]
After == [opening |-> "read", writing |-> "read", ending |-> "exit", refusing |-> "gone"]
Failed(c) == IF pc[c] = "frame" THEN IF c[1] = Reverse THEN "exit" ELSE "last"
             ELSE After[During[pc[c]]]

\* writeFrame: it waits for ready, locks, and writes unless the session is closed.
WriteFrame(c) ==
    /\ pc[c] \in Frames
    /\ obj[c] \in ready /\ mu[obj[c]] = None
    /\ IF obj[c] \in shut
       THEN pc' = [pc EXCEPT ![c] = Failed(c)] /\ UNCHANGED mu
       ELSE pc' = [pc EXCEPT ![c] = During[@]] /\ mu' = [mu EXCEPT ![obj[c]] = c]
    /\ UNCHANGED <<sessions, made, ready, shut, httpVars, obj, remote, clients, closing, revVars>>

Written(c) ==
    /\ pc[c] \in DOMAIN After
    /\ mu' = [mu EXCEPT ![obj[c]] = None]
    /\ pc' = [pc EXCEPT ![c] = After[@]]
    /\ UNCHANGED <<sessions, made, ready, shut, httpVars, obj, remote, clients, closing, revVars>>

ForgetNothing(c) == clients

\* unregisterClient removes what the table has under the number.
Forget(c) == [clients EXCEPT ![c[2]] = None]

Exit(c) ==
    /\ pc[c] = "exit"
    /\ pc' = [pc EXCEPT ![c] = "gone"]
    /\ remote' = remote \ {c}
    /\ clients' = Forget(c)
    /\ UNCHANGED <<sessVars, httpVars, obj, closing, revVars>>

------------------------------------------------------------------------------
(* Reverse mode *)

\* A ReverseBind frame, from reverseMaintain of a client; it names an address.
RevStart(b) ==
    /\ Room /\ \E s \in Sids : Idle(s)
    /\ b > 0 /\ rpc[b] = "none" /\ \A d \in 1..(b - 1) : rpc[d] # "none"
    /\ \E a \in Addrs : listen' = [listen EXCEPT ![b] = a]
    /\ rpc' = [rpc EXCEPT ![b] = "close"]
    /\ UNCHANGED <<sessVars, httpVars, connVars, revLn, bound>>

RevForgets(b) ==
    /\ rpc[b] = "close"
    /\ revLn' = 0
    /\ rpc' = [rpc EXCEPT ![b] = "listen"]
    /\ UNCHANGED <<sessVars, httpVars, connVars, listen, bound>>

\* Under revMu: the listener that is there is closed.
RevClose(b) ==
    /\ rpc[b] = "close"
    /\ bound' = [a \in Addrs |-> IF revLn # 0 /\ bound[a] = revLn THEN 0 ELSE bound[a]]
    /\ revLn' = 0
    /\ rpc' = [rpc EXCEPT ![b] = "listen"]
    /\ UNCHANGED <<sessVars, httpVars, connVars, listen>>

\* Outside it: another call may have the address.
RevListen(b) ==
    /\ rpc[b] = "listen"
    /\ IF bound[listen[b]] = 0
       THEN /\ bound' = [bound EXCEPT ![listen[b]] = b]
            /\ rpc' = [rpc EXCEPT ![b] = "install"]
       ELSE rpc' = [rpc EXCEPT ![b] = "taken"] /\ UNCHANGED bound
    /\ UNCHANGED <<sessVars, httpVars, connVars, listen, revLn>>

\* Listen fails for another reason; the old listener is closed already.
RevListenFails(b) ==
    /\ rpc[b] = "listen"
    /\ rpc' = [rpc EXCEPT ![b] = "error"]
    /\ UNCHANGED <<sessVars, httpVars, connVars, listen, revLn, bound>>

RevInstall(b) ==
    /\ rpc[b] = "install"
    /\ revLn' = b
    /\ rpc' = [rpc EXCEPT ![b] = "accept"]
    /\ UNCHANGED <<sessVars, httpVars, connVars, listen, bound>>

\* attachReverseTCP: some session of the table carries the connection; its goroutine
\* begins with the ReverseOpen frame.
RevAttach(i) ==
    /\ Room /\ \E a \in Addrs : bound[a] # 0 /\ rpc[bound[a]] = "accept"
    /\ pc[<<Reverse, i>>] = "none" /\ \A j \in 1..(i - 1) : pc[<<Reverse, j>>] # "none"
    /\ \E s \in Sids : sessions[s] # 0 /\ obj' = [obj EXCEPT ![<<Reverse, i>>] = sessions[s]]
    /\ pc' = [pc EXCEPT ![<<Reverse, i>>] = "open"]
    /\ remote' = remote \cup {<<Reverse, i>>}
    /\ clients' = [clients EXCEPT ![i] = <<Reverse, i>>]
    /\ UNCHANGED <<sessVars, httpVars, closing, revVars>>

------------------------------------------------------------------------------
Handlers == \E s \in Sids :
    \/ StreamUpload(s) \/ SessionDownload(s) \/ DownloadEnds(s)
    \/ \E i \in Ids : Connect(s, i) \/ CloseEntry(s, i)
Ends(s) == UploadEnds(s) \/ Unregister(s) \/ Attach(s) \/ Close(s) \/ Remove(s)
Dials(s, i) == Dialed(s, i) \/ DialFails(s, i)
Pump(c) == \/ c \notin remote /\ ReadEnds(c)
           \/ WriteFrame(c) \/ Written(c) \/ Exit(c)
RevBind(b) == RevClose(b) \/ RevListen(b) \/ RevInstall(b)

Next == \/ Handlers
        \/ \E s \in Sids : Ends(s) \/ \E i \in Ids : Dials(s, i)
        \/ \E c \in Conns : Pump(c) \/ Reads(c) \/ ReadEnds(c)
        \/ \E b \in Binds : RevStart(b) \/ RevBind(b) \/ RevListenFails(b)
        \/ \E i \in Ids : RevAttach(i)

Spec == Init /\ [][Next]_vars

\* Goroutines run, requests of a client that is gone end, and dials end with a
\* timeout at the latest. A target need neither send nor end: a read of it has no
\* deadline and returns for certain only when the server itself has closed it.
FairSpec == /\ Spec
            /\ \A s \in Sids : WF_vars(Ends(s)) /\ \A i \in Ids : WF_vars(Dials(s, i))
            /\ \A c \in Conns : SF_vars(Pump(c))
            /\ \A b \in Binds : WF_vars(RevBind(b))

------------------------------------------------------------------------------
(* Properties *)

\* A response is not used after its handler has returned: a frame is being written
\* to a session object only while the download handler that attached it is there.
NoWriteAfterReturn ==
    \A c \in Conns : pc[c] \in DOMAIN After =>
        /\ mu[obj[c]] = c
        /\ \E s \in Sids : getObj[s] = obj[c] /\ get[s] \in {"open", "close"}

\* Calls of runReverse that overlap and ask for one address, as those of one client
\* do, do not lose it: when none is under way the listener of the address is the one
\* the next call will close, and there is one, unless Listen has failed for a
\* reason other than the listener of another call. Calls with different addresses are
\* the exception: the listener of one may be overwritten in revLn by another's.
ReverseStaysBound ==
    \A b \in Asked :
        (\A d \in Asked : listen[d] = listen[b] /\ rpc[d] \notin {"close", "listen", "install"})
            => /\ bound[listen[b]] = revLn
               /\ revLn = 0 => \E d \in Asked : rpc[d] = "error"

\* A goroutine waits for the downlink of a session object that no request will
\* attach: the object was made after removeSession.
Stranded(c) == pc[c] \in Frames /\ obj[c] \notin ready
               /\ \A s \in Sids : getObj[s] = obj[c] => get[s] = "ended"

\* A goroutine reads a target that is open; nothing but the target ends this.
Reading(c) == pc[c] = "read" /\ c \in remote

\* From some time after the requests of all clients have ended, every goroutine has
\* ended and its target is closed, and the table is empty, but for the connections
\* that are stranded and those whose target neither sends nor ends, although
\* connections of different clients with the same number overwrite and remove the
\* entries of each other. The first frame of a target that sends ends its goroutine.
GoneIsCleared ==
    <>[]((\A s \in Sids : post[s] = "ended" /\ get[s] = "ended") =>
            /\ \A c \in Conns : \/ Stranded(c) \/ Reading(c)
                                \/ pc[c] \in {"none", "gone"} /\ c \notin remote
            /\ \A i \in Ids : clients[i] # None => Stranded(clients[i]) \/ Reading(clients[i]))
=============================================================================
