-------------------------- MODULE DpiServerProofs --------------------------
(***************************************************************************)
(* Theorems about DpiServer for any set of clients, any number of their    *)
(* connections and any number of reverse binds. SessInv is about the       *)
(* session objects: how many there are, who holds the mutex of one, and    *)
(* which of them a response is attached to. RevInv is about the listener   *)
(* of reverse mode, which calls of runReverse close, open and install in   *)
(* three separate steps, each for the address it was asked for.            *)
(***************************************************************************)
EXTENDS DpiServer, FiniteSetTheorems, TLAPS

Writing == {"opening", "writing", "ending", "refusing"}

TypeOK ==
    /\ sessions \in [Sids -> Nat] /\ made \in Nat
    /\ ready \subseteq Nat /\ shut \subseteq Nat
    /\ mu \in [Objs -> Conns \cup {None}]
    /\ post \in [Sids -> {"none", "open", "ended"}]
    /\ get \in [Sids -> {"none", "attach", "open", "close", "remove", "ended"}]
    /\ getObj \in [Sids -> Nat]
    /\ pc \in [Conns -> Frames \cup Writing \cup {"none", "dial", "read", "exit", "gone"}]
    /\ obj \in [Conns -> Nat]
    /\ remote \subseteq Conns
    /\ clients \in [Ids -> Conns \cup {None}]
    /\ closing \in [Sids -> Ids \cup {0}]

WithObject == {s \in Sids : sessions[s] # 0}
Ended == {s \in Sids : get[s] = "ended"}

\* A session id has an object from its download's start to removeSession, and at
\* most one more after that: the late frames of its upload make it.
TwoObjects ==
    /\ made = Cardinality(WithObject) + Cardinality(Ended)
    /\ \A s \in Sids : get[s] \in {"attach", "open", "close", "remove"} => sessions[s] # 0
    /\ \A s \in Sids : sessions[s] <= made
    /\ \A c \in Conns : obj[c] <= made

\* A frame is written under the mutex of an object that has a response and is
\* not closed, and such an object has a download handler that has not returned.
Attached ==
    /\ \A c \in Conns : pc[c] \in Writing => mu[obj[c]] = c /\ obj[c] \in ready \ shut
    /\ \A o \in ready \ shut : \E s \in Sids : getObj[s] = o /\ get[s] \in {"open", "close"}

SessInv == TypeOK /\ TwoObjects /\ Attached

\* A listener belongs to a call that asked for its address; one that revLn does not
\* have is about to be installed or was overwritten by a call with another address;
\* and an address that was asked for is without one only while a call is on its way,
\* after an error, or when another address was asked for.
RevInv ==
    /\ rpc \in [Binds -> {"none", "close", "listen", "install", "taken", "error", "accept"}]
    /\ listen \in [Binds -> Addrs]
    /\ revLn \in Binds /\ bound \in [Addrs -> Binds]
    /\ rpc[0] = "none"
    /\ \A a \in Addrs : bound[a] # 0 =>
          listen[bound[a]] = a /\ rpc[bound[a]] \in {"install", "accept"}
    /\ \A b \in Binds : rpc[b] = "install" => bound[listen[b]] = b
    /\ revLn # 0 => rpc[revLn] = "accept" /\ bound[listen[revLn]] = revLn
    /\ \A a \in Addrs : bound[a] # 0 =>
          \/ rpc[bound[a]] = "install" \/ revLn = bound[a]
          \/ \E d \in Asked : listen[d] # a
    /\ \A b \in Asked : bound[listen[b]] = 0 =>
          \E d \in Asked : listen[d] # listen[b] \/ rpc[d] \in {"close", "listen", "error"}

------------------------------------------------------------------------------
(* Session objects *)

LEMMA Labels ==
    /\ DOMAIN After = Writing /\ DOMAIN During = Frames
    /\ \A f \in Frames : During[f] \in Writing
    /\ \A w \in Writing : After[w] \in {"read", "exit", "gone"}
BY DEF After, During, Frames, Writing

\* The objects fit in Objs.
LEMMA ObjsEnough ==
    ASSUME TypeOK, TwoObjects
    PROVE  made <= 2 * Cardinality(Sids) /\ \A c \in Conns : obj[c] \in Objs
<1>1. /\ Cardinality(WithObject) <= Cardinality(Sids)
      /\ Cardinality(Ended) <= Cardinality(Sids)
      /\ Cardinality(WithObject) \in Nat /\ Cardinality(Ended) \in Nat
      /\ Cardinality(Sids) \in Nat
  BY ServerAssumption, FS_Subset, FS_CardinalityType DEF WithObject, Ended
<1>2. made <= 2 * Cardinality(Sids)
  BY <1>1 DEF TwoObjects
<1> QED
  BY <1>1, <1>2 DEF TypeOK, TwoObjects, Objs

LEMMA SessInit ==
    ASSUME Init
    PROVE  SessInv
<1>1. TypeOK
  BY ServerAssumption DEF Init, TypeOK
<1>2. Cardinality(WithObject) = 0 /\ Cardinality(Ended) = 0
  <2>1. WithObject = {} /\ Ended = {}
    BY DEF Init, WithObject, Ended
  <2> QED
    BY <2>1, FS_EmptySet
<1>3. TwoObjects
  BY <1>2 DEF Init, TwoObjects
<1>4. Attached
  BY DEF Init, Attached, Writing
<1> QED
  BY <1>1, <1>3, <1>4 DEF SessInv

\* getOrCreateSession makes an object where there was none.
LEMMA GetOrCreateMakes ==
    ASSUME TypeOK, TwoObjects, NEW s \in Sids, GetOrCreate(s), Ended' = Ended
    PROVE  /\ sessions' \in [Sids -> Nat] /\ made' \in Nat /\ made' >= made
           /\ Object(s) \in Nat /\ Object(s) # 0 /\ Object(s) <= made' /\ sessions'[s] = Object(s)
           /\ \A t \in Sids : sessions'[t] <= made' /\ (sessions[t] # 0 => sessions'[t] # 0)
           /\ made' = Cardinality(WithObject)' + Cardinality(Ended)'
<1> USE DEF GetOrCreate, Object
<1>1. CASE sessions[s] # 0
  <2>1. sessions' = sessions /\ made' = made
    BY <1>1 DEF TypeOK
  <2>2. WithObject' = WithObject
    BY <2>1 DEF WithObject
  <2> QED
    BY <1>1, <2>1, <2>2 DEF TypeOK, TwoObjects
<1>2. CASE sessions[s] = 0
  <2>1. /\ sessions' \in [Sids -> Nat] /\ made' = made + 1
        /\ sessions'[s] = made + 1 /\ \A t \in Sids \ {s} : sessions'[t] = sessions[t]
    BY <1>2 DEF TypeOK
  <2>2. WithObject' = WithObject \cup {s} /\ s \notin WithObject
    BY <1>2, <2>1 DEF WithObject, TypeOK
  <2>3. IsFiniteSet(WithObject) /\ IsFiniteSet(Ended)
    BY ServerAssumption, FS_Subset DEF WithObject, Ended
  <2>4. Cardinality(WithObject)' = Cardinality(WithObject) + 1
    BY <2>2, <2>3, FS_AddElement
  <2>5. Cardinality(WithObject) \in Nat /\ Cardinality(Ended) \in Nat
    BY <2>3, FS_CardinalityType
  <2> QED
    BY <1>2, <2>1, <2>4, <2>5 DEF TypeOK, TwoObjects
<1> QED
  BY <1>1, <1>2

\* A step that makes no object and changes neither the table nor the downloads
\* that have ended.
LEMMA TwoObjectsKept ==
    ASSUME TwoObjects, UNCHANGED <<sessions, made, obj>>, Ended' = Ended,
           \A s \in Sids : get'[s] \in {"attach", "open", "close", "remove"}
                           => get[s] \in {"attach", "open", "close", "remove"}
    PROVE  TwoObjects'
BY DEF TwoObjects, WithObject

\* A step outside the mutexes and the downloads, after which no other goroutine
\* is writing.
LEMMA AttachedKept ==
    ASSUME Attached, UNCHANGED <<ready, shut, mu, get, getObj>>,
           \A c \in Conns : pc'[c] \in Writing => pc[c] \in Writing /\ obj'[c] = obj[c]
    PROVE  Attached'
BY DEF Attached

\* The handlers of the two requests.
LEMMA Sess_StreamUpload ==
    ASSUME SessInv, NEW s \in Sids, StreamUpload(s)
    PROVE  SessInv'
<1> USE DEF SessInv, StreamUpload, connVars
<1>1. Ended' = Ended
  BY DEF Ended
<1>2. TypeOK'
  BY <1>1, GetOrCreateMakes DEF TypeOK
<1>3. TwoObjects'
  BY <1>1, GetOrCreateMakes DEF TypeOK, TwoObjects
<1>4. Attached'
  BY DEF Attached
<1> QED
  BY <1>2, <1>3, <1>4

LEMMA Sess_SessionDownload ==
    ASSUME SessInv, NEW s \in Sids, SessionDownload(s)
    PROVE  SessInv'
<1> USE DEF SessInv, SessionDownload, connVars
<1>1. Ended' = Ended
  BY DEF Ended, TypeOK
<1>2. TypeOK'
  BY <1>1, GetOrCreateMakes DEF TypeOK
<1>3. TwoObjects'
  <2>1. \A t \in Sids : get'[t] \in {"attach", "open", "close", "remove"} => sessions'[t] # 0
    BY <1>1, GetOrCreateMakes DEF TypeOK, TwoObjects
  <2>2. \A c \in Conns : obj'[c] <= made'
    BY <1>1, GetOrCreateMakes DEF TypeOK, TwoObjects
  <2> QED
    BY <1>1, <2>1, <2>2, GetOrCreateMakes DEF TwoObjects
<1>4. Attached'
  BY DEF TypeOK, Attached
<1> QED
  BY <1>2, <1>3, <1>4

LEMMA Sess_Requests ==
    ASSUME SessInv, NEW s \in Sids, UploadEnds(s) \/ DownloadEnds(s) \/ Attach(s)
    PROVE  SessInv'
<1> USE DEF SessInv, sessVars, connVars
<1>1. CASE UploadEnds(s)
  BY <1>1, TwoObjectsKept, AttachedKept DEF UploadEnds, TypeOK, Ended
<1>2. CASE DownloadEnds(s)
  <2>1. Ended' = Ended /\ TypeOK'
    BY <1>2 DEF DownloadEnds, Ended, TypeOK
  <2>2. Attached'
    BY <1>2 DEF DownloadEnds, Attached, TypeOK
  <2> QED
    BY <1>2, <2>1, <2>2, TwoObjectsKept DEF DownloadEnds, TypeOK
<1>3. CASE Attach(s)
  <2>1. get'[s] = "open" /\ \A t \in Sids \ {s} : get'[t] = get[t]
    BY <1>3 DEF Attach, TypeOK
  <2>2. ready' \subseteq Nat
    <3>1. getObj[s] \in Nat /\ ready \subseteq Nat
      BY DEF TypeOK
    <3> QED
      BY <1>3, <3>1, Zenon DEF Attach
  <2>3. Ended' = Ended /\ TypeOK'
    BY <1>3, <2>2 DEF Attach, Ended, TypeOK
  <2>4. Attached'
    BY <1>3, <2>1 DEF Attach, Attached
  <2> QED
    BY <1>3, <2>1, <2>3, <2>4, TwoObjectsKept DEF Attach
<1> QED
  BY <1>1, <1>2, <1>3

\* close has the mutex, so nobody is writing to the object.
LEMMA Sess_Close ==
    ASSUME SessInv, NEW s \in Sids, Close(s)
    PROVE  SessInv'
<1> USE DEF SessInv, Close, connVars
<1>0. shut' \subseteq Nat
  <2>1. getObj[s] \in Nat /\ shut \subseteq Nat
    BY DEF TypeOK
  <2> QED
    BY <2>1, Zenon
<1>1. TypeOK'
  BY <1>0 DEF TypeOK
<1>2. Ended' = Ended
  BY DEF Ended, TypeOK
<1>3. TwoObjects'
  BY <1>2, TwoObjectsKept DEF TypeOK
<1>4. \A c \in Conns : pc[c] \in Writing => obj[c] # getObj[s]
  BY ServerAssumption DEF Attached
<1>5. Attached'
  BY <1>4 DEF TypeOK, Attached
<1> QED
  BY <1>1, <1>3, <1>5

LEMMA Sess_Remove ==
    ASSUME SessInv, NEW s \in Sids, Remove(s)
    PROVE  SessInv'
<1> USE DEF SessInv, Remove, connVars
<1>1. TypeOK'
  BY DEF TypeOK
<1>2. sessions[s] # 0 /\ sessions'[s] = 0 /\ \A t \in Sids \ {s} : sessions'[t] = sessions[t]
  BY DEF TypeOK, TwoObjects
<1>3. WithObject' = WithObject \ {s} /\ s \in WithObject
  BY <1>2 DEF WithObject
<1>4. Ended' = Ended \cup {s} /\ s \notin Ended
  BY DEF Ended, TypeOK
<1>5. IsFiniteSet(WithObject) /\ IsFiniteSet(Ended)
  BY ServerAssumption, FS_Subset DEF WithObject, Ended
<1>6. Cardinality(WithObject)' = Cardinality(WithObject) - 1
  BY <1>3, <1>5, FS_RemoveElement
<1>7. Cardinality(Ended)' = Cardinality(Ended) + 1
  BY <1>4, <1>5, FS_AddElement
<1>8. Cardinality(WithObject) \in Nat /\ Cardinality(Ended) \in Nat
  BY <1>5, FS_CardinalityType
<1>9. TwoObjects'
  BY <1>2, <1>6, <1>7, <1>8 DEF TypeOK, TwoObjects
<1>10. Attached'
  BY DEF TypeOK, Attached
<1> QED
  BY <1>1, <1>9, <1>10

\* The frames of an upload.
LEMMA Sess_Dials ==
    ASSUME SessInv, NEW s \in Sids, NEW i \in Ids, Dials(s, i)
    PROVE  SessInv'
<1> USE DEF SessInv, Dials, Dialed, DialFails, httpVars
<1> DEFINE c == <<s, i>>
<1>1. c \in Conns
  BY DEF Conns
<1>2. Ended' = Ended
  BY DEF Ended
<1>3. /\ sessions' \in [Sids -> Nat] /\ made' \in Nat /\ made' >= made
      /\ Object(s) \in Nat /\ Object(s) <= made'
      /\ \A t \in Sids : sessions'[t] <= made' /\ (sessions[t] # 0 => sessions'[t] # 0)
      /\ made' = Cardinality(WithObject)' + Cardinality(Ended)'
  BY <1>2, GetOrCreateMakes
<1>4. /\ pc[c] = "dial" /\ pc'[c] \in {"read", "refuse"}
      /\ \A d \in Conns \ {c} : pc'[d] = pc[d] /\ obj'[d] = obj[d]
      /\ obj'[c] = Object(s)
  BY <1>1 DEF TypeOK
<1>5. TypeOK'
  BY <1>1, <1>3 DEF TypeOK, Frames
<1>6. TwoObjects'
  <2>1. \A d \in Conns : obj'[d] <= made'
    BY <1>3, <1>4 DEF TypeOK, TwoObjects
  <2> QED
    BY <1>3, <2>1 DEF TwoObjects
<1>7. Attached'
  <2>1. UNCHANGED <<ready, shut, mu, get, getObj>>
    OBVIOUS
  <2> QED
    BY <1>4, <2>1, AttachedKept DEF Writing
<1> QED
  BY <1>5, <1>6, <1>7

LEMMA Sess_Frames ==
    ASSUME SessInv, NEW s \in Sids, NEW i \in Ids, Connect(s, i) \/ CloseEntry(s, i)
    PROVE  SessInv'
<1> USE DEF SessInv, Connect, CloseEntry, sessVars, httpVars
<1>1. <<s, i>> \in Conns
  BY DEF Conns
<1>2. TypeOK'
  BY <1>1 DEF TypeOK
<1>3. Ended' = Ended
  BY DEF Ended
<1>4. TwoObjects'
  BY <1>3, TwoObjectsKept
<1>5. Attached'
  <2>1. \A c \in Conns : pc'[c] \in Writing => pc[c] \in Writing /\ obj'[c] = obj[c]
    BY <1>1 DEF TypeOK, Writing
  <2> QED
    BY <2>1, AttachedKept
<1> QED
  BY <1>2, <1>4, <1>5

\* attachReverseTCP gives a new connection the object of some session.
LEMMA Sess_RevAttach ==
    ASSUME SessInv, NEW i \in Ids, RevAttach(i)
    PROVE  SessInv'
<1> USE DEF SessInv, RevAttach, sessVars, httpVars
<1> DEFINE c == <<Reverse, i>>
<1>1. c \in Conns
  BY DEF Conns
<1>2. PICK s \in Sids : obj' = [obj EXCEPT ![c] = sessions[s]]
  OBVIOUS
<1>3. /\ pc[c] = "none" /\ pc'[c] = "open"
      /\ \A d \in Conns \ {c} : pc'[d] = pc[d] /\ obj'[d] = obj[d]
      /\ obj'[c] = sessions[s] /\ obj' \in [Conns -> Nat]
  BY <1>1, <1>2 DEF TypeOK
<1>4. TypeOK'
  BY <1>1, <1>3 DEF TypeOK, Frames
<1>5. WithObject' = WithObject /\ Ended' = Ended
  BY DEF WithObject, Ended
<1>6. TwoObjects'
  BY <1>3, <1>5 DEF TypeOK, TwoObjects
<1>7. Attached'
  BY <1>3 DEF TypeOK, Attached, Writing
<1> QED
  BY <1>4, <1>6, <1>7

\* The goroutine of a connection.
LEMMA Sess_WriteFrame ==
    ASSUME SessInv, NEW c \in Conns, WriteFrame(c)
    PROVE  SessInv'
<1> USE DEF SessInv, WriteFrame, httpVars
<1>1. obj[c] \in Objs
  BY ObjsEnough
<1>2. \A d \in Conns : pc[d] \in Writing => obj[d] # obj[c]
  BY ServerAssumption DEF Attached
<1>3. \A d \in Conns \ {c} : pc'[d] = pc[d]
  BY DEF TypeOK
<1>4. CASE obj[c] \in shut
  <2>1. pc'[c] \in {"read", "exit", "gone", "last"} /\ mu' = mu
    BY <1>4, Labels DEF TypeOK, Failed
  <2>2. TypeOK'
    BY <1>3, <1>4, <2>1 DEF TypeOK, Frames
  <2>3. Attached'
    BY <1>3, <2>1 DEF Attached, Writing
  <2> QED
    BY <2>2, <2>3, TwoObjectsKept DEF Ended
<1>5. CASE obj[c] \notin shut
  <2>1. /\ pc'[c] \in Writing /\ mu' \in [Objs -> Conns \cup {None}]
        /\ mu'[obj[c]] = c /\ \A o \in Objs \ {obj[c]} : mu'[o] = mu[o]
    BY <1>1, <1>5, Labels DEF TypeOK
  <2>2. TypeOK'
    BY <1>3, <1>5, <2>1 DEF TypeOK
  <2>3. \A d \in Conns : obj[d] \in Objs
    BY ObjsEnough
  <2>4. Attached'
    BY <1>2, <1>3, <1>5, <2>1, <2>3 DEF Attached
  <2> QED
    BY <2>2, <2>4, TwoObjectsKept DEF Ended
<1> QED
  BY <1>4, <1>5

LEMMA Sess_Written ==
    ASSUME SessInv, NEW c \in Conns, Written(c)
    PROVE  SessInv'
<1> USE DEF SessInv, Written, httpVars
<1>1. pc[c] \in Writing /\ pc'[c] \in {"read", "exit", "gone"}
  BY Labels DEF TypeOK
<1>2. \A d \in Conns \ {c} : pc'[d] = pc[d] /\ (pc[d] \in Writing => obj[d] # obj[c])
  BY <1>1 DEF TypeOK, Attached
<1>3. TypeOK'
  BY <1>1 DEF TypeOK
<1>4. Attached'
  <2>1. \A d \in Conns : obj[d] \in Objs
    BY ObjsEnough
  <2>2. \A o \in Objs \ {obj[c]} : mu'[o] = mu[o]
    BY DEF TypeOK
  <2> QED
    BY <1>1, <1>2, <2>1, <2>2 DEF Attached, Writing
<1> QED
  BY <1>3, <1>4, TwoObjectsKept DEF Ended

LEMMA Sess_Reads ==
    ASSUME SessInv, NEW c \in Conns, Reads(c) \/ ReadEnds(c) \/ Exit(c)
    PROVE  SessInv'
<1> USE DEF SessInv, Reads, ReadEnds, Exit, sessVars, httpVars
<1>1. TypeOK'
  BY DEF TypeOK, Forget, Frames
<1>2. \A d \in Conns : pc'[d] \in Writing => pc[d] \in Writing /\ obj'[d] = obj[d]
  BY DEF TypeOK, Writing
<1> QED
  BY <1>1, <1>2, TwoObjectsKept, AttachedKept DEF Ended

LEMMA Sess_Unregister ==
    ASSUME SessInv, NEW s \in Sids, Unregister(s)
    PROVE  SessInv'
<1> USE DEF SessInv, Unregister, sessVars, httpVars
<1>1. TypeOK'
  BY DEF TypeOK
<1> QED
  BY <1>1, TwoObjectsKept, AttachedKept DEF Ended

LEMMA Sess_Same ==
    ASSUME SessInv, UNCHANGED <<sessVars, httpVars, connVars>>
    PROVE  SessInv'
<1> USE DEF SessInv, sessVars, httpVars, connVars
<1>1. TypeOK'
  BY DEF TypeOK
<1>2. Attached'
  BY DEF Attached
<1> QED
  BY <1>1, <1>2, TwoObjectsKept DEF Ended

LEMMA SessStep ==
    ASSUME SessInv, [Next]_vars
    PROVE  SessInv'
<1>1. CASE UNCHANGED vars
  BY <1>1, Sess_Same DEF vars
<1>2. CASE Handlers
  BY <1>2, Sess_StreamUpload, Sess_SessionDownload, Sess_Requests, Sess_Frames DEF Handlers
<1>3. ASSUME NEW s \in Sids, Ends(s)
      PROVE  SessInv'
  BY <1>3, Sess_Requests, Sess_Unregister, Sess_Close, Sess_Remove DEF Ends
<1>4. ASSUME NEW c \in Conns, Pump(c) \/ Reads(c) \/ ReadEnds(c)
      PROVE  SessInv'
  BY <1>4, Sess_WriteFrame, Sess_Written, Sess_Reads DEF Pump
<1>5. ASSUME NEW b \in Binds, RevStart(b) \/ RevBind(b) \/ RevListenFails(b)
      PROVE  SessInv'
  BY <1>5, Sess_Same DEF RevStart, RevBind, RevClose, RevListen, RevListenFails, RevInstall
<1> QED
  BY <1>1, <1>2, <1>3, <1>4, <1>5, Sess_Dials, Sess_RevAttach DEF Next

\* The session objects and their mutexes are consistent with the handlers.
THEOREM SessionInvariant == Spec => []SessInv
<1>1. Init => SessInv
  BY SessInit
<1>2. SessInv /\ [Next]_vars => SessInv'
  BY SessStep
<1> QED
  BY <1>1, <1>2, PTL DEF Spec

\* No frame is ever written to the response of a download handler that has
\* returned, for any number of clients and connections: close waits for the mutex
\* under which writeFrame writes.
THEOREM ResponseOutlivesWrites == Spec => []NoWriteAfterReturn
<1>1. SessInv => NoWriteAfterReturn
  BY Labels DEF SessInv, Attached, NoWriteAfterReturn
<1> QED
  BY <1>1, SessionInvariant, PTL

------------------------------------------------------------------------------
(* Reverse mode *)

LEMMA RevInit ==
    ASSUME Init
    PROVE  RevInv
<1>1. listen \in [Binds -> Addrs]
  BY ServerAssumption DEF Init
<1> QED
  BY <1>1, ServerAssumption DEF Init, RevInv, Binds, Asked

\* One step of the call b, which keeps its address.
LEMMA Rev_Step ==
    ASSUME RevInv, NEW b \in Binds, b # 0,
           RevClose(b) \/ RevListen(b) \/ RevListenFails(b) \/ RevInstall(b)
    PROVE  RevInv'
<1> USE ServerAssumption DEF RevInv
<1>0. 0 \in Binds /\ b \in Asked /\ listen' = listen
  BY DEF Binds, Asked, RevClose, RevListen, RevListenFails, RevInstall
<1>1. /\ Asked' = Asked /\ rpc'[0] = "none"
      /\ \A d \in Binds \ {b} : rpc'[d] = rpc[d]
  BY <1>0 DEF Asked, RevClose, RevListen, RevListenFails, RevInstall
<1>2. CASE RevClose(b)
  <2>1. /\ rpc[b] = "close" /\ rpc'[b] = "listen" /\ revLn' = 0
        /\ rpc' \in [Binds -> {"none", "close", "listen", "install", "taken", "error", "accept"}]
        /\ bound' \in [Addrs -> Binds]
        /\ \A a \in Addrs : bound'[a] = IF revLn # 0 /\ bound[a] = revLn THEN 0 ELSE bound[a]
    BY <1>0, <1>2 DEF RevClose
  <2>2. \A a \in Addrs : bound'[a] # 0 => bound'[a] = bound[a] /\ bound[a] # revLn /\ bound[a] # b
    BY <2>1
  <2>3. \A d \in Binds : rpc'[d] = "install" => d # b /\ rpc[d] = "install" /\ revLn # d
    BY <1>1, <2>1
  <2>4. \A d \in Binds : rpc'[d] = "install" => bound'[listen[d]] = d
    BY <2>1, <2>3
  <2> QED
    BY <1>0, <1>1, <2>1, <2>2, <2>4
<1>3. CASE RevListen(b) /\ bound[listen[b]] = 0
  <2>1. /\ rpc[b] = "listen" /\ rpc'[b] = "install" /\ revLn' = revLn
        /\ rpc' \in [Binds -> {"none", "close", "listen", "install", "taken", "error", "accept"}]
        /\ bound' \in [Addrs -> Binds] /\ bound'[listen[b]] = b
        /\ \A a \in Addrs \ {listen[b]} : bound'[a] = bound[a]
    BY <1>0, <1>3 DEF RevListen
  <2>2. \A a \in Addrs : bound[a] # b
    BY <1>0, <2>1
  <2>3. \A d \in Binds \ {b} : rpc[d] = "install" => listen[d] # listen[b]
    BY <1>0, <1>3
  <2>4. revLn # 0 => revLn # b /\ listen[revLn] # listen[b]
    BY <1>3, <2>1
  <2> QED
    BY <1>0, <1>1, <2>1, <2>2, <2>3, <2>4
<1>4. CASE RevListenFails(b) \/ (RevListen(b) /\ bound[listen[b]] # 0)
  <2>1. /\ rpc[b] = "listen" /\ rpc'[b] \in {"taken", "error"} /\ UNCHANGED <<revLn, bound>>
        /\ rpc' \in [Binds -> {"none", "close", "listen", "install", "taken", "error", "accept"}]
        /\ rpc'[b] = "taken" => bound[listen[b]] # 0
    BY <1>0, <1>4 DEF RevListen, RevListenFails
  <2>2. \A a \in Addrs : bound[a] # b
    BY <1>0, <2>1
  <2>3. revLn # b
    BY <1>0, <2>1
  <2> QED
    BY <1>0, <1>1, <2>1, <2>2, <2>3
<1>5. CASE RevInstall(b)
  <2>1. /\ rpc[b] = "install" /\ rpc'[b] = "accept" /\ revLn' = b /\ bound' = bound
        /\ rpc' \in [Binds -> {"none", "close", "listen", "install", "taken", "error", "accept"}]
    BY <1>0, <1>5 DEF RevInstall
  <2>2. bound[listen[b]] = b
    BY <2>1
  <2>3. \A a \in Addrs : bound[a] # 0 => bound[a] = b \/ listen[b] # a
    BY <2>2
  <2> QED
    BY <1>0, <1>1, <2>1, <2>2, <2>3
<1> QED
  BY <1>2, <1>3, <1>4, <1>5

\* A call that starts is on its way to listen; only its own address is new.
LEMMA Rev_Start ==
    ASSUME RevInv, NEW b \in Binds, RevStart(b)
    PROVE  RevInv'
<1> USE ServerAssumption DEF RevInv
<1>1. /\ b # 0 /\ rpc[b] = "none" /\ rpc'[b] = "close" /\ UNCHANGED <<revLn, bound>>
      /\ rpc' \in [Binds -> {"none", "close", "listen", "install", "taken", "error", "accept"}]
      /\ listen' \in [Binds -> Addrs]
      /\ \A d \in Binds \ {b} : rpc'[d] = rpc[d] /\ listen'[d] = listen[d]
  BY DEF RevStart, Binds
<1>2. 0 \in Binds /\ Asked' = Asked \cup {b} /\ b \notin Asked
  <2>1. 0 \in Binds
    BY DEF Binds
  <2> QED
    BY <1>1, <2>1 DEF Asked
<1>3. revLn # b /\ \A a \in Addrs : bound[a] # b
  BY <1>1
<1>4. \A d \in Asked : d \in Binds \ {b}
  BY <1>2 DEF Asked
<1> QED
  BY <1>1, <1>2, <1>3, <1>4

LEMMA RevStep ==
    ASSUME RevInv, [Next]_vars
    PROVE  RevInv'
<1>1. CASE UNCHANGED revVars
  BY <1>1 DEF revVars, RevInv, Asked
<1>2. CASE UNCHANGED vars
  BY <1>1, <1>2 DEF vars
<1>3. CASE Handlers
  BY <1>1, <1>3 DEF Handlers, StreamUpload, SessionDownload, DownloadEnds, Connect, CloseEntry
<1>4. ASSUME NEW s \in Sids, Ends(s)
      PROVE  RevInv'
  BY <1>1, <1>4 DEF Ends, UploadEnds, Unregister, Attach, Close, Remove
<1>5. ASSUME NEW s \in Sids, NEW i \in Ids, Dials(s, i)
      PROVE  RevInv'
  BY <1>1, <1>5 DEF Dials, Dialed, DialFails
<1>6. ASSUME NEW c \in Conns, Pump(c) \/ Reads(c) \/ ReadEnds(c)
      PROVE  RevInv'
  BY <1>1, <1>6 DEF Pump, ReadEnds, WriteFrame, Written, Exit, Reads
<1>7. ASSUME NEW i \in Ids, RevAttach(i)
      PROVE  RevInv'
  BY <1>1, <1>7 DEF RevAttach
<1>8. ASSUME NEW b \in Binds, RevBind(b) \/ RevListenFails(b)
      PROVE  RevInv'
  <2>1. b # 0
    BY <1>8 DEF RevInv, RevBind, RevClose, RevListen, RevListenFails, RevInstall
  <2> QED
    BY <1>8, <2>1, Rev_Step DEF RevBind
<1> QED
  BY <1>2, <1>3, <1>4, <1>5, <1>6, <1>7, <1>8, Rev_Start DEF Next

\* However many calls of runReverse overlap, as long as they all ask for one address:
\* when the last is over the address has a listener, and it is the one the handler
\* knows, unless a Listen has failed for a reason other than another call's listener.
THEOREM ReverseAddressKept == Spec => []ReverseStaysBound
<1>1. Init => RevInv
  BY RevInit
<1>2. RevInv /\ [Next]_vars => RevInv'
  BY RevStep
<1>3. RevInv => ReverseStaysBound
  <2> SUFFICES ASSUME RevInv, NEW b \in Asked,
                      \A d \in Asked : /\ listen[d] = listen[b]
                                       /\ rpc[d] \notin {"close", "listen", "install"}
               PROVE  /\ bound[listen[b]] = revLn
                      /\ revLn = 0 => \E d \in Asked : rpc[d] = "error"
    BY DEF ReverseStaysBound
  <2>1. b \in Binds /\ listen[b] \in Addrs
    BY DEF Asked, RevInv
  <2>2. CASE bound[listen[b]] = 0
    <3>1. revLn = 0
      BY <2>1, <2>2 DEF RevInv, Asked
    <3> QED
      BY <2>1, <2>2, <3>1 DEF RevInv
  <2>3. CASE bound[listen[b]] # 0
    BY <2>1, <2>3 DEF RevInv, Asked
  <2> QED
    BY <2>2, <2>3
<1> QED
  BY <1>1, <1>2, <1>3, PTL DEF Spec
=============================================================================
