--------------------------- MODULE TransportProofs ---------------------------
(***************************************************************************)
(* Theorems about the transports below the proxies: Turbotunnel for any    *)
(* number of WebSockets and any queue size, MuxPipe for any number of      *)
(* sessions and connections. The two share no names and no state.          *)
(***************************************************************************)
EXTENDS Turbotunnel, MuxPipe, FiniteSetTheorems, TLAPS

------------------------------------------------------------------------------
(* Turbotunnel: what an old connection can still do is settled by how its  *)
(* goroutines ended. exchange returns only after one of the two has, and a *)
(* writer that has met a closed connection takes nothing more. Inv says    *)
(* this of every connection that dialLoop has left behind, and that a      *)
(* connection not yet dialed is untouched.                                 *)

TypeOK ==
    /\ closed \in BOOLEAN
    /\ loop \in {"check", "dial", "exchange", "close", "done"}
    /\ n \in 0..MaxConn
    /\ rd \in [WebSockets -> {"none", "check", "read", "err", "done"}]
    /\ wr \in [WebSockets -> {"none", "select", "err", "done"}]
    /\ sendQ \in 0..QueueSize
    /\ link \in [WebSockets -> {"none", "up", "down", "shut"}]
    /\ hd \in [WebSockets -> {"none", "greet", "serve", "gone"}]
    /\ swr \in [WebSockets -> {"none", "start", "wait", "done"}]
    /\ stale \in [WebSockets -> (0..1) \X (0..1)]

\* A connection that is not dialed has no goroutine on either side.
Undialed ==
    \A e \in WebSockets : e > n => /\ rd[e] = "none" /\ wr[e] = "none"
                                   /\ hd[e] = "none" /\ swr[e] = "none"
                                   /\ stale[e] = <<0, 0>>

\* exchange does not return before one of its goroutines has.
OverHasDone ==
    \A e \in WebSockets : e <= n /\ (loop # "exchange" \/ n # e) => "done" \in {rd[e], wr[e]}

\* A writer that took a packet for a connection already closed has failed on it.
StaleHasFailed ==
    \A e \in WebSockets : /\ stale[e][1] > 0 => wr[e] \in {"err", "done"}
                          /\ stale[e][2] > 0 => hd[e] = "gone" /\ swr[e] = "done"

Inv == TypeOK /\ Undialed /\ OverHasDone /\ StaleHasFailed

LEMMA InvInit ==
    ASSUME Init
    PROVE  Inv
<1> USE TurboAssumption DEF Init, All
<1>1. stale \in [WebSockets -> (0..1) \X (0..1)] /\ \A e \in WebSockets : stale[e] = <<0, 0>>
  OBVIOUS
<1>2. closed \in BOOLEAN
  BY Zenon
<1>3. n \in 0..MaxConn /\ sendQ \in 0..QueueSize
  BY SMT
<1>4. TypeOK
  BY <1>1, <1>2, <1>3 DEF TypeOK
<1>5. Undialed /\ OverHasDone /\ StaleHasFailed
  BY <1>1 DEF Undialed, OverHasDone, StaleHasFailed, WebSockets
<1> QED
  BY <1>4, <1>5 DEF Inv

\* dialLoop.
LEMMA Inv_Loop ==
    ASSUME Inv, Loop \/ DialFails
    PROVE  Inv'
<1> USE TurboAssumption
        DEF Loop, Check, ExchangeReturns, CloseConn, DialFails, cliVars, srvVars
<1>1. TypeOK'
  BY DEF Inv, TypeOK, WebSockets
<1>2. Undialed'
  BY DEF Inv, TypeOK, Undialed, WebSockets
<1>3. OverHasDone'
  BY DEF Inv, TypeOK, OverHasDone, WebSockets
<1>4. StaleHasFailed'
  BY DEF Inv, TypeOK, StaleHasFailed, WebSockets
<1> QED
  BY <1>1, <1>2, <1>3, <1>4 DEF Inv

LEMMA Inv_DialOk ==
    ASSUME Inv, DialOk
    PROVE  Inv'
<1> USE TurboAssumption DEF DialOk
<1>1. TypeOK'
  BY DEF Inv, TypeOK, WebSockets
<1>2. Undialed'
  BY DEF Inv, TypeOK, Undialed, WebSockets
<1>3. OverHasDone'
  BY DEF Inv, TypeOK, OverHasDone, WebSockets
<1>4. StaleHasFailed'
  BY DEF Inv, TypeOK, Undialed, StaleHasFailed, WebSockets
<1> QED
  BY <1>1, <1>2, <1>3, <1>4 DEF Inv

\* The goroutines of exchange.
LEMMA Inv_Reader ==
    ASSUME Inv, NEW e \in WebSockets, Reader(e) \/ Read(e)
    PROVE  Inv'
<1> USE TurboAssumption
        DEF Reader, ReaderCheck, ReadFails, Read, loopVars, srvVars
<1>1. TypeOK'
  BY DEF Inv, TypeOK
<1>2. Undialed'
  BY DEF Inv, TypeOK, Undialed
<1>3. OverHasDone'
  BY DEF Inv, TypeOK, OverHasDone
<1>4. StaleHasFailed'
  BY DEF Inv, TypeOK, StaleHasFailed
<1> QED
  BY <1>1, <1>2, <1>3, <1>4 DEF Inv

LEMMA Inv_WriterReturns ==
    ASSUME Inv, NEW e \in WebSockets, WriterReturns(e)
    PROVE  Inv'
<1> USE TurboAssumption DEF WriterReturns, loopVars, srvVars
<1>1. TypeOK'
  BY DEF Inv, TypeOK
<1>2. Undialed'
  BY DEF Inv, TypeOK, Undialed
<1>3. OverHasDone'
  BY DEF Inv, TypeOK, OverHasDone
<1>4. StaleHasFailed'
  BY DEF Inv, TypeOK, StaleHasFailed
<1> QED
  BY <1>1, <1>2, <1>3, <1>4 DEF Inv

\* The writer is in its select, so it has not met a closed connection before.
LEMMA Inv_WriterTakes ==
    ASSUME Inv, NEW e \in WebSockets, WriterTakes(e)
    PROVE  Inv'
<1> USE TurboAssumption DEF WriterTakes, loopVars, srvVars
<1>1. stale[e] \in (0..1) \X (0..1) /\ stale[e][1] = 0
  BY DEF Inv, TypeOK, StaleHasFailed
<1>2. /\ \A d \in WebSockets \ {e} : stale'[d] = stale[d] /\ wr'[d] = wr[d]
      /\ stale'[e] \in (0..1) \X (0..1) /\ stale'[e][2] = stale[e][2]
      /\ stale'[e][1] > 0 => link[e] = "shut"
  BY <1>1 DEF Inv, TypeOK
<1>3. stale' \in [WebSockets -> (0..1) \X (0..1)]
  BY <1>2 DEF Inv, TypeOK
<1>4. wr' \in [WebSockets -> {"none", "select", "err", "done"}]
      /\ wr'[e] \in {"select", "err"} /\ (link[e] = "shut" => wr'[e] = "err")
  BY DEF Inv, TypeOK
<1>5. TypeOK'
  BY <1>3, <1>4 DEF Inv, TypeOK
<1>6. Undialed'
  BY <1>2 DEF Inv, TypeOK, Undialed
<1>7. OverHasDone'
  BY <1>2, <1>4 DEF Inv, TypeOK, OverHasDone
<1>8. StaleHasFailed'
  BY <1>2, <1>4 DEF Inv, TypeOK, StaleHasFailed
<1> QED
  BY <1>5, <1>6, <1>7, <1>8 DEF Inv

\* The calls of the session on top, the network and the client map.
LEMMA Inv_Outside ==
    ASSUME Inv,
           \/ WriteTo \/ Close \/ ServerWrites \/ Ages \/ RemoveExpired \/ SessionEnds
           \/ \E e \in WebSockets : Break(e) \/ ServerReads(e)
    PROVE  Inv'
<1> DEFINE Kept == /\ UNCHANGED <<loop, n, rd, wr, hd, swr, stale>>
                   /\ closed' \in BOOLEAN /\ sendQ' \in 0..QueueSize
                   /\ link' \in [WebSockets -> {"none", "up", "down", "shut"}]
<1> USE TurboAssumption DEF loopVars, cliVars, srvVars, Inv, TypeOK
<1>1. CASE WriteTo \/ Close
  <2>1. closed' \in BOOLEAN
    BY <1>1, Zenon DEF WriteTo, Close
  <2>2. Kept
    BY <1>1, <2>1 DEF WriteTo, Close
  <2> QED
    BY <2>2 DEF Undialed, OverHasDone, StaleHasFailed
<1>2. CASE ServerWrites \/ Ages \/ RemoveExpired \/ SessionEnds
  <2>1. Kept
    BY <1>2 DEF ServerWrites, Ages, RemoveExpired, SessionEnds
  <2> QED
    BY <2>1 DEF Undialed, OverHasDone, StaleHasFailed
<1>3. ASSUME NEW e \in WebSockets, Break(e) \/ ServerReads(e)
      PROVE  Inv'
  <2>1. Kept
    BY <1>3 DEF Break, ServerReads
  <2> QED
    BY <2>1 DEF Undialed, OverHasDone, StaleHasFailed
<1> QED
  BY <1>1, <1>2, <1>3

\* serveHTTP.
LEMMA Inv_Handler ==
    ASSUME Inv, NEW e \in WebSockets, Handler(e) \/ OutgoingQueue(e)
    PROVE  Inv'
<1> USE TurboAssumption
        DEF Handler, Greeted, GreetFails, ServerReadFails, OutgoingQueue, loopVars, cliVars
<1>1. TypeOK'
  BY DEF Inv, TypeOK
<1>2. Undialed'
  BY DEF Inv, TypeOK, Undialed
<1>3. OverHasDone'
  BY DEF Inv, TypeOK, OverHasDone
<1>4. StaleHasFailed'
  BY DEF Inv, TypeOK, StaleHasFailed
<1> QED
  BY <1>1, <1>2, <1>3, <1>4 DEF Inv

\* The writer of a WebSocket that serveHTTP has closed takes a packet and fails.
LEMMA Inv_ServerTakes ==
    ASSUME Inv, NEW e \in WebSockets, ServerTakes(e)
    PROVE  Inv'
<1>1. UNCHANGED <<closed, loop, n, rd, wr, sendQ, link>> /\ swr[e] = "wait"
  BY DEF ServerTakes, loopVars, cliVars
<1>2. /\ hd' \in [WebSockets -> {"none", "greet", "serve", "gone"}]
      /\ swr' \in [WebSockets -> {"none", "start", "wait", "done"}]
      /\ \A d \in WebSockets \ {e} : hd'[d] = hd[d] /\ swr'[d] = swr[d]
      /\ hd[e] = "gone" => hd'[e] = "gone" /\ swr'[e] = "done"
  BY DEF ServerTakes, ServerWriteFails, srvVars, Inv, TypeOK
<1>3. stale[e] \in (0..1) \X (0..1) /\ stale[e][2] = 0
  BY <1>1 DEF Inv, TypeOK, StaleHasFailed
<1>4. stale' = [stale EXCEPT ![e][2] = IF hd[e] = "gone" THEN @ + 1 ELSE @]
  BY DEF ServerTakes
<1>5. /\ \A d \in WebSockets \ {e} : stale'[d] = stale[d]
      /\ stale'[e] \in (0..1) \X (0..1) /\ stale'[e][1] = stale[e][1]
      /\ stale'[e][2] > 0 => hd[e] = "gone"
  BY <1>3, <1>4 DEF Inv, TypeOK
<1>6. stale' \in [WebSockets -> (0..1) \X (0..1)]
  BY <1>4, <1>5 DEF Inv, TypeOK
<1>7. TypeOK'
  BY <1>1, <1>2, <1>6 DEF Inv, TypeOK
<1>8. Undialed'
  BY <1>1, <1>2, <1>5 DEF Inv, TypeOK, Undialed
<1>9. OverHasDone'
  BY <1>1 DEF Inv, OverHasDone
<1>10. StaleHasFailed'
  BY <1>1, <1>2, <1>5 DEF Inv, StaleHasFailed
<1> QED
  BY <1>7, <1>8, <1>9, <1>10 DEF Inv

LEMMA InvStep ==
    ASSUME Inv, [Next]_vars
    PROVE  Inv'
<1>1. CASE UNCHANGED vars
  BY <1>1 DEF vars, loopVars, cliVars, srvVars, Inv, TypeOK, Undialed, OverHasDone,
              StaleHasFailed
<1>2. ASSUME NEW e \in WebSockets, Reader(e) \/ Read(e) \/ WriterTakes(e) \/ WriterReturns(e)
      PROVE  Inv'
  BY <1>2, Inv_Reader, Inv_WriterTakes, Inv_WriterReturns
<1>3. ASSUME NEW e \in WebSockets, Handler(e) \/ ServerWriter(e)
      PROVE  Inv'
  BY <1>3, Inv_Handler, Inv_ServerTakes DEF ServerWriter
<1> QED
  BY <1>1, <1>2, <1>3, Inv_Loop, Inv_DialOk, Inv_Outside DEF Next

\* Every connection that dialLoop has left has lost a goroutine, and a writer
\* that outlived its connection has failed on it.
THEOREM TurboInvariant == Spec => []Inv
<1>1. Init => Inv
  BY InvInit
<1>2. Inv /\ [Next]_vars => Inv'
  BY InvStep
<1> QED
  BY <1>1, <1>2, PTL DEF Spec

\* However many WebSockets a session goes through, each leaves at most one
\* goroutine of exchange blocked on its error channel.
THEOREM AtMostOneStranded == Spec => []OneStranded
<1>1. Inv => OneStranded
  BY DEF Inv, TypeOK, Undialed, OverHasDone, OneStranded, WebSockets
<1> QED
  BY <1>1, TurboInvariant, PTL

\* The writers of a closed connection, one on each side, cost its successors at
\* most one packet each of the queues they share.
THEOREM StaleWritersTakeOne == Spec => []StaleTakesOne
<1>1. Inv => StaleTakesOne
  BY DEF Inv, TypeOK, StaleTakesOne
<1> QED
  BY <1>1, TurboInvariant, PTL

------------------------------------------------------------------------------
(* MuxPipe: deaths are counted against what has been lost and what is yet  *)
(* to be lost to sessions that have failed already.                        *)

MuxType ==
    /\ role \in {"forward", "reverse"}
    /\ cli \in [Sess -> {"none", "live"}]
    /\ srv \in [Sess -> {"none", "magic", "packets", "mux"}]
    /\ relay \in [Sess -> {"none", "on", "over"}]
    /\ udp \subseteq Sess
    /\ bind \in [Sess -> {"none", "asked", "bound", "answered", "refused"}]
    /\ st \in [Conns -> {"new", "queued", "piped", "done", "lost"}]
    /\ deaths \in Nat /\ udpLost \in Nat

\* A forward client has a session when it accepts and binds nothing, and a relay
\* is started on a session that the server has recognised.
ForwardLoop ==
    /\ role = "forward" => /\ pc \in {"dial", "accept"} /\ (pc = "accept" => cur \in Sess)
                           /\ \A s \in Sess : bind[s] = "none"
    /\ \A s \in Sess : relay[s] = "on" => srv[s] \in {"mux", "none"}

\* The session has failed, whether or not the client knows; its UDP stream has.
Failed(s) == cli[s] # "live" \/ srv[s] = "none"
DeadUdp == {s \in udp : Failed(s) \/ relay[s] = "over"}

Lost == {c \in Conns : st[c] = "lost"}

\* A failed session is paid for: by the connection that the client will lose to
\* it, if it has not yet, and by the datagram that its goroutine will.
LossCovered ==
    role = "forward" =>
        /\ IsFiniteSet(Lost) /\ Cardinality(Lost) <= deaths
        /\ pc = "accept" /\ Failed(cur) => Cardinality(Lost) < deaths
        /\ udpLost + Cardinality(DeadUdp) <= deaths

MuxInv == MuxType /\ ForwardLoop /\ LossCovered

LEMMA MuxInvInit ==
    ASSUME MuxInit
    PROVE  MuxInv
<1> USE DEF MuxInit
<1>1. MuxType
  BY DEF MuxType, Sess
<1>2. ForwardLoop
  BY DEF ForwardLoop
<1>3. Lost = {} /\ DeadUdp = {}
  BY DEF Lost, DeadUdp
<1>4. IsFiniteSet(Lost) /\ Cardinality(Lost) = 0 /\ Cardinality(DeadUdp) = 0
  BY <1>3, FS_EmptySet, Zenon
<1>5. LossCovered
  BY <1>4 DEF LossCovered
<1> QED
  BY <1>1, <1>2, <1>5 DEF MuxInv

\* Sessions are numbered up to MaxSess.
LEMMA DeadFinite ==
    ASSUME MuxType
    PROVE  IsFiniteSet(DeadUdp) /\ Cardinality(DeadUdp) \in Nat
<1>1. IsFiniteSet(Sess)
  BY MuxAssumption, FS_Interval DEF Sess
<1>2. DeadUdp \subseteq Sess
  BY DEF DeadUdp, MuxType
<1> QED
  BY <1>1, <1>2, FS_Subset, FS_CardinalityType

\* A step without a failure, in which nothing is lost and nothing fails.
LEMMA NothingFails ==
    ASSUME MuxInv, UNCHANGED <<role, deaths, udpLost>>,
           role = "forward" => /\ Lost' \subseteq Lost
                               /\ DeadUdp' \subseteq DeadUdp
                               /\ pc' = "accept" /\ Failed(cur)' => pc = "accept" /\ Failed(cur)
    PROVE  LossCovered'
<1>1. SUFFICES ASSUME role = "forward"
               PROVE  LossCovered'
  BY DEF LossCovered
<1>2. IsFiniteSet(DeadUdp) /\ Cardinality(DeadUdp) \in Nat
  BY DeadFinite DEF MuxInv
<1>3. IsFiniteSet(DeadUdp') /\ Cardinality(DeadUdp') <= Cardinality(DeadUdp)
  BY <1>1, <1>2, FS_Subset
<1>4. Cardinality(DeadUdp') \in Nat
  BY <1>3, FS_CardinalityType
<1>5. udpLost + Cardinality(DeadUdp') <= deaths
  BY <1>1, <1>2, <1>3, <1>4 DEF MuxInv, MuxType, LossCovered
<1>6. IsFiniteSet(Lost) /\ Cardinality(Lost) \in Nat
  BY <1>1, FS_CardinalityType DEF MuxInv, LossCovered
<1>7. IsFiniteSet(Lost') /\ Cardinality(Lost') <= Cardinality(Lost)
  BY <1>1, <1>6, FS_Subset
<1>8. Cardinality(Lost') \in Nat
  BY <1>7, FS_CardinalityType
<1>9. Cardinality(Lost') <= deaths /\ (Cardinality(Lost) < deaths => Cardinality(Lost') < deaths)
  BY <1>1, <1>6, <1>7, <1>8 DEF MuxInv, MuxType, LossCovered
<1> QED
  BY <1>1, <1>5, <1>7, <1>9 DEF MuxInv, LossCovered

\* A session or a relay fails: what will be lost to it is paid for.
LEMMA OneFails ==
    ASSUME MuxInv, UNCHANGED <<role, udpLost>>, deaths' = deaths + 1, NEW s \in Sess,
           role = "forward" => Lost' = Lost /\ DeadUdp' \subseteq DeadUdp \cup {s}
    PROVE  LossCovered'
<1>1. SUFFICES ASSUME role = "forward"
               PROVE  LossCovered'
  BY DEF LossCovered
<1>2. IsFiniteSet(DeadUdp) /\ Cardinality(DeadUdp) \in Nat
  BY DeadFinite DEF MuxInv
<1> DEFINE T == DeadUdp \cup {s}
<1>3. IsFiniteSet(T)
      /\ (Cardinality(T) = Cardinality(DeadUdp) \/ Cardinality(T) = Cardinality(DeadUdp) + 1)
  BY <1>2, FS_AddElement, Zenon
<1>4. DeadUdp' \subseteq T
  BY <1>1
<1> HIDE DEF T
<1>5. IsFiniteSet(DeadUdp') /\ Cardinality(DeadUdp') <= Cardinality(T)
  BY <1>3, <1>4, FS_Subset
<1>6. Cardinality(DeadUdp') \in Nat /\ Cardinality(T) \in Nat
  BY <1>3, <1>5, FS_CardinalityType
<1>7. udpLost + Cardinality(DeadUdp') <= deaths + 1
  BY <1>1, <1>2, <1>3, <1>5, <1>6 DEF MuxInv, MuxType, LossCovered
<1>8. Cardinality(Lost) \in Nat
  BY <1>1, FS_CardinalityType DEF MuxInv, LossCovered
<1>9. Cardinality(Lost) < deaths + 1
  BY <1>1, <1>8 DEF MuxInv, MuxType, LossCovered
<1> QED
  BY <1>1, <1>7, <1>8, <1>9 DEF MuxInv, LossCovered, MuxType

\* The client's loops.
LEMMA MuxInv_Start ==
    ASSUME MuxInv, NEW s \in Sess, Dial(s) \/ SnowflakeDial(s)
    PROVE  MuxInv'
<1>1. /\ Start(s) /\ UNCHANGED <<role, st, deaths, udpLost>>
      /\ srv' = [srv EXCEPT ![s] = "magic"] \/ srv' = [srv EXCEPT ![s] = "packets"]
  BY DEF Dial, SnowflakeDial, OpenClient, NewClientSession, Start, kind, pipeVars
<1>2. s \notin udp /\ relay[s] # "on"
  BY <1>1 DEF Start, Used
<1>3. MuxType'
  BY <1>1 DEF Start, MuxInv, MuxType
<1>4. ForwardLoop'
  BY <1>1 DEF Start, MuxInv, MuxType, ForwardLoop
<1>5. Lost' = Lost
  BY <1>1 DEF Lost
<1>6. ~ Failed(cur)'
  BY <1>1 DEF Start, Failed, MuxInv, MuxType
<1>7. DeadUdp' \subseteq DeadUdp
  <2>1. ASSUME NEW r \in DeadUdp'
        PROVE  r \in DeadUdp
    BY <1>1 DEF DeadUdp, Failed, Start, MuxInv, MuxType
  <2> QED
    BY <2>1
<1> QED
  BY <1>1, <1>3, <1>4, <1>5, <1>6, <1>7, NothingFails DEF MuxInv

\* The two ends of a session learn of each other, or of the end.
LEMMA MuxInv_Session ==
    ASSUME MuxInv, NEW s \in Sess,
           Detect(s) \/ AcceptKCP(s) \/ ServerNotices(s) \/ ClientNotices(s) \/ RelayStarts(s)
             \/ RelayEnds(s)
    PROVE  MuxInv'
<1> USE DEF Ended, kind, pipeVars
<1>1. UNCHANGED <<role, pc, cur, udp, bind, st, deaths, udpLost>>
  BY DEF Detect, AcceptKCP, ServerNotices, ClientNotices, RelayStarts, RelayEnds
<1>2. MuxType'
  BY <1>1 DEF MuxInv, MuxType, Detect, AcceptKCP, ServerNotices, ClientNotices, RelayStarts,
              RelayEnds
<1>3. ForwardLoop'
  <2>1. \A r \in Sess : relay'[r] = "on" => srv'[r] \in {"mux", "none"}
    BY DEF MuxInv, MuxType, ForwardLoop, Detect, AcceptKCP, ServerNotices, ClientNotices,
           RelayStarts,
           RelayEnds, Far, Near
  <2> QED
    BY <1>1, <2>1 DEF MuxInv, ForwardLoop
<1>4. Lost' = Lost
  BY <1>1 DEF Lost
<1>5. \A r \in Sess : Failed(r)' => Failed(r)
  BY DEF MuxInv, MuxType, Failed, Detect, AcceptKCP, ServerNotices, ClientNotices, RelayStarts,
         RelayEnds
<1>6. \A r \in Sess : relay'[r] = "over" => relay[r] = "over" \/ r \notin udp \/ Failed(r)
  BY DEF MuxInv, MuxType, ForwardLoop, Failed, Detect, AcceptKCP, ServerNotices, ClientNotices,
         RelayStarts, RelayEnds
<1>7. DeadUdp' \subseteq DeadUdp
  <2>1. ASSUME NEW r \in DeadUdp'
        PROVE  r \in DeadUdp
    BY <1>1, <1>5, <1>6 DEF DeadUdp, MuxInv, MuxType
  <2> QED
    BY <2>1
<1>8. role = "forward" /\ pc' = "accept" /\ Failed(cur)' => pc = "accept" /\ Failed(cur)
  BY <1>1, <1>5 DEF MuxInv, ForwardLoop, Failed
<1> QED
  BY <1>1, <1>2, <1>3, <1>4, <1>7, <1>8, NothingFails DEF MuxInv

\* A session or a relay fails.
LEMMA MuxInv_Fails ==
    ASSUME MuxInv, NEW s \in Sess,
           DetectLate(s) \/ ClientDies(s) \/ ServerDies(s) \/ RelayFails(s)
    PROVE  MuxInv'
<1> USE DEF Ended, kind, pipeVars
<1>1. UNCHANGED <<role, pc, cur, udp, bind, st, udpLost>> /\ deaths' = deaths + 1
  BY DEF DetectLate, ClientDies, ServerDies, RelayFails
<1>2. MuxType'
  BY <1>1 DEF MuxInv, MuxType, DetectLate, ClientDies, ServerDies, RelayFails
<1>3. ForwardLoop'
  <2>1. \A r \in Sess : relay'[r] = "on" => srv'[r] \in {"mux", "none"}
    BY DEF MuxInv, MuxType, ForwardLoop, DetectLate, ClientDies, ServerDies, RelayFails
  <2> QED
    BY <1>1, <2>1 DEF MuxInv, ForwardLoop
<1>4. Lost' = Lost
  BY <1>1 DEF Lost
<1>5. DeadUdp' \subseteq DeadUdp \cup {s}
  <2>1. ASSUME NEW r \in DeadUdp', r # s
        PROVE  r \in DeadUdp
    BY <1>1, <2>1 DEF DeadUdp, Failed, MuxInv, MuxType, DetectLate, ClientDies, ServerDies,
                      RelayFails
  <2> QED
    BY <2>1
<1> QED
  BY <1>1, <1>2, <1>3, <1>4, <1>5, OneFails DEF MuxInv

\* The goroutine of a dead session loses its datagram and is gone.
LEMMA MuxInv_UdpToDeadSession ==
    ASSUME MuxInv, NEW s \in Sess, UdpToDeadSession(s)
    PROVE  MuxInv'
<1>1. UNCHANGED <<role, pc, cur, cli, srv, relay, bind, st, deaths>>
  BY DEF UdpToDeadSession, kind, pipeVars
<1>2. MuxType'
  BY <1>1 DEF MuxInv, MuxType, UdpToDeadSession
<1>3. ForwardLoop'
  BY <1>1 DEF MuxInv, ForwardLoop
<1>4. ASSUME role = "forward"
      PROVE  LossCovered'
  <2>1. s \in DeadUdp /\ DeadUdp' = DeadUdp \ {s}
    BY <1>1, <1>4 DEF DeadUdp, Failed, UdpToDeadSession, Near
  <2>2. IsFiniteSet(DeadUdp) /\ Cardinality(DeadUdp) \in Nat
    BY DeadFinite DEF MuxInv
  <2>3. Cardinality(DeadUdp') = Cardinality(DeadUdp) - 1
    BY <2>1, <2>2, FS_RemoveElement, Zenon
  <2>4. udpLost' + Cardinality(DeadUdp') <= deaths'
    BY <1>1, <1>4, <2>2, <2>3 DEF MuxInv, MuxType, LossCovered, UdpToDeadSession
  <2>5. Lost' = Lost /\ Failed(cur)' = Failed(cur)
    BY <1>1 DEF Lost, Failed
  <2> QED
    BY <1>1, <1>4, <2>4, <2>5 DEF MuxInv, LossCovered
<1> QED
  BY <1>1, <1>2, <1>3, <1>4 DEF MuxInv, LossCovered

\* The client loses a connection to its failed session, and leaves it.
LEMMA MuxInv_ForwardAccept ==
    ASSUME MuxInv, NEW c \in Conns, ForwardAccept(c)
    PROVE  MuxInv'
<1>1. UNCHANGED <<role, cur, cli, srv, udp, relay, bind, deaths, udpLost>>
  BY DEF ForwardAccept, kind
<1>2. st' \in [Conns -> {"new", "queued", "piped", "done", "lost"}] /\ pc' \in {pc, "dial"}
  BY DEF ForwardAccept, MuxInv, MuxType, Pipe
<1>3. MuxType'
  BY <1>1, <1>2 DEF MuxInv, MuxType
<1>4. ForwardLoop'
  BY <1>1, <1>2 DEF MuxInv, ForwardLoop
<1>5. DeadUdp' = DeadUdp
  BY <1>1 DEF DeadUdp, Failed
<1>6. CASE cli[cur] = "live"
  <2>1. st' = [st EXCEPT ![c] = "piped"] /\ pc' = pc /\ st[c] = "queued"
    BY <1>6 DEF ForwardAccept, Pipe
  <2>2. Lost' = Lost
    BY <2>1 DEF Lost, MuxInv, MuxType
  <2>3. Failed(cur)' = Failed(cur)
    BY <1>1 DEF Failed
  <2> QED
    BY <1>1, <1>3, <1>4, <1>5, <2>1, <2>2, <2>3, NothingFails DEF MuxInv
<1>7. CASE cli[cur] # "live"
  <2>1. st' = [st EXCEPT ![c] = "lost"] /\ pc' = "dial" /\ pc = "accept" /\ Failed(cur)
    BY <1>7 DEF ForwardAccept, Failed
  <2>2. Lost' = Lost \cup {c}
    BY <2>1 DEF Lost, MuxInv, MuxType
  <2>3. ASSUME role = "forward"
        PROVE  LossCovered'
    <3>1. IsFiniteSet(Lost) /\ Cardinality(Lost) < deaths
      BY <2>1, <2>3 DEF MuxInv, LossCovered
    <3>2. IsFiniteSet(Lost')
          /\ (Cardinality(Lost') = Cardinality(Lost) \/ Cardinality(Lost') = Cardinality(Lost) + 1)
      BY <2>2, <3>1, FS_AddElement, Zenon
    <3>3. Cardinality(Lost) \in Nat
      BY <3>1, FS_CardinalityType
    <3>4. Cardinality(Lost') <= deaths
      BY <3>1, <3>2, <3>3 DEF MuxInv, MuxType
    <3> QED
      BY <1>1, <1>5, <2>1, <2>3, <3>2, <3>4 DEF MuxInv, LossCovered
  <2> QED
    BY <1>1, <1>3, <1>4, <2>3 DEF MuxInv, LossCovered
<1> QED
  BY <1>6, <1>7

\* A connection arrives, or its copies end.
LEMMA MuxInv_Conn ==
    ASSUME MuxInv, NEW c \in Conns,
           Arrive(c) \/ \E w \in Ways : SourceEnds(c, w) \/ CopyFails(c, w)
    PROVE  MuxInv'
<1>1. UNCHANGED <<role, pc, cur, cli, srv, udp, relay, bind, deaths, udpLost>>
  BY DEF Arrive, SourceEnds, CopyFails, CopyEnds, kind, sessVars
<1>2. st' \in [Conns -> {"new", "queued", "piped", "done", "lost"}]
  BY DEF Arrive, SourceEnds, CopyFails, CopyEnds, MuxInv, MuxType
<1>3. MuxType' /\ ForwardLoop' /\ DeadUdp' = DeadUdp /\ Failed(cur)' = Failed(cur)
  BY <1>1, <1>2 DEF MuxInv, MuxType, ForwardLoop, DeadUdp, Failed
<1>4. Lost' \subseteq Lost
  <2>1. ASSUME NEW d \in Lost'
        PROVE  d \in Lost
    BY DEF Lost, Arrive, SourceEnds, CopyFails, CopyEnds, MuxInv, MuxType
  <2> QED
    BY <2>1
<1> QED
  BY <1>1, <1>3, <1>4, NothingFails DEF MuxInv

\* What the reverse mode does counts no loss.
LEMMA MuxInv_Reverse ==
    ASSUME MuxInv,
           \/ BindOk \/ BindFails \/ ServeEnds
           \/ \E s \in Sess : RevListen(s) \/ RevAskLost(s) \/ RevAnswerFails(s) \/ RevAnswers(s)
           \/ \E c \in Conns : RevAccept(c)
    PROVE  MuxInv'
<1> USE DEF kind, sessVars, pipeVars, Ended
<1>1. role # "forward"
  BY DEF MuxInv, ForwardLoop, BindOk, BindFails, ServeEnds, RevListen, RevAskLost, RevAnswerFails,
         RevAnswers, RevAccept
<1>2. UNCHANGED <<role, srv, relay, deaths, udpLost>>
  BY DEF BindOk, BindFails, ServeEnds, RevListen, RevAskLost, RevAnswerFails, RevAnswers, RevAccept
<1>3. cli' \in [Sess -> {"none", "live"}] /\ udp' \subseteq Sess
  BY DEF MuxInv, MuxType, BindOk, BindFails, ServeEnds, RevListen, RevAskLost, RevAnswerFails,
         RevAnswers, RevAccept
<1>4. bind' \in [Sess -> {"none", "asked", "bound", "answered", "refused"}]
  BY DEF MuxInv, MuxType, BindOk, BindFails, ServeEnds, RevListen, RevAskLost, RevAnswerFails,
         RevAnswers, RevAccept
<1>5. st' \in [Conns -> {"new", "queued", "piped", "done", "lost"}]
  BY DEF MuxInv, MuxType, BindOk, BindFails, ServeEnds, RevListen, RevAskLost, RevAnswerFails,
         RevAnswers, RevAccept,
         Pipe
<1> QED
  BY <1>1, <1>2, <1>3, <1>4, <1>5 DEF MuxInv, MuxType, ForwardLoop, LossCovered

LEMMA MuxInv_Next ==
    ASSUME MuxInv, [MuxNext]_muxVars
    PROVE  MuxInv'
<1>1. CASE UNCHANGED muxVars
  BY <1>1 DEF MuxInv, MuxType, ForwardLoop, LossCovered, Lost, DeadUdp, Failed, muxVars, kind,
              sessVars, pipeVars
<1>2. CASE Client
  BY <1>2, MuxInv_Start, MuxInv_Reverse DEF Client
<1>3. CASE \E s \in Sess : \/ Session(s) \/ DetectLate(s) \/ ClientDies(s) \/ ServerDies(s)
                           \/ RelayStarts(s) \/ RelayFails(s) \/ UdpToDeadSession(s)
  BY <1>3, MuxInv_Session, MuxInv_Fails, MuxInv_UdpToDeadSession, MuxInv_Reverse DEF Session
<1>4. CASE \E c \in Conns : \/ Arrive(c) \/ Accepts(c)
                            \/ \E w \in Ways : SourceEnds(c, w) \/ CopyFails(c, w)
  BY <1>4, MuxInv_Conn, MuxInv_ForwardAccept, MuxInv_Reverse DEF Accepts
<1> QED
  BY <1>1, <1>2, <1>3, <1>4 DEF MuxNext

\* What is yet to be lost only adds to what has been.
LEMMA CoveredBoundsLoss ==
    ASSUME MuxInv
    PROVE  LossPerDeath
<1>1. IsFiniteSet(DeadUdp) /\ Cardinality(DeadUdp) \in Nat
  BY DeadFinite DEF MuxInv
<1>2. role = "forward" => udpLost <= deaths
  BY <1>1 DEF MuxInv, MuxType, LossCovered
<1>3. role = "forward" => Cardinality(Lost) <= deaths
  BY DEF MuxInv, LossCovered
<1> QED
  BY <1>2, <1>3 DEF LossPerDeath, Lost

\* Every failure of a session or a relay pays for the connection and the datagram
\* that will be lost to it.
THEOREM MuxInvariant == MuxSpec => []MuxInv
<1>1. MuxInit => MuxInv
  BY MuxInvInit
<1>2. MuxInv /\ [MuxNext]_muxVars => MuxInv'
  BY MuxInv_Next
<1> QED
  BY <1>1, <1>2, PTL DEF MuxSpec

\* However often sessions and relays fail, RunForwardClient refuses at most one local
\* connection and its UDP goroutines drop at most one datagram per failure.
THEOREM LossIsBounded == MuxSpec => []LossPerDeath
<1>1. MuxInv => LossPerDeath
  BY CoveredBoundsLoss
<1> QED
  BY <1>1, MuxInvariant, PTL
=============================================================================
