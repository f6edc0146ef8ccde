------------------------- MODULE DpiSessionProofs --------------------------
(***************************************************************************)
(* Theorems about DpiSession for any number of connections, sessions,      *)
(* chunks and failures. The inductive invariant has one part for each      *)
(* question:                                                               *)
(*   - Placed: where a session is, from startSession to the pool;          *)
(*   - Pinned: where a connection may be when a session has it pinned;     *)
(*   - Looked: who will look at a session of the pool before it is idle;   *)
(*   - Owned: where the pipe is that a connection reads;                   *)
(*   - Answers: what is on its way down, and where.                        *)
(***************************************************************************)
EXTENDS DpiSession, FiniteSetTheorems, FunctionTheorems, SequenceTheorems,
        WellFoundedInduction, TLAPS

Early == {"pick", "start", "uplink", "add", "pin"}
Gone == {"inactive", "shrink", "done"}
Places == Early \cup {"length", "data", "download", "reader", "run", "close", "cdata", "unpin"}
          \cup Gone

\* The goroutine has a session at hand.
WithSession == {"uplink", "add", "pin", "length", "data", "reader", "cdata", "unpin"}

FlowType ==
    /\ pc \in [Conns -> Places] /\ sess \in [Conns -> Sids \cup {None}]
    /\ \A c \in Conns : pc[c] \in WithSession => sess[c] \in Sids

\* The variables that the invariant is about.
TypeOK ==
    /\ sessions \in Seq(Sids) /\ started \in 0..MaxStarts
    /\ closed \in [Sids -> BOOLEAN]
    /\ uplink \in [Sids -> {"nil", "open", "broken", "closed"}]
    /\ readers \in [Sids -> [Conns -> Pipes \cup {None}]]
    /\ down \in [Sids -> Seq(Conns \X Nat)]
    /\ ended \in [Pipes -> BOOLEAN]
    /\ FlowType /\ why \in [Conns -> {"connect", "download"}]
    /\ reader \in [Conns -> Pipes \cup {None}]
    /\ srv \in [Conns -> {"none", "open", "ending", "ended"}]
    /\ home \in [Conns -> Sids \cup {None}] /\ sent \in [Conns -> Nat]

InHand(c) == pc[c] \in {"uplink", "add"}

\* A session has its uplink when it comes into the pool; one that a connection has picked
\* is in the pool or closed.
Placed ==
    /\ \A s \in Pool : uplink[s] # "nil"
    /\ \A s \in Sids : s > started => uplink[s] = "nil"
    /\ \A s \in Sids : uplink[s] = "closed" => closed[s]
    /\ \A c \in Conns : pc[c] = "uplink" => uplink[sess[c]] = "nil"
    /\ \A c \in Conns : pc[c] = "add" => uplink[sess[c]] # "nil"
    /\ \A c \in Conns : InHand(c) => sess[c] <= started
    /\ \A c, d \in Conns : InHand(c) /\ InHand(d) /\ sess[c] = sess[d] => c = d
    /\ \A c \in Conns : pc[c] \in {"pin", "length", "data", "reader"} =>
                            closed[sess[c]] \/ sess[c] \in Pool

\* Where a connection is that session s has pinned.
MayBePinned(s, c) ==
    \/ pc[c] \in {"length", "data", "reader", "cdata", "unpin"} /\ sess[c] = s
    \/ pc[c] = "download" /\ ~closed[s]
    \/ pc[c] \in {"run", "close"}
    \/ pc[c] \in Gone /\ closed[s]

Pinned ==
    /\ \A s \in Sids, c \in Conns : readers[s][c] # None =>
           MayBePinned(s, c) /\ (closed[s] \/ s \in Pool)
    /\ \A c \in Conns : \A s, t \in Sids : readers[s][c] # None /\ readers[t][c] # None => s = t

\* A pipe that is read and open is in the table of a session.
Owned ==
    \A c \in Conns : reader[c] # None /\ ~ended[reader[c]] => \E s \in Sids : readers[s][c] = reader[c]

\* The connection's goroutine will come to maybeShrinkSessions.
WillShrink(c) ==
    \/ pc[c] \in {"download", "reader", "run", "close", "cdata", "unpin", "inactive", "shrink"}
    \/ pc[c] \in Early /\ why[c] = "download"

\* The connection is about to write its Connect frame to s.
WillConnect(c, s) == pc[c] \in {"pin", "length", "data"} /\ sess[c] = s

Looked ==
    \A i \in 1..Len(sessions) : i > 1 =>
        \/ closed[sessions[i]] \/ uplink[sessions[i]] = "broken"
        \/ \E c \in Conns : WillShrink(c) \/ WillConnect(c, sessions[i])

\* The connection has not written its Connect frame.
Connecting(c) == (pc[c] \in Early /\ why[c] = "connect") \/ pc[c] \in {"length", "data"}

\* The i-th frame on the downlink of s: it comes on the session of the Connect; a Close is
\* the last frame of its connection, and data finds a pipe.
FrameOK(s, i) ==
    LET c == down[s][i][1]
    IN  /\ srv[c] # "none" /\ home[c] = s
        /\ down[s][i][2] = 0 => /\ srv[c] = "ended"
                                /\ \A j \in 1..Len(down[s]) : j > i => down[s][j][1] # c
        /\ down[s][i][2] # 0 => readers[s][c] # None \/ closed[s] \/ pc[c] \in Gone

\* The pin is there before the frame that is answered, and stays until the end.
Answers ==
    /\ \A c \in Conns : Connecting(c) => srv[c] = "none"
    /\ \A c \in Conns : pc[c] \in {"length", "data"} => readers[sess[c]][c] # None \/ closed[sess[c]]
    /\ \A c \in Conns : srv[c] \in {"open", "ending"} =>
           /\ home[c] \in Sids
           /\ readers[home[c]][c] # None \/ closed[home[c]] \/ pc[c] \in Gone
    /\ \A s \in Sids : \A i \in 1..Len(down[s]) : FrameOK(s, i)

Inv == TypeOK /\ Placed /\ Pinned /\ Owned /\ Looked /\ NoOrphanSession /\ Answers

------------------------------------------------------------------------------
(* The constants, and the rank that maybeShrinkSessions keeps *)

LEMMA Consts ==
    /\ None \notin Sids /\ None \notin Pipes /\ None \notin Conns
    /\ IsFiniteSet(Conns) /\ MaxStarts \in Nat /\ MaxSessions \in Nat \ {0}
    /\ Sids \subseteq Nat /\ Busy \subseteq Conns
    /\ \A c \in Conns : <<c, "connect">> \in Pipes /\ <<c, "download">> \in Pipes
                        /\ <<c, "open">> \in Pipes
BY DpiSessionAssumption DEF Sids, Pipes

LEMMA LeastOf ==
    ASSUME NEW S \in SUBSET Nat, S # {}
    PROVE  \E x \in S : \A y \in S : x <= y
<1>1. PICK x \in S : \A y \in S : ~(<<y, x>> \in OpToRel(<, Nat))
  BY WFMin, NatLessThanWellFounded
<1>2. \A y \in S : ~(y < x)
  BY <1>1, Zenon DEF OpToRel
<1>3. \A y \in S : x <= y
  BY <1>2
<1> QED
  BY <1>3

Rank(K, i) == Cardinality({j \in K : j <= i})

\* The k-th element of a set of indices.
Nth(K, k) == CHOOSE i \in K : Rank(K, i) = k

LEMMA Ranks ==
    ASSUME NEW n \in Nat, NEW K \in SUBSET (1..n)
    PROVE  /\ IsFiniteSet(K) /\ Cardinality(K) \in Nat /\ Cardinality(K) <= n
           /\ \A k \in 1..Cardinality(K) : Nth(K, k) \in K /\ k <= Nth(K, k)
           /\ \A i \in K : \E k \in 1..Cardinality(K) : Nth(K, k) = i
<1> DEFINE R(i) == {j \in K : j <= i}
<1>1. IsFiniteSet(1..n) /\ Cardinality(1..n) = n
  BY FS_Interval
<1>2. IsFiniteSet(K) /\ Cardinality(K) \in Nat /\ Cardinality(K) <= n
  BY <1>1, FS_Subset, FS_CardinalityType
<1>3. ASSUME NEW i \in K
      PROVE  /\ IsFiniteSet(R(i)) /\ Rank(K, i) \in 1..Cardinality(K) /\ Rank(K, i) <= i
  <2>0. \A j \in K : j \in Nat /\ j >= 1
    OBVIOUS
  <2>1. R(i) \in SUBSET K /\ R(i) \in SUBSET (1..i) /\ i \in R(i) /\ i \in Nat /\ i >= 1
    <3>1. \A j \in R(i) : j \in 1..i
      BY <2>0
    <3>2. i <= i
      BY <2>0
    <3> QED
      BY <2>0, <3>1, <3>2
  <2>2. IsFiniteSet(R(i)) /\ Cardinality(R(i)) <= Cardinality(K) /\ Cardinality(R(i)) \in Nat
    BY <1>2, <2>1, FS_Subset, FS_CardinalityType
  <2>3. Cardinality(R(i)) # 0
    BY <2>1, <2>2, FS_EmptySet
  <2>4. IsFiniteSet(1..i) /\ Cardinality(1..i) = i
    BY <2>1, FS_Interval
  <2>5. Cardinality(R(i)) <= i
    BY <2>1, <2>4, FS_Subset
  <2> QED
    BY <1>2, <2>2, <2>3, <2>5 DEF Rank
<1>4. ASSUME NEW i \in K, NEW j \in K, i < j
      PROVE  Rank(K, i) # Rank(K, j)
  <2>0. i \in Nat /\ j \in Nat /\ \A k \in K : k \in Nat
    OBVIOUS
  <2>1. R(i) \in SUBSET R(j) /\ j \in R(j) /\ j \notin R(i)
    <3>1. \A k \in R(i) : k <= j
      BY <1>4, <2>0
    <3>2. j <= j /\ ~(j <= i)
      BY <1>4, <2>0
    <3> QED
      BY <3>1, <3>2
  <2>2. IsFiniteSet(R(j))
    BY <1>3
  <2> QED
    BY <2>1, <2>2, FS_Subset DEF Rank
<1>5. \A i, j \in K : Rank(K, i) = Rank(K, j) => i = j
  <2>1. \A i, j \in K : i # j => i < j \/ j < i
    OBVIOUS
  <2> QED
    BY <1>4, <2>1
<1> DEFINE f == [i \in K |-> Rank(K, i)]
<1>6. f \in Injection(K, 1..Cardinality(K))
  BY <1>3, <1>5, Fun_IsInj
<1>7. IsFiniteSet(1..Cardinality(K)) /\ Cardinality(1..Cardinality(K)) = Cardinality(K)
  BY <1>2, FS_Interval
<1>8. f \in Surjection(K, 1..Cardinality(K))
  BY <1>6, <1>7, FS_Injection
<1>9. \A k \in 1..Cardinality(K) : \E i \in K : Rank(K, i) = k
  BY <1>8 DEF Surjection
<1>10. \A k \in 1..Cardinality(K) : Nth(K, k) \in K /\ Rank(K, Nth(K, k)) = k
  BY <1>9 DEF Nth
<1>11. \A k \in 1..Cardinality(K) : k <= Nth(K, k)
  BY <1>3, <1>10
<1>12. \A i \in K : \E k \in 1..Cardinality(K) : Nth(K, k) = i
  BY <1>3, <1>5, <1>10
<1> QED
  BY <1>2, <1>10, <1>11, <1>12

------------------------------------------------------------------------------
(* The operations of a session *)

\* What close does to the sessions of S that are not closed yet.
Closing(S) ==
    /\ closed' \in [Sids -> BOOLEAN] /\ ended' \in [Pipes -> BOOLEAN]
    /\ uplink' \in [Sids -> {"nil", "open", "broken", "closed"}]
    /\ readers' \in [Sids -> [Conns -> Pipes \cup {None}]]
    /\ \A s \in Sids : closed'[s] <=> closed[s] \/ s \in S
    /\ \A s \in Sids : \/ uplink'[s] = uplink[s]
                       \/ closed'[s] /\ uplink[s] # "nil" /\ uplink'[s] = "closed"
    /\ \A s \in Sids, c \in Conns :
           \/ readers'[s][c] = readers[s][c] /\ (closed[s] \/ s \notin S)
           \/ /\ closed'[s] /\ s \in S /\ readers'[s][c] = None
              /\ readers[s][c] \in Pipes => ended'[readers[s][c]]
    /\ \A p \in Pipes : ended[p] => ended'[p]

LEMMA CloseAllFacts ==
    ASSUME TypeOK, NEW S \in SUBSET Sids, CloseAll(S)
    PROVE  Closing(S)
<1> USE DEF CloseAll
<1>1. closed' \in [Sids -> BOOLEAN] /\ \A s \in Sids : closed'[s] <=> closed[s] \/ s \in S
  BY DEF TypeOK
<1>2. ended' \in [Pipes -> BOOLEAN] /\ \A p \in Pipes : ended[p] => ended'[p]
  BY DEF TypeOK
<1>3. /\ uplink' \in [Sids -> {"nil", "open", "broken", "closed"}]
      /\ \A s \in Sids : \/ uplink'[s] = uplink[s]
                         \/ s \in S /\ uplink[s] # "nil" /\ uplink'[s] = "closed"
  BY DEF TypeOK
<1>4. readers' \in [Sids -> [Conns -> Pipes \cup {None}]]
  BY DEF TypeOK
<1>5. ASSUME NEW s \in Sids, NEW c \in Conns
      PROVE  \/ readers'[s][c] = readers[s][c] /\ (closed[s] \/ s \notin S)
             \/ /\ closed'[s] /\ s \in S /\ readers'[s][c] = None
                /\ readers[s][c] \in Pipes => ended'[readers[s][c]]
  <2>1. CASE closed[s] \/ s \notin S
    BY <2>1 DEF TypeOK
  <2>2. CASE ~closed[s] /\ s \in S
    <3>1. closed'[s] /\ readers'[s][c] = None
      BY <2>2 DEF TypeOK
    <3>2. readers[s][c] \in Pipes => ended'[readers[s][c]]
      BY <2>2 DEF TypeOK
    <3> QED
      BY <2>2, <3>1, <3>2
  <2> QED
    BY <2>1, <2>2
<1> QED
  BY <1>1, <1>2, <1>3, <1>4, <1>5 DEF Closing

LEMMA UnpinFacts ==
    ASSUME TypeOK, NEW s \in Sids, NEW c \in Conns, Unpin(s, c)
    PROVE  /\ ended' \in [Pipes -> BOOLEAN] /\ readers' \in [Sids -> [Conns -> Pipes \cup {None}]]
           /\ \A p \in Pipes : ended[p] => ended'[p]
           /\ readers'[s][c] = None
           /\ readers[s][c] \in Pipes => ended'[readers[s][c]]
           /\ \A t \in Sids, d \in Conns : t # s \/ d # c => readers'[t][d] = readers[t][d]
<1>1. ended' \in [Pipes -> BOOLEAN] /\ \A p \in Pipes : ended[p] => ended'[p]
  BY DEF TypeOK, Unpin
<1>2. readers[s][c] \in Pipes => ended'[readers[s][c]]
  BY DEF TypeOK, Unpin
<1>3. readers' \in [Sids -> [Conns -> Pipes \cup {None}]]
  BY DEF TypeOK, Unpin
<1>4. readers'[s][c] = None /\ \A t \in Sids, d \in Conns : t # s \/ d # c => readers'[t][d] = readers[t][d]
  BY DEF TypeOK, Unpin
<1> QED
  BY <1>1, <1>2, <1>3, <1>4

LEMMA PinFacts ==
    ASSUME TypeOK, NEW s \in Sids, NEW c \in Conns, NEW place \in {"connect", "download", "open"},
           Pin(s, c, place)
    PROVE  /\ readers' \in [Sids -> [Conns -> Pipes \cup {None}]]
           /\ readers'[s][c] # None
           /\ readers[s][c] # None => readers'[s][c] = readers[s][c]
           /\ \A t \in Sids, d \in Conns : t # s \/ d # c => readers'[t][d] = readers[t][d]
<1>1. <<c, place>> \in Pipes
  BY Consts
<1>2. <<c, place>> # None
  BY <1>1, Consts
<1> QED
  BY <1>1, <1>2 DEF TypeOK, Pin

\* sessionFor finds the session of the pool that has the connection pinned, if one has.
LEMMA SessionForFacts ==
    ASSUME TypeOK, NEW c \in Conns
    PROVE  /\ SessionFor(c) = None => \A s \in Pool : readers[s][c] = None
           /\ SessionFor(c) # None => /\ SessionFor(c) \in Sids /\ SessionFor(c) \in Pool
                                      /\ readers[SessionFor(c)][c] # None
<1> DEFINE I == {i \in 1..Len(sessions) : readers[sessions[i]][c] # None}
<1>1. \A i \in 1..Len(sessions) : sessions[i] \in Sids
  BY DEF TypeOK
<1>2. CASE I = {}
  <2>1. SessionFor(c) = None
    BY <1>2 DEF SessionFor
  <2>2. \A i \in 1..Len(sessions) : readers[sessions[i]][c] = None
    BY <1>2
  <2> QED
    BY <2>1, <2>2 DEF Pool
<1>3. CASE I # {}
  <2>1. I \in SUBSET Nat
    OBVIOUS
  <2>2. \E i \in I : \A j \in I : i <= j
    BY <1>3, <2>1, LeastOf
  <2>3. PICK i \in I : SessionFor(c) = sessions[i]
    BY <1>3, <2>2 DEF SessionFor
  <2>4. SessionFor(c) \in Sids /\ SessionFor(c) \in Pool /\ readers[SessionFor(c)][c] # None
    BY <1>1, <2>3 DEF Pool
  <2> QED
    BY <2>4, Consts
<1> QED
  BY <1>2, <1>3

LEMMA PinCountZero ==
    ASSUME TypeOK, NEW s \in Sids
    PROVE  PinCount(s) = 0 <=> \A c \in Conns : readers[s][c] = None
<1> DEFINE P == {c \in Conns : readers[s][c] # None}
<1>1. IsFiniteSet(P)
  BY Consts, FS_Subset
<1>2. Cardinality(P) = 0 <=> P = {}
  BY <1>1, FS_EmptySet
<1> QED
  BY <1>2 DEF PinCount

\* maybeShrinkSessions keeps the sessions that are open and pinned, and perhaps the first,
\* in their order; the others are closed.
LEMMA ShrinkFacts ==
    ASSUME TypeOK, NEW c \in Conns, MaybeShrinkSessions(c)
    PROVE  /\ \E S \in SUBSET Sids : Closing(S)
           /\ sessions' \in Seq(Sids)
           /\ \A k \in 1..Len(sessions') : \E i \in 1..Len(sessions) :
                  /\ sessions'[k] = sessions[i] /\ k <= i
                  /\ i > 1 => ~closed[sessions[i]] /\ \E d \in Conns : readers[sessions[i]][d] # None
           /\ \A i \in 1..Len(sessions) :
                  closed'[sessions[i]] \/ \E k \in 1..Len(sessions') : sessions'[k] = sessions[i]
<1>0. sessions \in Seq(Sids) /\ Len(sessions) \in Nat /\ \A i \in 1..Len(sessions) : sessions[i] \in Sids
  BY DEF TypeOK
<1>1. CASE Len(sessions) <= 1
  <2>1. UNCHANGED <<sessions, closed, uplink, readers, ended>>
    BY <1>1 DEF MaybeShrinkSessions
  <2>2. Closing({})
    BY <2>1 DEF Closing, TypeOK
  <2>3. \A i \in 1..Len(sessions) : ~(i > 1) /\ i <= i
    BY <1>0, <1>1
  <2> QED
    BY <1>0, <2>1, <2>2, <2>3
<1>2. CASE ~(Len(sessions) <= 1)
  <2> DEFINE idle(i) == i > 1 /\ PinCount(sessions[i]) = 0
             keep(i) == ~closed[sessions[i]] /\ ~idle(i)
             K == {i \in 1..Len(sessions) : keep(i)}
             S == {sessions[i] : i \in {j \in 1..Len(sessions) : idle(j)}}
             n == Cardinality(K)
  <2>1. sessions' = [k \in 1..n |-> sessions[Nth(K, k)]] /\ CloseAll(S)
    BY <1>2 DEF MaybeShrinkSessions, Nth, Rank
  <2>2. S \in SUBSET Sids
    BY <1>0
  <2>3. Closing(S)
    BY <2>1, <2>2, CloseAllFacts
  <2>4. K \in SUBSET (1..Len(sessions))
    OBVIOUS
  <2>5. /\ n \in Nat
        /\ \A k \in 1..n : Nth(K, k) \in K /\ k <= Nth(K, k)
        /\ \A i \in K : \E k \in 1..n : Nth(K, k) = i
    BY <1>0, <2>4, Ranks
  <2>6. sessions' \in Seq(Sids) /\ Len(sessions') = n
    <3>1. \A k \in 1..n : sessions[Nth(K, k)] \in Sids
      BY <1>0, <2>4, <2>5
    <3> HIDE DEF n, K
    <3>2. sessions' \in [1..n -> Sids] /\ n \in Nat
      BY <2>1, <2>5, <3>1
    <3> QED
      BY <3>2
  <2>7. ASSUME NEW k \in 1..n
        PROVE  \E i \in 1..Len(sessions) :
                  /\ sessions'[k] = sessions[i] /\ k <= i
                  /\ i > 1 => ~closed[sessions[i]] /\ \E d \in Conns : readers[sessions[i]][d] # None
    <3> DEFINE i == Nth(K, k)
    <3>1. i \in K /\ k <= i /\ sessions'[k] = sessions[i]
      BY <2>1, <2>5
    <3> HIDE DEF i
    <3>2. i \in 1..Len(sessions) /\ ~closed[sessions[i]] /\ (i > 1 => PinCount(sessions[i]) # 0)
      BY <3>1
    <3>3. i > 1 => \E d \in Conns : readers[sessions[i]][d] # None
      BY <1>0, <3>2, PinCountZero
    <3> QED
      BY <3>1, <3>2, <3>3
  <2>8. ASSUME NEW i \in 1..Len(sessions)
        PROVE  closed'[sessions[i]] \/ \E k \in 1..n : sessions'[k] = sessions[i]
    <3>1. CASE i \in K
      BY <2>1, <2>5, <3>1
    <3>2. CASE i \notin K
      <4>1. closed[sessions[i]] \/ sessions[i] \in S
        BY <3>2
      <4> QED
        BY <1>0, <2>3, <4>1 DEF Closing
    <3> QED
      BY <3>1, <3>2
  <2> QED
    BY <2>2, <2>3, <2>6, <2>7, <2>8
<1> QED
  BY <1>1, <1>2

------------------------------------------------------------------------------
(* What each step does to the variables of the invariant *)

coreVars == <<sessions, started, closed, uplink, readers, down, ended, pc, why, sess, reader,
              srv, home, sent>>
tableVars == <<sessions, started, closed, uplink, readers, ended>>
answerVars == <<down, srv, home, sent>>

\* The goroutine of c goes to l with session x at hand.
Moves(c, l, x) ==
    /\ pc'[c] = l /\ sess'[c] = x
    /\ \A d \in Conns \ {c} : pc'[d] = pc[d] /\ sess'[d] = sess[d]

LEMMA MoveFacts ==
    ASSUME TypeOK, NEW c \in Conns, NEW l \in Places, NEW x \in Sids \cup {None},
           Goto(c, l), sess' = [sess EXCEPT ![c] = x] \/ (sess' = sess /\ x = sess[c]),
           l \in WithSession => x \in Sids
    PROVE  FlowType' /\ Moves(c, l, x)
<1>1. FlowType
  BY DEF TypeOK
<1>2. pc' \in [Conns -> Places] /\ sess' \in [Conns -> Sids \cup {None}]
  BY <1>1 DEF FlowType, Goto
<1>3. Moves(c, l, x)
  BY <1>1 DEF FlowType, Goto, Moves
<1> QED
  BY <1>1, <1>2, <1>3 DEF FlowType, Moves

LEMMA PickFacts ==
    ASSUME TypeOK, NEW c \in Conns, PickSession(c)
    PROVE  /\ TypeOK' /\ pc[c] = "pick" /\ UNCHANGED <<tableVars, answerVars, why, reader>>
           /\ \/ Moves(c, "start", sess[c])
              \/ \E s \in Sids : Moves(c, "pin", s) /\ s \in Pool
<1> USE DEF poolVars, sessVars, demuxVars, pipeVars, srvVars, tableVars, answerVars
<1>1. /\ pc[c] = "pick" /\ UNCHANGED <<tableVars, answerVars, why, reader>>
      /\ \/ Goto(c, "start") /\ sess' = sess
         \/ Goto(c, "pin") /\ \E i \in 1..Len(sessions) : sess' = [sess EXCEPT ![c] = sessions[i]]
  BY DEF PickSession
<1>2. CASE Goto(c, "start") /\ sess' = sess
  <2>1. sess[c] \in Sids \cup {None} /\ "start" \in Places /\ "start" \notin WithSession
    BY DEF TypeOK, FlowType, Places, Early, WithSession
  <2>2. FlowType' /\ Moves(c, "start", sess[c])
    BY <1>2, <2>1, MoveFacts
  <2> QED
    BY <1>1, <2>2 DEF TypeOK
<1>3. ASSUME NEW i \in 1..Len(sessions), Goto(c, "pin"), sess' = [sess EXCEPT ![c] = sessions[i]]
      PROVE  TypeOK' /\ \E s \in Sids : Moves(c, "pin", s) /\ s \in Pool
  <2>1. sessions[i] \in Sids /\ sessions[i] \in Pool /\ "pin" \in Places
    BY DEF TypeOK, Places, Early, Pool
  <2>2. FlowType' /\ Moves(c, "pin", sessions[i])
    BY <1>3, <2>1, MoveFacts
  <2> QED
    BY <1>1, <2>1, <2>2 DEF TypeOK
<1> QED
  BY <1>1, <1>2, <1>3

LEMMA StartFacts ==
    ASSUME TypeOK, NEW c \in Conns, StartSession(c)
    PROVE  /\ TypeOK' /\ pc[c] = "start" /\ Moves(c, "uplink", started + 1)
           /\ started + 1 \in Sids /\ started' = started + 1
           /\ UNCHANGED <<sessions, closed, uplink, readers, ended, answerVars, why, reader>>
<1> USE DEF poolVars, sessVars, demuxVars, pipeVars, srvVars, answerVars
<1>1. started + 1 \in Sids /\ started' \in 0..MaxStarts
  BY Consts DEF StartSession, TypeOK, Sids
<1>2. FlowType' /\ Moves(c, "uplink", started + 1)
  <2>1. "uplink" \in Places
    BY DEF Places, Early
  <2> QED
    BY <1>1, <2>1, MoveFacts DEF StartSession
<1> QED
  BY <1>1, <1>2 DEF StartSession, TypeOK

LEMMA StartFailsFacts ==
    ASSUME TypeOK, NEW c \in Conns, StartFails(c)
    PROVE  /\ TypeOK' /\ pc[c] = "start" /\ UNCHANGED <<tableVars, answerVars, why, reader>>
           /\ Moves(c, IF why[c] = "connect" THEN "done" ELSE "close", sess[c])
<1> USE DEF poolVars, sessVars, demuxVars, pipeVars, srvVars, tableVars, answerVars
<1> DEFINE l == IF why[c] = "connect" THEN "done" ELSE "close"
<1>1. l \in Places /\ l \notin WithSession /\ sess[c] \in Sids \cup {None}
  BY DEF Places, Gone, WithSession, TypeOK, FlowType
<1>2. FlowType' /\ Moves(c, l, sess[c])
  BY <1>1, MoveFacts DEF StartFails
<1> QED
  BY <1>2 DEF StartFails, TypeOK

LEMMA StartUplinkFacts ==
    ASSUME TypeOK, NEW c \in Conns, StartUplink(c)
    PROVE  /\ TypeOK' /\ pc[c] = "uplink" /\ Moves(c, "add", sess[c]) /\ sess[c] \in Sids
           /\ uplink'[sess[c]] = "open"
           /\ \A s \in Sids \ {sess[c]} : uplink'[s] = uplink[s]
           /\ UNCHANGED <<sessions, started, closed, readers, ended, answerVars, why, reader>>
<1> USE DEF poolVars, demuxVars, pipeVars, srvVars, answerVars
<1>1. "add" \in Places /\ sess[c] \in Sids
  BY DEF StartUplink, Places, Early, TypeOK, FlowType, WithSession
<1>2. FlowType' /\ Moves(c, "add", sess[c])
  BY <1>1, MoveFacts DEF StartUplink
<1> QED
  BY <1>1, <1>2 DEF StartUplink, TypeOK

LEMMA AddFacts ==
    ASSUME TypeOK, NEW c \in Conns, AddSession(c)
    PROVE  /\ TypeOK' /\ pc[c] = "add" /\ sess[c] \in Sids
           /\ UNCHANGED <<started, answerVars, why, reader>>
           /\ \/ /\ Closing({sess[c]}) /\ sessions' = sessions
                 /\ \E s \in Sids : Moves(c, "pin", s) /\ s \in Pool /\ ~closed[s]
              \/ /\ Len(sessions) < MaxSessions \/ Live = {}
                 /\ sessions' = Append(sessions, sess[c]) /\ Moves(c, "pin", sess[c])
                 /\ UNCHANGED <<closed, uplink, readers, ended>>
<1> USE DEF demuxVars, srvVars, answerVars
<1>1. pc[c] = "add" /\ Goto(c, "pin") /\ UNCHANGED <<started, answerVars, why, reader>>
  BY DEF AddSession
<1>2. sess[c] \in Sids /\ "pin" \in Places
  BY <1>1 DEF TypeOK, FlowType, WithSession, Places, Early
<1>3. CASE Len(sessions) >= MaxSessions /\ Live # {}
  <2>1. PICK i \in 1..Len(sessions) : ~closed[sessions[i]] /\ sess' = [sess EXCEPT ![c] = sessions[i]]
    BY <1>3 DEF AddSession
  <2>2. CloseAll({sess[c]}) /\ sessions' = sessions
    BY <1>3 DEF AddSession
  <2>3. sessions[i] \in Sids /\ sessions[i] \in Pool
    BY DEF TypeOK, Pool
  <2>4. FlowType' /\ Moves(c, "pin", sessions[i])
    BY <1>1, <1>2, <2>1, <2>3, MoveFacts
  <2>5. Closing({sess[c]})
    BY <1>2, <2>2, CloseAllFacts
  <2>6. TypeOK'
    BY <1>1, <2>2, <2>4, <2>5 DEF TypeOK, Closing
  <2> QED
    BY <1>1, <1>2, <2>1, <2>2, <2>3, <2>4, <2>5, <2>6
<1>4. CASE ~(Len(sessions) >= MaxSessions /\ Live # {})
  <2>1. sessions' = Append(sessions, sess[c]) /\ UNCHANGED <<sess, closed, uplink, readers, ended>>
    BY <1>4 DEF AddSession
  <2>2. FlowType' /\ Moves(c, "pin", sess[c])
    BY <1>1, <1>2, <2>1, MoveFacts
  <2>3. sessions' \in Seq(Sids) /\ Len(sessions) \in Nat
    BY <1>2, <2>1 DEF TypeOK
  <2>4. TypeOK'
    BY <1>1, <2>1, <2>2, <2>3 DEF TypeOK
  <2>5. Len(sessions) < MaxSessions \/ Live = {}
    BY <1>4, <2>3, Consts
  <2> QED
    BY <1>1, <1>2, <2>1, <2>2, <2>4, <2>5
<1> QED
  BY <1>3, <1>4

\* Session s, where c is now pinned; nothing else changes in the tables.
PinnedTo(s, c) ==
    /\ readers'[s][c] # None /\ (readers[s][c] # None => readers'[s][c] = readers[s][c])
    /\ \A t \in Sids, d \in Conns : t # s \/ d # c => readers'[t][d] = readers[t][d]

LEMMA PinConnFacts ==
    ASSUME TypeOK, NEW c \in Conns, PinConn(c)
    PROVE  /\ TypeOK' /\ pc[c] = "pin" /\ sess[c] \in Sids /\ PinnedTo(sess[c], c)
           /\ Moves(c, IF why[c] = "connect" THEN "length" ELSE "reader", sess[c])
           /\ UNCHANGED <<sessions, started, closed, uplink, ended, answerVars, why, reader>>
<1> USE DEF poolVars, demuxVars, pipeVars, srvVars, answerVars
<1> DEFINE l == IF why[c] = "connect" THEN "length" ELSE "reader"
<1>1. l \in Places /\ sess[c] \in Sids /\ why[c] \in {"connect", "download", "open"}
  BY DEF PinConn, TypeOK, FlowType, WithSession, Places
<1>2. FlowType' /\ Moves(c, l, sess[c])
  BY <1>1, MoveFacts DEF PinConn
<1>3. readers' \in [Sids -> [Conns -> Pipes \cup {None}]] /\ PinnedTo(sess[c], c)
  BY <1>1, PinFacts DEF PinConn, PinnedTo
<1> QED
  BY <1>1, <1>2, <1>3 DEF PinConn, TypeOK

LEMMA ReaderFacts ==
    ASSUME TypeOK, NEW c \in Conns, OpenConnReader(c)
    PROVE  /\ TypeOK' /\ pc[c] = "reader" /\ sess[c] \in Sids /\ PinnedTo(sess[c], c)
           /\ Moves(c, "run", None) /\ reader'[c] = readers'[sess[c]][c]
           /\ \A d \in Conns \ {c} : reader'[d] = reader[d]
           /\ UNCHANGED <<sessions, started, closed, uplink, ended, answerVars, why>>
<1> USE DEF poolVars, demuxVars, pipeVars, srvVars, answerVars
<1>1. "run" \in Places /\ "run" \notin WithSession /\ sess[c] \in Sids
  BY DEF OpenConnReader, TypeOK, FlowType, WithSession, Places
<1>2. FlowType' /\ Moves(c, "run", None)
  BY <1>1, MoveFacts DEF OpenConnReader
<1>3. readers' \in [Sids -> [Conns -> Pipes \cup {None}]] /\ PinnedTo(sess[c], c)
  BY <1>1, PinFacts DEF OpenConnReader, PinnedTo
<1>4. reader' = [reader EXCEPT ![c] = readers'[sess[c]][c]]
  BY DEF OpenConnReader
<1>5. reader' \in [Conns -> Pipes \cup {None}]
  BY <1>1, <1>3, <1>4 DEF TypeOK
<1> QED
  BY <1>1, <1>2, <1>3, <1>4, <1>5 DEF OpenConnReader, TypeOK

LEMMA DownloadFacts ==
    ASSUME TypeOK, NEW c \in Conns, DownloadStream(c)
    PROVE  /\ TypeOK' /\ pc[c] = "download" /\ UNCHANGED <<tableVars, answerVars, reader>>
           /\ why'[c] = "download" /\ \A d \in Conns \ {c} : why'[d] = why[d]
           /\ \/ Moves(c, "pick", sess[c]) /\ \A s \in Pool : readers[s][c] = None
              \/ \E s \in Sids : Moves(c, "reader", s) /\ readers[s][c] # None /\ s \in Pool
<1> USE DEF poolVars, sessVars, demuxVars, pipeVars, srvVars, tableVars, answerVars
<1>1. /\ pc[c] = "download" /\ UNCHANGED <<tableVars, answerVars, reader>>
      /\ why' = [why EXCEPT ![c] = "download"]
  BY DEF DownloadStream
<1>2. /\ why' \in [Conns -> {"connect", "download"}] /\ why'[c] = "download"
      /\ \A d \in Conns \ {c} : why'[d] = why[d]
  BY <1>1 DEF TypeOK
<1>3. CASE SessionFor(c) = None
  <2>1. sess[c] \in Sids \cup {None} /\ "pick" \in Places /\ "pick" \notin WithSession
    BY DEF TypeOK, FlowType, Places, Early, WithSession
  <2>2. FlowType' /\ Moves(c, "pick", sess[c])
    BY <1>3, <2>1, MoveFacts DEF DownloadStream
  <2> QED
    BY <1>1, <1>2, <1>3, <2>2, SessionForFacts DEF TypeOK
<1>4. CASE SessionFor(c) # None
  <2>1. /\ SessionFor(c) \in Sids /\ SessionFor(c) \in Pool /\ readers[SessionFor(c)][c] # None
        /\ "reader" \in Places
    BY <1>4, SessionForFacts DEF Places
  <2>2. FlowType' /\ Moves(c, "reader", SessionFor(c))
    BY <1>4, <2>1, MoveFacts DEF DownloadStream
  <2> QED
    BY <1>1, <1>2, <2>1, <2>2 DEF TypeOK
<1> QED
  BY <1>3, <1>4

\* The pin of c in session s is taken away and its pipe closed; the rest stays.
Unpinned(s, c) ==
    /\ readers'[s][c] = None /\ (readers[s][c] \in Pipes => ended'[readers[s][c]])
    /\ \A t \in Sids, d \in Conns : t # s \/ d # c => readers'[t][d] = readers[t][d]
    /\ \A p \in Pipes : ended[p] => ended'[p]

LEMMA ConnectFacts ==
    ASSUME TypeOK, NEW c \in Conns, ConnectWrites(c)
    PROVE  /\ TypeOK' /\ pc[c] \in {"length", "data"} /\ sess[c] \in Sids
           /\ UNCHANGED <<sessions, started, closed, uplink, down, sent, why, reader>>
           /\ \/ /\ ~CanWrite(sess[c]) /\ Unpinned(sess[c], c) /\ Moves(c, "done", None)
                 /\ UNCHANGED <<srv, home>>
              \/ /\ CanWrite(sess[c]) /\ Moves(c, "data", sess[c])
                 /\ UNCHANGED <<readers, ended, srv, home>>
              \/ /\ CanWrite(sess[c]) /\ Moves(c, "download", None)
                 /\ UNCHANGED <<readers, ended>>
                 /\ \/ srv'[c] = "open" /\ home'[c] = sess[c]
                    \/ srv'[c] = srv[c] /\ home'[c] = home[c]
                 /\ \A d \in Conns \ {c} : srv'[d] = srv[d] /\ home'[d] = home[d]
<1> USE DEF poolVars, demuxVars, srvVars
<1>1. /\ pc[c] \in {"length", "data"} /\ sess[c] \in Sids
      /\ UNCHANGED <<sessions, started, closed, uplink, down, sent, why, reader>>
  BY DEF ConnectWrites, TypeOK, FlowType, WithSession
<1>2. /\ {"done", "data", "download"} \subseteq Places
      /\ "done" \notin WithSession /\ "download" \notin WithSession
  BY DEF Places, Gone, WithSession
<1>3. CASE /\ ~CanWrite(sess[c]) /\ Unpin(sess[c], c) /\ Goto(c, "done")
           /\ sess' = [sess EXCEPT ![c] = None] /\ UNCHANGED <<srv, home>>
  <2>1. FlowType' /\ Moves(c, "done", None)
    BY <1>2, <1>3, MoveFacts
  <2>2. /\ readers' \in [Sids -> [Conns -> Pipes \cup {None}]] /\ ended' \in [Pipes -> BOOLEAN]
        /\ Unpinned(sess[c], c)
    BY <1>1, <1>3, UnpinFacts DEF Unpinned
  <2>3. TypeOK'
    BY <1>1, <1>3, <2>1, <2>2 DEF TypeOK
  <2> QED
    BY <1>1, <1>3, <2>1, <2>2, <2>3
<1>4. CASE /\ CanWrite(sess[c]) /\ Goto(c, "data") /\ sess' = sess
           /\ UNCHANGED <<readers, ended, srv, home>>
  <2>1. FlowType' /\ Moves(c, "data", sess[c])
    BY <1>1, <1>2, <1>4, MoveFacts
  <2>2. TypeOK'
    BY <1>1, <1>4, <2>1 DEF TypeOK
  <2> QED
    BY <1>1, <1>4, <2>1, <2>2
<1>5. CASE /\ CanWrite(sess[c]) /\ Goto(c, "download") /\ sess' = [sess EXCEPT ![c] = None]
           /\ UNCHANGED <<readers, ended>>
           /\ srv' = [srv EXCEPT ![c] = IF wire[sess[c]] = c THEN "open" ELSE srv[c]]
           /\ home' = [home EXCEPT ![c] = IF wire[sess[c]] = c THEN sess[c] ELSE home[c]]
  <2>1. FlowType' /\ Moves(c, "download", None)
    BY <1>2, <1>5, MoveFacts
  <2>2. /\ srv' \in [Conns -> {"none", "open", "ending", "ended"}]
        /\ home' \in [Conns -> Sids \cup {None}]
    BY <1>1, <1>5 DEF TypeOK
  <2>3. /\ \/ srv'[c] = "open" /\ home'[c] = sess[c]
           \/ srv'[c] = srv[c] /\ home'[c] = home[c]
        /\ \A d \in Conns \ {c} : srv'[d] = srv[d] /\ home'[d] = home[d]
    BY <1>5 DEF TypeOK
  <2>4. TypeOK'
    BY <1>1, <1>5, <2>1, <2>2 DEF TypeOK
  <2> QED
    BY <1>1, <1>5, <2>1, <2>3, <2>4
<1> QED
  BY <1>3, <1>4, <1>5 DEF ConnectWrites

LEMMA CloseConnFacts ==
    ASSUME TypeOK, NEW c \in Conns, CloseWrites(c)
    PROVE  /\ TypeOK' /\ pc[c] \in {"close", "cdata", "unpin"}
           /\ UNCHANGED <<sessions, started, closed, uplink, down, home, sent, why, reader>>
           /\ srv'[c] = srv[c] \/ (srv[c] = "open" /\ srv'[c] = "ending")
           /\ \A d \in Conns \ {c} : srv'[d] = srv[d]
           /\ \/ /\ pc[c] = "close" /\ Moves(c, "inactive", sess[c]) /\ UNCHANGED <<readers, ended>>
                 /\ \A s \in Pool : readers[s][c] = None
              \/ /\ UNCHANGED <<readers, ended>>
                 /\ \E s \in Sids, l \in {"cdata", "unpin"} : Moves(c, l, s) /\
                       \/ pc[c] = "close" /\ readers[s][c] # None
                       \/ pc[c] = "cdata" /\ s = sess[c]
              \/ /\ pc[c] = "unpin" /\ sess[c] \in Sids /\ Unpinned(sess[c], c)
                 /\ Moves(c, "inactive", None)
<1> USE Consts DEF poolVars, demuxVars, srvVars
<1> DEFINE s == IF pc[c] = "close" THEN SessionFor(c) ELSE sess[c]
<1>1. /\ pc[c] \in {"close", "cdata", "unpin"}
      /\ UNCHANGED <<sessions, started, closed, uplink, down, home, sent, why, reader>>
      /\ \/ srv' = srv
         \/ srv' = [srv EXCEPT ![c] = IF wire[s] = c /\ srv[c] = "open" THEN "ending" ELSE srv[c]]
  BY DEF CloseWrites
<1>2. /\ srv' \in [Conns -> {"none", "open", "ending", "ended"}]
      /\ srv'[c] = srv[c] \/ (srv[c] = "open" /\ srv'[c] = "ending")
      /\ \A d \in Conns \ {c} : srv'[d] = srv[d]
  BY <1>1 DEF TypeOK
<1>3. /\ {"cdata", "unpin", "inactive"} \subseteq Places /\ "inactive" \notin WithSession
      /\ {"cdata", "unpin"} \subseteq WithSession
  BY DEF Places, Gone, WithSession
<1>4. /\ pc[c] # "close" => s = sess[c] /\ s \in Sids /\ s # None
      /\ pc[c] = "close" /\ s # None => s \in Sids /\ readers[s][c] # None
      /\ pc[c] = "close" /\ s = None => \A t \in Pool : readers[t][c] = None
      /\ sess[c] \in Sids \cup {None}
  BY <1>1, <1>3, SessionForFacts DEF TypeOK, FlowType
<1>5. \/ s = None /\ Goto(c, "inactive") /\ UNCHANGED <<sess, readers, ended>>
      \/ /\ sess' = [sess EXCEPT ![c] = s] \/ (sess' = sess /\ s = sess[c])
         /\ Goto(c, "cdata") \/ Goto(c, "unpin")
         /\ pc[c] # "unpin" /\ s # None /\ UNCHANGED <<readers, ended>>
      \/ /\ s # None /\ pc[c] = "unpin" /\ Unpin(s, c) /\ Goto(c, "inactive")
         /\ sess' = [sess EXCEPT ![c] = None]
  BY <1>4 DEF CloseWrites
<1> HIDE DEF s
<1>6. CASE s = None /\ Goto(c, "inactive") /\ UNCHANGED <<sess, readers, ended>>
  <2>1. FlowType' /\ Moves(c, "inactive", sess[c]) /\ pc[c] = "close"
    BY <1>3, <1>4, <1>6, MoveFacts
  <2>2. TypeOK'
    BY <1>1, <1>2, <1>6, <2>1 DEF TypeOK
  <2> QED
    BY <1>1, <1>2, <1>4, <1>6, <2>1, <2>2
<1>7. ASSUME NEW l \in {"cdata", "unpin"}, Goto(c, l), s # None, pc[c] # "unpin",
             sess' = [sess EXCEPT ![c] = s] \/ (sess' = sess /\ s = sess[c]),
             UNCHANGED <<readers, ended>>
      PROVE  /\ TypeOK' /\ s \in Sids /\ Moves(c, l, s)
             /\ \/ pc[c] = "close" /\ readers[s][c] # None
                \/ pc[c] = "cdata" /\ s = sess[c]
  <2>1. s \in Sids /\ l \in Places
    BY <1>1, <1>3, <1>4, <1>7
  <2>2. FlowType' /\ Moves(c, l, s)
    BY <1>7, <2>1, MoveFacts
  <2>3. TypeOK'
    BY <1>1, <1>2, <1>7, <2>2 DEF TypeOK
  <2> QED
    BY <1>1, <1>4, <1>7, <2>1, <2>2, <2>3
<1>8. CASE /\ s # None /\ pc[c] = "unpin" /\ Unpin(s, c) /\ Goto(c, "inactive")
           /\ sess' = [sess EXCEPT ![c] = None]
  <2>1. FlowType' /\ Moves(c, "inactive", None) /\ s \in Sids /\ s = sess[c]
    BY <1>3, <1>4, <1>8, MoveFacts
  <2>2. /\ readers' \in [Sids -> [Conns -> Pipes \cup {None}]] /\ ended' \in [Pipes -> BOOLEAN]
        /\ Unpinned(s, c)
    BY <1>8, <2>1, UnpinFacts DEF Unpinned
  <2>3. TypeOK'
    BY <1>1, <1>2, <2>1, <2>2 DEF TypeOK
  <2> QED
    BY <1>1, <1>2, <1>8, <2>1, <2>2, <2>3
<1> QED
  BY <1>1, <1>2, <1>5, <1>6, <1>7, <1>8

LEMMA RunFacts ==
    ASSUME TypeOK, NEW c \in Conns, Close(c) \/ Inactive(c)
    PROVE  /\ TypeOK' /\ UNCHANGED <<tableVars, answerVars, why, reader>>
           /\ \/ pc[c] = "run" /\ Moves(c, "close", sess[c])
              \/ pc[c] = "inactive" /\ Moves(c, "shrink", sess[c])
<1> USE DEF poolVars, sessVars, demuxVars, pipeVars, srvVars, tableVars, answerVars
<1>1. /\ {"close", "shrink"} \subseteq Places /\ "close" \notin WithSession
      /\ "shrink" \notin WithSession /\ sess[c] \in Sids \cup {None}
  BY DEF Places, Gone, WithSession, TypeOK, FlowType
<1>2. /\ UNCHANGED <<tableVars, answerVars, why, reader, sess>>
      /\ (pc[c] = "run" /\ Goto(c, "close")) \/ (pc[c] = "inactive" /\ Goto(c, "shrink"))
  BY DEF Close, Inactive
<1>3. /\ FlowType'
      /\ \/ pc[c] = "run" /\ Moves(c, "close", sess[c])
         \/ pc[c] = "inactive" /\ Moves(c, "shrink", sess[c])
  BY <1>1, <1>2, MoveFacts
<1> QED
  BY <1>2, <1>3 DEF TypeOK

LEMMA ShrinkMoves ==
    ASSUME TypeOK, NEW c \in Conns, MaybeShrinkSessions(c)
    PROVE  /\ TypeOK' /\ pc[c] = "shrink" /\ Moves(c, "done", sess[c])
           /\ UNCHANGED <<started, answerVars, why, reader>>
<1> USE DEF demuxVars, srvVars, answerVars
<1>1. /\ pc[c] = "shrink" /\ Goto(c, "done") /\ UNCHANGED <<started, answerVars, why, reader, sess>>
  BY DEF MaybeShrinkSessions
<1>2. "done" \in Places /\ "done" \notin WithSession /\ sess[c] \in Sids \cup {None}
  BY DEF Places, Gone, WithSession, TypeOK, FlowType
<1>3. FlowType' /\ Moves(c, "done", sess[c])
  BY <1>1, <1>2, MoveFacts
<1>4. PICK S \in SUBSET Sids : Closing(S)
  BY ShrinkFacts
<1>5. sessions' \in Seq(Sids)
  BY ShrinkFacts
<1> QED
  BY <1>1, <1>3, <1>4, <1>5 DEF Closing, TypeOK

LEMMA ReadFacts ==
    ASSUME TypeOK, NEW c \in Conns, Read(c)
    PROVE  /\ TypeOK' /\ UNCHANGED <<tableVars, answerVars, pc, why, sess>>
           /\ \A d \in Conns : reader'[d] = reader[d] \/ reader'[d] = None
BY DEF Read, TypeOK, FlowType, poolVars, sessVars, demuxVars, flowVars, srvVars, tableVars, answerVars

\* The frame n of the target of c is on its way down.
LEMMA ServerFacts ==
    ASSUME TypeOK, NEW c \in Conns, ServerSends(c), home[c] \in Sids
    PROVE  /\ TypeOK' /\ srv[c] \in {"open", "ending"}
           /\ UNCHANGED <<tableVars, home, pc, why, sess, reader>>
           /\ \A d \in Conns \ {c} : srv'[d] = srv[d]
           /\ \E n \in Nat : /\ down'[home[c]] = Append(down[home[c]], <<c, n>>)
                             /\ \A s \in Sids \ {home[c]} : down'[s] = down[s]
                             /\ \/ n # 0 /\ srv'[c] = srv[c]
                                \/ n = 0 /\ srv'[c] = "ended"
<1> USE DEF poolVars, sessVars, pipeVars, flowVars, tableVars
<1>1. srv[c] \in {"open", "ending"} /\ UNCHANGED <<tableVars, home, pc, why, sess, reader>>
  BY DEF ServerSends
<1>2. sent[c] \in Nat /\ sent[c] + 1 \in Nat /\ sent[c] + 1 # 0
  BY DEF TypeOK
<1>3. \E n \in Nat : /\ down' = [down EXCEPT ![home[c]] = Append(down[home[c]], <<c, n>>)]
                     /\ \/ n # 0 /\ srv' = srv /\ sent' = [sent EXCEPT ![c] = sent[c] + 1]
                        \/ n = 0 /\ srv' = [srv EXCEPT ![c] = "ended"] /\ sent' = sent
  BY <1>2 DEF ServerSends
<1>4. PICK n \in Nat : /\ down' = [down EXCEPT ![home[c]] = Append(down[home[c]], <<c, n>>)]
                       /\ \/ n # 0 /\ srv' = srv /\ sent' = [sent EXCEPT ![c] = sent[c] + 1]
                          \/ n = 0 /\ srv' = [srv EXCEPT ![c] = "ended"] /\ sent' = sent
  BY <1>3
<1>5. /\ srv' \in [Conns -> {"none", "open", "ending", "ended"}]
      /\ \A d \in Conns \ {c} : srv'[d] = srv[d]
      /\ (n # 0 /\ srv'[c] = srv[c]) \/ (n = 0 /\ srv'[c] = "ended")
  BY <1>4 DEF TypeOK
<1>6. sent' \in [Conns -> Nat]
  BY <1>2, <1>4 DEF TypeOK
<1>7. Append(down[home[c]], <<c, n>>) \in Seq(Conns \X Nat)
  <2>1. <<c, n>> \in Conns \X Nat
    OBVIOUS
  <2> QED
    BY <2>1 DEF TypeOK
<1>8. /\ down' \in [Sids -> Seq(Conns \X Nat)]
      /\ down'[home[c]] = Append(down[home[c]], <<c, n>>)
      /\ \A s \in Sids \ {home[c]} : down'[s] = down[s]
  BY <1>4, <1>7 DEF TypeOK
<1>9. TypeOK'
  BY <1>1, <1>5, <1>6, <1>8 DEF TypeOK, FlowType
<1> QED
  BY <1>1, <1>5, <1>8, <1>9

LEMMA DemuxFacts ==
    ASSUME TypeOK, NEW s \in Sids, DemuxFrame(s)
    PROVE  /\ TypeOK' /\ down[s] # <<>> /\ down'[s] = Tail(down[s])
           /\ \A t \in Sids \ {s} : down'[t] = down[t]
           /\ UNCHANGED <<sessions, started, closed, uplink, pc, why, sess, reader, srv, home, sent>>
           /\ \/ UNCHANGED <<readers, ended>>
              \/ /\ Head(down[s])[1] \in Conns /\ Head(down[s])[2] = 0
                 /\ Unpinned(s, Head(down[s])[1])
<1> USE DEF poolVars, flowVars, srvVars
<1>1. /\ down[s] # <<>> /\ down' = [down EXCEPT ![s] = Tail(down[s])]
      /\ UNCHANGED <<sessions, started, closed, uplink, pc, why, sess, reader, srv, home, sent>>
      /\ \/ UNCHANGED <<readers, ended>>
         \/ Unpin(s, Head(down[s])[1]) /\ Head(down[s])[2] = 0
  BY DEF DemuxFrame
<1>2. down[s] \in Seq(Conns \X Nat)
  BY DEF TypeOK
<1>3. Head(down[s]) \in Conns \X Nat /\ Tail(down[s]) \in Seq(Conns \X Nat)
  BY <1>1, <1>2
<1>4. Head(down[s])[1] \in Conns
  BY <1>3
<1>5. /\ down' \in [Sids -> Seq(Conns \X Nat)] /\ down'[s] = Tail(down[s])
      /\ \A t \in Sids \ {s} : down'[t] = down[t]
  BY <1>1, <1>3 DEF TypeOK
<1>6. CASE UNCHANGED <<readers, ended>>
  <2>1. TypeOK'
    BY <1>1, <1>5, <1>6 DEF TypeOK, FlowType
  <2> QED
    BY <1>1, <1>5, <1>6, <2>1
<1>7. CASE Unpin(s, Head(down[s])[1]) /\ Head(down[s])[2] = 0
  <2>1. /\ readers' \in [Sids -> [Conns -> Pipes \cup {None}]] /\ ended' \in [Pipes -> BOOLEAN]
        /\ Unpinned(s, Head(down[s])[1])
    BY <1>4, <1>7, UnpinFacts DEF Unpinned
  <2>2. TypeOK'
    BY <1>1, <1>5, <2>1 DEF TypeOK, FlowType
  <2> QED
    BY <1>1, <1>4, <1>5, <1>7, <2>1, <2>2
<1> QED
  BY <1>1, <1>6, <1>7

LEMMA EndsFacts ==
    ASSUME TypeOK, NEW s \in Sids, DemuxEnds(s) \/ UplinkEnds(s)
    PROVE  /\ TypeOK' /\ Closing({s})
           /\ UNCHANGED <<sessions, started, answerVars, pc, why, sess, reader>>
<1> USE DEF poolVars, demuxVars, flowVars, srvVars, answerVars
<1>1. CloseAll({s}) /\ UNCHANGED <<sessions, started, answerVars, pc, why, sess, reader>>
  BY DEF DemuxEnds, UplinkEnds
<1>2. Closing({s})
  BY <1>1, CloseAllFacts
<1> QED
  BY <1>1, <1>2 DEF TypeOK, FlowType, Closing

LEMMA BreaksFacts ==
    ASSUME TypeOK, NEW s \in Sids, UplinkBreaks(s)
    PROVE  /\ TypeOK' /\ uplink[s] = "open" /\ uplink'[s] = "broken"
           /\ \A t \in Sids \ {s} : uplink'[t] = uplink[t]
           /\ UNCHANGED <<sessions, started, closed, readers, ended, answerVars, pc, why, sess, reader>>
BY DEF UplinkBreaks, TypeOK, FlowType, poolVars, demuxVars, pipeVars, flowVars, srvVars, answerVars

LEMMA QuietFacts ==
    ASSUME \/ UNCHANGED vars
           \/ \E c \in Conns : SendData(c)
           \/ \E s \in Sids : Deliver(s)
    PROVE  UNCHANGED coreVars
BY DEF SendData, Deliver, vars, coreVars, poolVars, sessVars, demuxVars, pipeVars, flowVars, srvVars

------------------------------------------------------------------------------
(* What no step undoes *)

Monotone ==
    /\ \A s \in Sids : closed[s] => closed'[s]
    /\ \A p \in Pipes : ended[p] => ended'[p]
    /\ \A s \in Pool : closed'[s] \/ s \in Pool'

LEMMA PoolInSids ==
    ASSUME TypeOK
    PROVE  Pool \subseteq Sids
BY DEF TypeOK, Pool

\* A session joins the pool at its end.
LEMMA PoolAppend ==
    ASSUME TypeOK, NEW s \in Sids, sessions' = Append(sessions, s)
    PROVE  /\ Len(sessions') = Len(sessions) + 1 /\ Len(sessions) \in Nat
           /\ \A i \in 1..Len(sessions) : sessions'[i] = sessions[i]
           /\ sessions'[Len(sessions) + 1] = s
           /\ Pool' = Pool \cup {s}
<1>1. sessions \in Seq(Sids)
  BY DEF TypeOK
<1>2. /\ Len(sessions') = Len(sessions) + 1 /\ Len(sessions) \in Nat
      /\ \A i \in 1..Len(sessions) : sessions'[i] = sessions[i]
      /\ sessions'[Len(sessions) + 1] = s
  BY <1>1
<1>3. /\ \A i \in 1..Len(sessions') : i \in 1..Len(sessions) \/ i = Len(sessions) + 1
      /\ \A i \in 1..Len(sessions) : i \in 1..Len(sessions')
      /\ Len(sessions) + 1 \in 1..Len(sessions')
  BY <1>2
<1>4. \A x \in Pool' : x \in Pool \/ x = s
  BY <1>2, <1>3 DEF Pool
<1>5. \A x \in Pool : x \in Pool'
  BY <1>2, <1>3 DEF Pool
<1>6. s \in Pool'
  BY <1>2, <1>3 DEF Pool
<1> QED
  BY <1>2, <1>4, <1>5, <1>6

LEMMA ShrinkPool ==
    ASSUME TypeOK, NEW c \in Conns, MaybeShrinkSessions(c)
    PROVE  /\ Pool' \subseteq Pool
           /\ \A s \in Pool : closed'[s] \/ s \in Pool'
<1>1. \A k \in 1..Len(sessions') : \E i \in 1..Len(sessions) : sessions'[k] = sessions[i]
  BY ShrinkFacts
<1>2. \A i \in 1..Len(sessions) :
          closed'[sessions[i]] \/ \E k \in 1..Len(sessions') : sessions'[k] = sessions[i]
  BY ShrinkFacts
<1>3. \A x \in Pool' : x \in Pool
  BY <1>1 DEF Pool
<1>4. \A x \in Pool : closed'[x] \/ x \in Pool'
  BY <1>2 DEF Pool
<1> QED
  BY <1>3, <1>4

LEMMA PoolSame ==
    ASSUME sessions' = sessions
    PROVE  Pool' = Pool
BY DEF Pool

LEMMA MonotoneStep ==
    ASSUME Inv, [Next]_vars
    PROVE  TypeOK' /\ Monotone
<1> USE DEF Inv
<1>0. Pool \subseteq Sids
  BY PoolInSids
<1>1. ASSUME NEW c \in Conns,
             \/ PickSession(c) \/ StartFails(c) \/ DownloadStream(c) \/ Close(c) \/ Inactive(c)
             \/ Read(c)
      PROVE  TypeOK' /\ Monotone
  <2>1. TypeOK' /\ UNCHANGED tableVars
    BY <1>1, PickFacts, StartFailsFacts, DownloadFacts, RunFacts, ReadFacts
  <2> QED
    BY <2>1, PoolSame DEF Monotone, tableVars
<1>2. ASSUME NEW c \in Conns,
             StartSession(c) \/ StartUplink(c) \/ PinConn(c) \/ OpenConnReader(c)
      PROVE  TypeOK' /\ Monotone
  <2>1. TypeOK' /\ UNCHANGED <<sessions, closed, ended>>
    BY <1>2, StartFacts, StartUplinkFacts, PinConnFacts, ReaderFacts
  <2> QED
    BY <2>1, PoolSame DEF Monotone
<1>3. ASSUME NEW c \in Conns, AddSession(c)
      PROVE  TypeOK' /\ Monotone
  <2>1. TypeOK' /\ sess[c] \in Sids
    BY <1>3, AddFacts
  <2>2. CASE Closing({sess[c]}) /\ sessions' = sessions
    BY <2>1, <2>2, PoolSame DEF Monotone, Closing
  <2>3. CASE sessions' = Append(sessions, sess[c]) /\ UNCHANGED <<closed, ended>>
    BY <2>1, <2>3, PoolAppend DEF Monotone
  <2> QED
    BY <1>3, <2>2, <2>3, AddFacts
<1>4. ASSUME NEW c \in Conns, ConnectWrites(c) \/ CloseWrites(c)
      PROVE  TypeOK' /\ Monotone
  <2>1. /\ TypeOK' /\ UNCHANGED <<sessions, closed>>
        /\ ended' = ended \/ (sess[c] \in Sids /\ Unpinned(sess[c], c))
    BY <1>4, ConnectFacts, CloseConnFacts
  <2> QED
    BY <2>1, PoolSame DEF Monotone, Unpinned
<1>5. ASSUME NEW c \in Conns, MaybeShrinkSessions(c)
      PROVE  TypeOK' /\ Monotone
  <2>1. PICK S \in SUBSET Sids : Closing(S)
    BY <1>5, ShrinkFacts
  <2> QED
    BY <1>5, <2>1, ShrinkMoves, ShrinkPool DEF Monotone, Closing
<1>6. ASSUME NEW c \in Conns, ServerSends(c)
      PROVE  TypeOK' /\ Monotone
  <2>1. home[c] \in Sids
    BY <1>6 DEF ServerSends, Answers
  <2>2. TypeOK' /\ UNCHANGED tableVars
    BY <1>6, <2>1, ServerFacts
  <2> QED
    BY <2>2, PoolSame DEF Monotone, tableVars
<1>7. ASSUME NEW s \in Sids, DemuxFrame(s)
      PROVE  TypeOK' /\ Monotone
  <2>1. /\ TypeOK' /\ UNCHANGED <<sessions, closed>>
        /\ ended' = ended \/ Unpinned(s, Head(down[s])[1])
    BY <1>7, DemuxFacts
  <2> QED
    BY <2>1, PoolSame DEF Monotone, Unpinned
<1>8. ASSUME NEW s \in Sids, DemuxEnds(s) \/ UplinkEnds(s)
      PROVE  TypeOK' /\ Monotone
  BY <1>8, EndsFacts, PoolSame DEF Monotone, Closing
<1>9. ASSUME NEW s \in Sids, UplinkBreaks(s)
      PROVE  TypeOK' /\ Monotone
  BY <1>9, BreaksFacts, PoolSame DEF Monotone
<1>10. ASSUME UNCHANGED coreVars
       PROVE  TypeOK' /\ Monotone
  BY <1>10, PoolSame DEF Monotone, coreVars, TypeOK, FlowType
<1> QED
  BY <1>1, <1>2, <1>3, <1>4, <1>5, <1>6, <1>7, <1>8, <1>9, <1>10, QuietFacts
     DEF Next, Conn, Session

------------------------------------------------------------------------------
(* Sessions and the pool *)

\* A step that starts no session and gives none its uplink.
LEMMA PlacedKept ==
    ASSUME Inv, TypeOK', Monotone, started' = started,
           \A s \in Pool' : s \in Pool \/ uplink[s] # "nil",
           \A s \in Sids : \/ uplink'[s] = uplink[s]
                           \/ uplink[s] # "nil" /\ uplink'[s] \in {"broken", "closed"}
                              /\ (uplink'[s] = "closed" => closed'[s]),
           \A d \in Conns :
               \/ pc'[d] = pc[d] /\ sess'[d] = sess[d]
               \/ /\ pc'[d] \notin {"uplink", "add"}
                  /\ pc'[d] \in {"pin", "length", "data", "reader"} =>
                        closed'[sess'[d]] \/ sess'[d] \in Pool'
    PROVE  Placed'
<1> USE DEF Inv
<1>0. Pool \subseteq Sids /\ Pool' \subseteq Sids /\ started \in Nat
  BY PoolInSids DEF TypeOK, Pool
<1>1. \A d \in Conns : pc[d] \in WithSession => sess[d] \in Sids
  BY DEF TypeOK, FlowType
<1>2. (\A s \in Pool : uplink[s] # "nil")'
  BY <1>0 DEF Placed
<1>3. (\A s \in Sids : s > started => uplink[s] = "nil")'
  BY DEF Placed
<1>4. (\A s \in Sids : uplink[s] = "closed" => closed[s])'
  BY DEF Placed, Monotone
<1>5. (\A c \in Conns : /\ pc[c] = "uplink" => uplink[sess[c]] = "nil"
                        /\ pc[c] = "add" => uplink[sess[c]] # "nil"
                        /\ InHand(c) => sess[c] <= started)'
  BY <1>1 DEF Placed, InHand, WithSession
<1>6. (\A c, d \in Conns : InHand(c) /\ InHand(d) /\ sess[c] = sess[d] => c = d)'
  BY DEF Placed, InHand
<1>7. (\A c \in Conns : pc[c] \in {"pin", "length", "data", "reader"} =>
                            closed[sess[c]] \/ sess[c] \in Pool)'
  BY <1>0, <1>1 DEF Placed, Monotone, WithSession
<1> QED
  BY <1>2, <1>3, <1>4, <1>5, <1>6, <1>7 DEF Placed

LEMMA PlacedStep ==
    ASSUME Inv, TypeOK', Monotone, [Next]_vars
    PROVE  Placed'
<1> USE DEF Inv, tableVars, Moves
<1>0. Pool \subseteq Sids
  BY PoolInSids
<1>1. ASSUME NEW c \in Conns,
             PickSession(c) \/ StartFails(c) \/ DownloadStream(c) \/ Close(c) \/ Inactive(c)
      PROVE  Placed'
  <2>1. /\ UNCHANGED tableVars /\ \A d \in Conns \ {c} : pc'[d] = pc[d] /\ sess'[d] = sess[d]
        /\ pc'[c] \notin {"uplink", "add"}
        /\ pc'[c] \in {"pin", "length", "data", "reader"} => sess'[c] \in Pool
    BY <1>1, PickFacts, StartFailsFacts, DownloadFacts, RunFacts
  <2>2. Pool' = Pool
    BY <2>1, PoolSame
  <2> QED
    BY <2>1, <2>2, PlacedKept
<1>2. ASSUME NEW c \in Conns, StartSession(c)
      PROVE  Placed'
  <2>1. /\ pc[c] = "start" /\ Moves(c, "uplink", started + 1) /\ started + 1 \in Sids
        /\ started' = started + 1 /\ UNCHANGED <<sessions, closed, uplink>>
    BY <1>2, StartFacts
  <2>2. Pool' = Pool /\ started \in Nat
    BY <2>1, PoolSame DEF TypeOK
  <2>3. uplink[started + 1] = "nil"
    BY <2>1, <2>2 DEF Placed
  <2>4. \A d \in Conns : InHand(d)' => (InHand(d) /\ sess'[d] = sess[d] /\ sess[d] <= started /\ sess[d] \in Nat)
                                       \/ (d = c /\ sess'[d] = started + 1)
    <3>1. \A d \in Conns \ {c} : InHand(d)' => InHand(d) /\ sess'[d] = sess[d]
      BY <2>1 DEF InHand
    <3>2. \A d \in Conns : InHand(d) => sess[d] <= started /\ sess[d] \in Nat
      BY Consts DEF Placed, TypeOK, FlowType, InHand, WithSession
    <3> QED
      BY <2>1, <3>1, <3>2
  <2>5. (\A d, e \in Conns : InHand(d) /\ InHand(e) /\ sess[d] = sess[e] => d = e)'
    BY <2>2, <2>4 DEF Placed
  <2>6. (\A d \in Conns : InHand(d) => sess[d] <= started)'
    BY <2>1, <2>2, <2>4
  <2>7. (\A d \in Conns : /\ pc[d] = "uplink" => uplink[sess[d]] = "nil"
                          /\ pc[d] = "add" => uplink[sess[d]] # "nil"
                          /\ pc[d] \in {"pin", "length", "data", "reader"} =>
                                closed[sess[d]] \/ sess[d] \in Pool)'
    BY <2>1, <2>2, <2>3 DEF Placed
  <2>8. (\A s \in Sids : s > started => uplink[s] = "nil")'
    BY <2>1, <2>2, Consts DEF Placed
  <2> QED
    BY <2>1, <2>2, <2>5, <2>6, <2>7, <2>8 DEF Placed
<1>3. ASSUME NEW c \in Conns, StartUplink(c)
      PROVE  Placed'
  <2>1. /\ pc[c] = "uplink" /\ Moves(c, "add", sess[c]) /\ sess[c] \in Sids
        /\ uplink'[sess[c]] = "open" /\ \A s \in Sids \ {sess[c]} : uplink'[s] = uplink[s]
        /\ UNCHANGED <<sessions, started, closed>>
    BY <1>3, StartUplinkFacts
  <2>2. Pool' = Pool
    BY <2>1, PoolSame
  <2>3. \A d \in Conns : InHand(d)' => InHand(d) /\ sess'[d] = sess[d] /\ sess[d] \in Sids
    BY <2>1 DEF InHand, TypeOK, FlowType, WithSession
  <2>4. \A d \in Conns \ {c} : InHand(d) => sess[d] # sess[c]
    BY <2>1 DEF Placed, InHand
  <2>5. (\A d \in Conns : /\ pc[d] = "uplink" => uplink[sess[d]] = "nil"
                          /\ pc[d] = "add" => uplink[sess[d]] # "nil")'
    BY <2>1, <2>3, <2>4 DEF Placed, InHand
  <2>6. (\A d, e \in Conns : InHand(d) /\ InHand(e) /\ sess[d] = sess[e] => d = e)'
    BY <2>3 DEF Placed
  <2>7. (\A d \in Conns : /\ InHand(d) => sess[d] <= started
                          /\ pc[d] \in {"pin", "length", "data", "reader"} =>
                                closed[sess[d]] \/ sess[d] \in Pool)'
    BY <2>1, <2>2, <2>3 DEF Placed
  <2>8. (\A s \in Sids : s > started => uplink[s] = "nil")'
    <3>1. sess[c] <= started /\ sess[c] \in Nat /\ started \in Nat
      <4>1. sess[c] <= started
        BY <2>1 DEF Placed, InHand
      <4>2. started \in Nat
        BY DEF TypeOK
      <4> QED
        BY <2>1, <4>1, <4>2, Consts
    <3>2. \A s \in Sids : s > started => s # sess[c]
      BY <3>1, Consts
    <3> QED
      BY <2>1, <3>2 DEF Placed
  <2>9. (\A s \in Pool : uplink[s] # "nil")' /\ (\A s \in Sids : uplink[s] = "closed" => closed[s])'
    BY <1>0, <2>1, <2>2 DEF Placed
  <2> QED
    BY <2>5, <2>6, <2>7, <2>8, <2>9 DEF Placed
<1>4. ASSUME NEW c \in Conns, AddSession(c)
      PROVE  Placed'
  <2>1. pc[c] = "add" /\ sess[c] \in Sids /\ started' = started /\ uplink[sess[c]] # "nil"
    BY <1>4, AddFacts DEF Placed
  <2>2. ASSUME Closing({sess[c]}), sessions' = sessions, NEW s \in Sids, Moves(c, "pin", s), s \in Pool
        PROVE  Placed'
    BY <2>1, <2>2, PoolSame, PlacedKept DEF Closing
  <2>3. CASE /\ sessions' = Append(sessions, sess[c]) /\ Moves(c, "pin", sess[c])
             /\ UNCHANGED <<closed, uplink>>
    BY <2>1, <2>3, PoolAppend, PlacedKept
  <2> QED
    BY <1>4, <2>2, <2>3, AddFacts
<1>5. ASSUME NEW c \in Conns, PinConn(c) \/ OpenConnReader(c)
      PROVE  Placed'
  <2>1. /\ UNCHANGED <<sessions, started, closed, uplink>>
        /\ \A d \in Conns \ {c} : pc'[d] = pc[d] /\ sess'[d] = sess[d]
        /\ pc'[c] \notin {"uplink", "add"}
        /\ pc'[c] \in {"pin", "length", "data", "reader"} => pc[c] = "pin" /\ sess'[c] = sess[c]
    BY <1>5, PinConnFacts, ReaderFacts
  <2>2. Pool' = Pool
    BY <2>1, PoolSame
  <2>3. pc'[c] \in {"pin", "length", "data", "reader"} => closed'[sess'[c]] \/ sess'[c] \in Pool'
    BY <2>1, <2>2 DEF Placed
  <2> QED
    BY <2>1, <2>2, <2>3, PlacedKept
<1>6. ASSUME NEW c \in Conns, ConnectWrites(c) \/ CloseWrites(c)
      PROVE  Placed'
  <2>1. /\ UNCHANGED <<sessions, started, closed, uplink>>
        /\ \A d \in Conns \ {c} : pc'[d] = pc[d] /\ sess'[d] = sess[d]
        /\ pc'[c] \notin {"uplink", "add"}
        /\ pc'[c] \in {"pin", "length", "data", "reader"} => pc[c] \in {"length", "data"} /\ sess'[c] = sess[c]
    BY <1>6, ConnectFacts, CloseConnFacts
  <2>2. Pool' = Pool
    BY <2>1, PoolSame
  <2>3. pc'[c] \in {"pin", "length", "data", "reader"} => closed'[sess'[c]] \/ sess'[c] \in Pool'
    BY <2>1, <2>2 DEF Placed
  <2> QED
    BY <2>1, <2>2, <2>3, PlacedKept
<1>7. ASSUME NEW c \in Conns, MaybeShrinkSessions(c)
      PROVE  Placed'
  <2>1. PICK S \in SUBSET Sids : Closing(S)
    BY <1>7, ShrinkFacts
  <2>2. Moves(c, "done", sess[c]) /\ started' = started /\ Pool' \subseteq Pool
    BY <1>7, ShrinkMoves, ShrinkPool
  <2> QED
    BY <2>1, <2>2, PlacedKept DEF Closing
<1>8. ASSUME UNCHANGED <<tableVars, pc, sess>>
      PROVE  Placed'
  BY <1>8, PoolSame, PlacedKept
<1>9. ASSUME NEW c \in Conns, ServerSends(c) \/ Read(c)
      PROVE  UNCHANGED <<tableVars, pc, sess>>
  BY <1>9 DEF ServerSends, Read, poolVars, sessVars, pipeVars, flowVars
<1>10. ASSUME NEW s \in Sids, DemuxFrame(s)
       PROVE  Placed'
  <2>1. UNCHANGED <<sessions, started, closed, uplink, pc, sess>>
    BY <1>10, DemuxFacts
  <2> QED
    BY <2>1, PoolSame, PlacedKept
<1>11. ASSUME NEW s \in Sids, DemuxEnds(s) \/ UplinkEnds(s)
       PROVE  Placed'
  BY <1>11, EndsFacts, PoolSame, PlacedKept DEF Closing
<1>12. ASSUME NEW s \in Sids, UplinkBreaks(s)
       PROVE  Placed'
  BY <1>12, BreaksFacts, PoolSame, PlacedKept
<1>13. ASSUME UNCHANGED coreVars
       PROVE  Placed'
  BY <1>8, <1>13 DEF coreVars
<1> QED
  BY <1>1, <1>2, <1>3, <1>4, <1>5, <1>6, <1>7, <1>8, <1>9, <1>10, <1>11, <1>12, <1>13, QuietFacts
     DEF Next, Conn, Session

\* No session is lost from sight.
LEMMA OrphanStep ==
    ASSUME Inv, TypeOK', Monotone, [Next]_vars
    PROVE  NoOrphanSession'
<1> USE DEF Inv, tableVars, Moves
<1>0. /\ started \in Nat /\ \A s \in 1..started : s \in Sids
      /\ \A d \in Conns : InHand(d) => sess[d] \in Sids
  <2>1. started \in Nat /\ \A s \in 1..started : s \in Sids
    BY Consts DEF TypeOK, Sids
  <2>2. \A d \in Conns : InHand(d) => sess[d] \in Sids
    BY DEF TypeOK, FlowType, InHand, WithSession
  <2> QED
    BY <2>1, <2>2
<1>1. ASSUME started' = started,
             \A d \in Conns : InHand(d) => \/ InHand(d)' /\ sess'[d] = sess[d]
                                           \/ closed'[sess[d]] \/ sess[d] \in Pool'
      PROVE  NoOrphanSession'
  BY <1>0, <1>1 DEF NoOrphanSession, InHand, Monotone
<1>2. ASSUME NEW c \in Conns, Conn(c), ~StartSession(c), ~AddSession(c)
      PROVE  /\ started' = started
             /\ \A d \in Conns : InHand(d) => InHand(d)' /\ sess'[d] = sess[d]
  <2>1. started' = started /\ \A d \in Conns \ {c} : pc'[d] = pc[d] /\ sess'[d] = sess[d]
    <3>1. CASE ServerSends(c) \/ SendData(c) \/ Read(c)
      BY <3>1 DEF ServerSends, SendData, Read, poolVars, flowVars
    <3> QED
      BY <1>2, <3>1, PickFacts, StartFailsFacts, StartUplinkFacts, PinConnFacts, ConnectFacts,
         DownloadFacts, ReaderFacts, RunFacts, CloseConnFacts, ShrinkMoves DEF Conn
  <2>2. InHand(c) => InHand(c)' /\ sess'[c] = sess[c]
    <3>1. CASE ServerSends(c) \/ SendData(c) \/ Read(c)
      BY <3>1 DEF ServerSends, SendData, Read, poolVars, flowVars, InHand
    <3>2. CASE StartUplink(c)
      BY <3>2, StartUplinkFacts DEF InHand
    <3>3. CASE ~(ServerSends(c) \/ SendData(c) \/ Read(c) \/ StartUplink(c))
      BY <1>2, <3>3, PickFacts, StartFailsFacts, PinConnFacts, ConnectFacts,
         DownloadFacts, ReaderFacts, RunFacts, CloseConnFacts, ShrinkMoves DEF Conn, InHand
    <3> QED
      BY <3>1, <3>2, <3>3
  <2> QED
    BY <2>1, <2>2 DEF InHand
<1>3. ASSUME NEW c \in Conns, StartSession(c)
      PROVE  NoOrphanSession'
  <2>1. /\ pc[c] = "start" /\ Moves(c, "uplink", started + 1)
        /\ started' = started + 1 /\ sessions' = sessions
    BY <1>3, StartFacts
  <2>2. \A s \in 1..started' : s \in 1..started \/ s = started + 1
    BY <1>0, <2>1
  <2>3. \A d \in Conns : pc[d] \in {"uplink", "add"} => pc'[d] = pc[d] /\ sess'[d] = sess[d]
    BY <2>1
  <2>4. \A s \in 1..started : closed[s] => closed'[s]
    BY <1>0 DEF Monotone
  <2>5. Pool' = Pool
    BY <2>1, PoolSame
  <2> QED
    BY <2>1, <2>2, <2>3, <2>4, <2>5 DEF NoOrphanSession
<1>4. ASSUME NEW c \in Conns, AddSession(c)
      PROVE  NoOrphanSession'
  <2>1. started' = started /\ sess[c] \in Sids /\ \A d \in Conns \ {c} : pc'[d] = pc[d] /\ sess'[d] = sess[d]
    BY <1>4, AddFacts
  <2>2. closed'[sess[c]] \/ sess[c] \in Pool'
    <3>1. CASE Closing({sess[c]})
      BY <2>1, <3>1 DEF Closing
    <3>2. CASE sessions' = Append(sessions, sess[c])
      BY <2>1, <3>2, PoolAppend
    <3> QED
      BY <1>4, <3>1, <3>2, AddFacts
  <2> QED
    BY <1>1, <2>1, <2>2 DEF InHand
<1>5. ASSUME UNCHANGED <<started, pc, sess>>
      PROVE  NoOrphanSession'
  BY <1>1, <1>5 DEF InHand
<1>6. ASSUME NEW s \in Sids, Session(s)
      PROVE  UNCHANGED <<started, pc, sess>>
  BY <1>6 DEF Session, DemuxFrame, Deliver, DemuxEnds, UplinkBreaks, UplinkEnds, poolVars, flowVars
<1>7. CASE UNCHANGED vars
  BY <1>5, <1>7 DEF vars, poolVars, flowVars
<1> QED
  BY <1>1, <1>2, <1>3, <1>4, <1>5, <1>6, <1>7 DEF Next

------------------------------------------------------------------------------
(* Pins and pipes *)

\* A step that pins nobody.
LEMMA PinnedKept ==
    ASSUME Inv, TypeOK', Monotone,
           \A s \in Sids, d \in Conns : readers'[s][d] # None =>
               readers[s][d] # None /\ (MayBePinned(s, d) => MayBePinned(s, d)')
    PROVE  Pinned'
<1>1. Pool \subseteq Sids
  BY PoolInSids DEF Inv
<1>2. ASSUME NEW s \in Sids, NEW d \in Conns, readers'[s][d] # None
      PROVE  MayBePinned(s, d)' /\ (closed'[s] \/ s \in Pool')
  <2>1. readers[s][d] # None /\ MayBePinned(s, d) /\ (closed[s] \/ s \in Pool)
    BY <1>2 DEF Inv, Pinned
  <2> QED
    BY <1>2, <2>1 DEF Monotone
<1>3. (\A d \in Conns : \A s, t \in Sids : readers[s][d] # None /\ readers[t][d] # None => s = t)'
  BY DEF Inv, Pinned
<1> QED
  BY <1>2, <1>3 DEF Pinned

\* A goroutine that no session has pinned.
LEMMA Unpinnable ==
    ASSUME Inv, NEW c \in Conns,
           pc[c] \in Early \/ (pc[c] = "download" /\ \A s \in Pool : readers[s][c] = None)
    PROVE  \A s \in Sids : readers[s][c] = None
BY DEF Inv, Pinned, MayBePinned, Early, Gone

LEMMA PinnedStep ==
    ASSUME Inv, TypeOK', Monotone, [Next]_vars
    PROVE  Pinned'
<1> USE DEF Inv, tableVars, Moves
<1>0. Pool \subseteq Sids
  BY PoolInSids
<1>1. ASSUME NEW c \in Conns,
             PickSession(c) \/ StartSession(c) \/ StartFails(c) \/ StartUplink(c)
      PROVE  Pinned'
  <2>1. /\ pc[c] \in Early /\ UNCHANGED <<sessions, closed, readers>>
        /\ \A d \in Conns \ {c} : pc'[d] = pc[d] /\ sess'[d] = sess[d]
    BY <1>1, PickFacts, StartFacts, StartFailsFacts, StartUplinkFacts DEF Early
  <2>2. \A s \in Sids : readers[s][c] = None
    BY <2>1, Unpinnable
  <2> QED
    BY <2>1, <2>2, PinnedKept DEF MayBePinned
<1>2. ASSUME NEW c \in Conns, AddSession(c)
      PROVE  Pinned'
  <2>1. pc[c] \in Early /\ \A d \in Conns \ {c} : pc'[d] = pc[d] /\ sess'[d] = sess[d]
    BY <1>2, AddFacts DEF Early
  <2>2. \A s \in Sids : readers[s][c] = None
    BY <2>1, Unpinnable
  <2>3. CASE Closing({sess[c]})
    BY <2>1, <2>2, <2>3, PinnedKept DEF MayBePinned, Closing
  <2>4. CASE UNCHANGED <<closed, readers>>
    BY <2>1, <2>2, <2>4, PinnedKept DEF MayBePinned
  <2> QED
    BY <1>2, <2>3, <2>4, AddFacts
<1>3. ASSUME NEW c \in Conns, PinConn(c)
      PROVE  Pinned'
  <2>1. /\ pc[c] = "pin" /\ sess[c] \in Sids /\ PinnedTo(sess[c], c)
        /\ Moves(c, IF why[c] = "connect" THEN "length" ELSE "reader", sess[c])
        /\ UNCHANGED <<sessions, closed>>
    BY <1>3, PinConnFacts
  <2>2. \A s \in Sids : readers[s][c] = None
    BY <2>1, Unpinnable DEF Early
  <2>3. Pool' = Pool /\ (closed[sess[c]] \/ sess[c] \in Pool)
    BY <2>1, PoolSame DEF Placed
  <2>4. ASSUME NEW s \in Sids, NEW d \in Conns, readers'[s][d] # None
        PROVE  MayBePinned(s, d)' /\ (closed'[s] \/ s \in Pool')
    <3>1. CASE d = c
      <4>1. s = sess[c]
        BY <2>1, <2>2, <2>4, <3>1 DEF PinnedTo
      <4> QED
        BY <2>1, <2>3, <3>1, <4>1 DEF MayBePinned
    <3>2. CASE d # c
      BY <2>1, <2>3, <2>4, <3>2 DEF PinnedTo, Pinned, MayBePinned
    <3> QED
      BY <3>1, <3>2
  <2>5. (\A d \in Conns : \A s, t \in Sids : readers[s][d] # None /\ readers[t][d] # None => s = t)'
    BY <2>1, <2>2 DEF PinnedTo, Pinned
  <2> QED
    BY <2>4, <2>5 DEF Pinned
<1>4. ASSUME NEW c \in Conns, OpenConnReader(c)
      PROVE  Pinned'
  <2>1. /\ pc[c] = "reader" /\ sess[c] \in Sids /\ PinnedTo(sess[c], c) /\ Moves(c, "run", None)
        /\ UNCHANGED <<sessions, closed>>
    BY <1>4, ReaderFacts
  <2>2. \A s \in Sids : readers[s][c] # None => s = sess[c]
    BY <2>1 DEF Pinned, MayBePinned, Gone
  <2>3. Pool' = Pool /\ (closed[sess[c]] \/ sess[c] \in Pool)
    BY <2>1, PoolSame DEF Placed
  <2>4. ASSUME NEW s \in Sids, NEW d \in Conns, readers'[s][d] # None
        PROVE  MayBePinned(s, d)' /\ (closed'[s] \/ s \in Pool')
    <3>1. CASE d = c
      <4>1. s = sess[c]
        BY <2>1, <2>2, <2>4, <3>1 DEF PinnedTo
      <4> QED
        BY <2>1, <2>3, <3>1, <4>1 DEF MayBePinned
    <3>2. CASE d # c
      BY <2>1, <2>3, <2>4, <3>2 DEF PinnedTo, Pinned, MayBePinned
    <3> QED
      BY <3>1, <3>2
  <2>5. (\A d \in Conns : \A s, t \in Sids : readers[s][d] # None /\ readers[t][d] # None => s = t)'
    BY <2>1, <2>2 DEF PinnedTo, Pinned
  <2> QED
    BY <2>4, <2>5 DEF Pinned
<1>5. ASSUME NEW c \in Conns, ConnectWrites(c)
      PROVE  Pinned'
  <2>1. /\ pc[c] \in {"length", "data"} /\ sess[c] \in Sids /\ closed' = closed
        /\ \A d \in Conns \ {c} : pc'[d] = pc[d] /\ sess'[d] = sess[d]
    BY <1>5, ConnectFacts
  <2>2. \A s \in Sids : readers[s][c] # None => s = sess[c]
    BY <2>1 DEF Pinned, MayBePinned, Gone
  <2>3. CASE Unpinned(sess[c], c)
    BY <2>1, <2>2, <2>3, PinnedKept DEF Unpinned, MayBePinned
  <2>4. CASE readers' = readers /\ Moves(c, "data", sess[c])
    BY <2>1, <2>2, <2>4, PinnedKept DEF MayBePinned
  <2>5. CASE readers' = readers /\ CanWrite(sess[c]) /\ Moves(c, "download", None)
    BY <2>1, <2>2, <2>5, PinnedKept DEF MayBePinned, CanWrite
  <2> QED
    BY <1>5, <2>3, <2>4, <2>5, ConnectFacts
<1>6. ASSUME NEW c \in Conns, DownloadStream(c)
      PROVE  Pinned'
  <2>1. pc[c] = "download" /\ UNCHANGED <<sessions, closed, readers>>
    BY <1>6, DownloadFacts
  <2>2. CASE Moves(c, "pick", sess[c]) /\ \A s \in Pool : readers[s][c] = None
    <3>1. \A s \in Sids : readers[s][c] = None
      BY <2>1, <2>2, Unpinnable
    <3> QED
      BY <2>1, <2>2, <3>1, PinnedKept DEF MayBePinned
  <2>3. ASSUME NEW s \in Sids, Moves(c, "reader", s), readers[s][c] # None
        PROVE  Pinned'
    <3>1. \A t \in Sids : readers[t][c] # None => t = s
      BY <2>3 DEF Pinned
    <3> QED
      BY <2>1, <2>3, <3>1, PinnedKept DEF MayBePinned
  <2> QED
    BY <1>6, <2>2, <2>3, DownloadFacts
<1>7. ASSUME NEW c \in Conns, Close(c) \/ Inactive(c)
      PROVE  Pinned'
  <2>1. /\ UNCHANGED <<closed, readers>>
        /\ \A d \in Conns \ {c} : pc'[d] = pc[d] /\ sess'[d] = sess[d]
        /\ (pc[c] = "run" /\ pc'[c] = "close") \/ (pc[c] = "inactive" /\ pc'[c] = "shrink")
    BY <1>7, RunFacts
  <2> QED
    BY <2>1, PinnedKept DEF MayBePinned, Gone
<1>8. ASSUME NEW c \in Conns, CloseWrites(c)
      PROVE  Pinned'
  <2>1. closed' = closed /\ \A d \in Conns \ {c} : pc'[d] = pc[d] /\ sess'[d] = sess[d]
    BY <1>8, CloseConnFacts
  <2>2. CASE /\ pc[c] = "close" /\ Moves(c, "inactive", sess[c]) /\ readers' = readers
             /\ \A s \in Pool : readers[s][c] = None
    <3>1. \A s \in Sids : readers[s][c] # None => closed[s]
      BY <2>2 DEF Pinned
    <3> QED
      BY <2>1, <2>2, <3>1, PinnedKept DEF MayBePinned, Gone
  <2>3. ASSUME readers' = readers, NEW s \in Sids, NEW l \in {"cdata", "unpin"}, Moves(c, l, s),
               (pc[c] = "close" /\ readers[s][c] # None) \/ (pc[c] = "cdata" /\ s = sess[c])
        PROVE  Pinned'
    <3>1. \A t \in Sids : readers[t][c] # None => t = s
      BY <2>3 DEF Pinned, MayBePinned, Gone
    <3> QED
      BY <2>1, <2>3, <3>1, PinnedKept DEF MayBePinned
  <2>4. CASE /\ pc[c] = "unpin" /\ sess[c] \in Sids /\ Unpinned(sess[c], c)
             /\ Moves(c, "inactive", None)
    <3>1. \A t \in Sids : readers[t][c] # None => t = sess[c]
      BY <2>4 DEF Pinned, MayBePinned, Gone
    <3> QED
      BY <2>1, <2>4, <3>1, PinnedKept DEF MayBePinned, Unpinned
  <2> QED
    BY <1>8, <2>2, <2>3, <2>4, CloseConnFacts
<1>9. ASSUME NEW c \in Conns, MaybeShrinkSessions(c)
      PROVE  Pinned'
  <2>1. PICK S \in SUBSET Sids : Closing(S)
    BY <1>9, ShrinkFacts
  <2>2. pc[c] = "shrink" /\ Moves(c, "done", sess[c])
    BY <1>9, ShrinkMoves
  <2> QED
    BY <2>1, <2>2, PinnedKept DEF MayBePinned, Closing, Gone
<1>10. ASSUME UNCHANGED <<closed, readers, pc, sess>>
       PROVE  Pinned'
  BY <1>10, PinnedKept DEF MayBePinned
<1>11. ASSUME NEW c \in Conns, ServerSends(c) \/ Read(c)
       PROVE  UNCHANGED <<closed, readers, pc, sess>>
  BY <1>11 DEF ServerSends, Read, sessVars, flowVars
<1>12. ASSUME NEW s \in Sids, DemuxFrame(s)
       PROVE  Pinned'
  <2>1. UNCHANGED <<closed, pc, sess>> /\ (readers' = readers \/ Unpinned(s, Head(down[s])[1]))
    BY <1>12, DemuxFacts
  <2> QED
    BY <2>1, PinnedKept DEF MayBePinned, Unpinned
<1>13. ASSUME NEW s \in Sids, DemuxEnds(s) \/ UplinkEnds(s)
       PROVE  Pinned'
  BY <1>13, EndsFacts, PinnedKept DEF MayBePinned, Closing
<1>14. ASSUME NEW s \in Sids, UplinkBreaks(s)
       PROVE  UNCHANGED <<closed, readers, pc, sess>>
  BY <1>14, BreaksFacts
<1>15. ASSUME UNCHANGED coreVars
       PROVE  Pinned'
  BY <1>10, <1>15 DEF coreVars
<1> QED
  BY <1>1, <1>2, <1>3, <1>4, <1>5, <1>6, <1>7, <1>8, <1>9, <1>10, <1>11, <1>12, <1>13, <1>14,
     <1>15, QuietFacts DEF Next, Conn, Session

LEMMA OwnedKept ==
    ASSUME Inv, TypeOK', Monotone,
           \A d \in Conns : reader'[d] = reader[d] \/ reader'[d] = None,
           \A s \in Sids, d \in Conns :
               \/ readers'[s][d] = readers[s][d]
               \/ readers[s][d] \in Pipes => ended'[readers[s][d]]
    PROVE  Owned'
<1>1. SUFFICES ASSUME NEW d \in Conns, reader'[d] # None, ~ended'[reader'[d]]
               PROVE  \E s \in Sids : readers'[s][d] = reader'[d]
  BY DEF Owned
<1>2. reader'[d] = reader[d] /\ reader[d] \in Pipes
  BY <1>1 DEF Inv, TypeOK
<1>3. ~ended[reader[d]]
  BY <1>1, <1>2 DEF Monotone
<1>4. PICK s \in Sids : readers[s][d] = reader[d]
  BY <1>1, <1>2, <1>3 DEF Inv, Owned
<1> QED
  BY <1>1, <1>2, <1>4

LEMMA OwnedStep ==
    ASSUME Inv, TypeOK', Monotone, [Next]_vars
    PROVE  Owned'
<1> USE DEF Inv, tableVars
<1>1. ASSUME UNCHANGED <<readers, reader>>
      PROVE  Owned'
  BY <1>1, OwnedKept
<1>2. ASSUME NEW c \in Conns,
             \/ PickSession(c) \/ StartSession(c) \/ StartFails(c) \/ StartUplink(c)
             \/ DownloadStream(c) \/ Close(c) \/ Inactive(c) \/ ServerSends(c)
      PROVE  UNCHANGED <<readers, reader>>
  BY <1>2, PickFacts, StartFacts, StartFailsFacts, StartUplinkFacts, DownloadFacts, RunFacts
     DEF ServerSends, sessVars
<1>3. ASSUME NEW S \in SUBSET Sids, Closing(S), reader' = reader
      PROVE  Owned'
  BY <1>3, OwnedKept DEF Closing
<1>4. ASSUME NEW s \in Sids, NEW c \in Conns, Unpinned(s, c), reader' = reader
      PROVE  Owned'
  BY <1>4, OwnedKept DEF Unpinned
<1>5. ASSUME NEW c \in Conns, AddSession(c)
      PROVE  Owned'
  <2>1. sess[c] \in Sids /\ reader' = reader /\ (Closing({sess[c]}) \/ readers' = readers)
    BY <1>5, AddFacts
  <2> QED
    BY <1>1, <1>3, <2>1
<1>6. ASSUME NEW s \in Sids, NEW c \in Conns, PinnedTo(s, c)
      PROVE  \A t \in Sids, d \in Conns : readers'[t][d] = readers[t][d] \/ readers[t][d] = None
  BY <1>6 DEF PinnedTo
<1>7. ASSUME NEW c \in Conns, PinConn(c)
      PROVE  Owned'
  BY <1>6, <1>7, PinConnFacts, OwnedKept, Consts
<1>8. ASSUME NEW c \in Conns, OpenConnReader(c)
      PROVE  Owned'
  <2>1. /\ sess[c] \in Sids /\ PinnedTo(sess[c], c) /\ reader'[c] = readers'[sess[c]][c]
        /\ \A d \in Conns \ {c} : reader'[d] = reader[d]
        /\ ended' = ended
    BY <1>8, ReaderFacts
  <2>2. \A t \in Sids, d \in Conns : readers'[t][d] = readers[t][d] \/ readers[t][d] = None
    BY <1>6, <2>1
  <2>3. \A d \in Conns \ {c} : reader[d] # None /\ ~ended[reader[d]] =>
                                   \E s \in Sids : readers'[s][d] = reader[d]
    BY <2>2 DEF Owned
  <2> QED
    BY <2>1, <2>3 DEF Owned
<1>9. ASSUME NEW c \in Conns, ConnectWrites(c) \/ CloseWrites(c)
      PROVE  Owned'
  <2>1. reader' = reader /\ (readers' = readers \/ (sess[c] \in Sids /\ Unpinned(sess[c], c)))
    BY <1>9, ConnectFacts, CloseConnFacts
  <2> QED
    BY <1>1, <1>4, <2>1
<1>10. ASSUME NEW c \in Conns, MaybeShrinkSessions(c)
       PROVE  Owned'
  BY <1>3, <1>10, ShrinkFacts, ShrinkMoves
<1>11. ASSUME NEW c \in Conns, Read(c)
       PROVE  Owned'
  BY <1>11, ReadFacts, OwnedKept
<1>12. ASSUME NEW s \in Sids, Session(s)
       PROVE  Owned'
  <2>1. CASE DemuxFrame(s)
    BY <1>1, <1>4, <2>1, DemuxFacts
  <2>2. CASE DemuxEnds(s) \/ UplinkEnds(s)
    BY <1>3, <2>2, EndsFacts
  <2>3. CASE UplinkBreaks(s)
    BY <1>1, <2>3, BreaksFacts
  <2>4. CASE Deliver(s)
    BY <1>1, <2>4 DEF Deliver, sessVars
  <2> QED
    BY <1>12, <2>1, <2>2, <2>3, <2>4 DEF Session
<1>13. ASSUME UNCHANGED coreVars
       PROVE  Owned'
  BY <1>1, <1>13 DEF coreVars
<1> QED
  BY <1>1, <1>2, <1>5, <1>7, <1>8, <1>9, <1>10, <1>11, <1>12, <1>13, QuietFacts DEF Next, Conn

------------------------------------------------------------------------------
(* Who looks at an idle session *)

LEMMA LookedKept ==
    ASSUME Inv, TypeOK', Monotone,
           \A k \in 1..Len(sessions') : k > 1 =>
               \/ \E i \in 1..Len(sessions) : i > 1 /\ sessions'[k] = sessions[i]
               \/ \E c \in Conns : WillConnect(c, sessions[k])',
           \A s \in Pool : uplink[s] = "broken" => uplink'[s] = "broken" \/ closed'[s],
           \A d \in Conns : WillShrink(d) => WillShrink(d)',
           \A d \in Conns, s \in Pool : WillConnect(d, s) =>
               WillConnect(d, s)' \/ WillShrink(d)' \/ closed'[s] \/ uplink'[s] = "broken"
    PROVE  Looked'
<1>1. SUFFICES ASSUME NEW k \in 1..Len(sessions'), k > 1
               PROVE  \/ closed'[sessions'[k]] \/ uplink'[sessions'[k]] = "broken"
                      \/ \E c \in Conns : WillShrink(c)' \/ WillConnect(c, sessions[k])'
  BY DEF Looked
<1>0. SUFFICES ASSUME ~\E c \in Conns : WillConnect(c, sessions[k])'
               PROVE  \/ closed'[sessions'[k]] \/ uplink'[sessions'[k]] = "broken"
                      \/ \E c \in Conns : WillShrink(c)' \/ WillConnect(c, sessions[k])'
  OBVIOUS
<1>2. PICK i \in 1..Len(sessions) : i > 1 /\ sessions'[k] = sessions[i]
  BY <1>0, <1>1
<1>3. sessions[i] \in Pool /\ sessions[i] \in Sids
  BY DEF Pool, Inv, TypeOK
<1>4. \/ closed[sessions[i]] \/ uplink[sessions[i]] = "broken"
      \/ \E c \in Conns : WillShrink(c) \/ WillConnect(c, sessions[i])
  BY <1>2 DEF Inv, Looked
<1>5. \A c \in Conns : WillConnect(c, sessions[k])' <=> pc'[c] \in {"pin", "length", "data"} /\ sess'[c] = sessions[i]
  BY <1>2 DEF WillConnect
<1>6. \A c \in Conns : WillConnect(c, sessions[i]) =>
          WillConnect(c, sessions[k])' \/ WillShrink(c)' \/ closed'[sessions[i]]
          \/ uplink'[sessions[i]] = "broken"
  <2> DEFINE s == sessions[i]
  <2>1. \A c \in Conns : WillConnect(c, s) =>
          \/ pc'[c] \in {"pin", "length", "data"} /\ sess'[c] = s
          \/ WillShrink(c)' \/ closed'[s] \/ uplink'[s] = "broken"
    BY <1>3 DEF WillConnect
  <2> QED
    BY <1>5, <2>1
<1> QED
  BY <1>2, <1>3, <1>4, <1>6 DEF Monotone

LEMMA LookedStep ==
    ASSUME Inv, TypeOK', Monotone, [Next]_vars
    PROVE  Looked'
<1> USE DEF Inv, tableVars, Moves
<1>0. Pool \subseteq Sids /\ \A d \in Conns : why[d] \in {"connect", "download"}
  BY PoolInSids DEF TypeOK
<1>1. ASSUME sessions' = sessions,
             \A s \in Pool : uplink[s] = "broken" => uplink'[s] = "broken" \/ closed'[s],
             \A d \in Conns : WillShrink(d) => WillShrink(d)',
             \A d \in Conns, s \in Pool : WillConnect(d, s) =>
                 WillConnect(d, s)' \/ WillShrink(d)' \/ closed'[s] \/ uplink'[s] = "broken"
      PROVE  Looked'
  BY <1>1, LookedKept
<1>2. ASSUME NEW c \in Conns, NEW l \in Places, NEW x, Moves(c, l, x), why' = why, sessions' = sessions,
             pc[c] \in Early /\ l \in Early /\ ~(pc[c] = "pin"),
             \A s \in Pool : uplink[s] = "broken" => uplink'[s] = "broken" \/ closed'[s]
      PROVE  Looked'
  <2>1. \A d \in Conns : WillShrink(d) => WillShrink(d)'
    BY <1>2 DEF WillShrink, Early
  <2>2. \A d \in Conns, s \in Pool : WillConnect(d, s) => WillConnect(d, s)'
    BY <1>2 DEF WillConnect, Early
  <2> QED
    BY <1>1, <1>2, <2>1, <2>2
<1>3. ASSUME NEW c \in Conns, PickSession(c) \/ StartSession(c)
      PROVE  Looked'
  <2>1. /\ pc[c] \in {"pick", "start"} /\ UNCHANGED <<sessions, uplink, why>>
        /\ \E l \in {"start", "pin", "uplink"}, x \in Sids \cup {sess[c]} : Moves(c, l, x)
    BY <1>3, PickFacts, StartFacts
  <2>2. {"start", "pin", "uplink"} \subseteq Places \cap Early /\ {"pick", "start"} \subseteq Early
    BY DEF Places, Early
  <2> QED
    BY <1>2, <2>1, <2>2
<1>4. ASSUME NEW c \in Conns, StartFails(c)
      PROVE  Looked'
  <2>1. /\ pc[c] = "start" /\ UNCHANGED <<sessions, uplink, why>>
        /\ Moves(c, IF why[c] = "connect" THEN "done" ELSE "close", sess[c])
    BY <1>4, StartFailsFacts
  <2>2. \A d \in Conns : WillShrink(d) => WillShrink(d)'
    BY <2>1 DEF WillShrink, Early
  <2>3. \A d \in Conns, s \in Pool : WillConnect(d, s) => WillConnect(d, s)'
    BY <2>1 DEF WillConnect
  <2> QED
    BY <1>1, <2>1, <2>2, <2>3
<1>5. ASSUME NEW c \in Conns, StartUplink(c)
      PROVE  Looked'
  <2>1. /\ pc[c] = "uplink" /\ Moves(c, "add", sess[c]) /\ sess[c] \in Sids
        /\ \A s \in Sids \ {sess[c]} : uplink'[s] = uplink[s]
        /\ UNCHANGED <<sessions, why>>
    BY <1>5, StartUplinkFacts
  <2>2. sess[c] \notin Pool
    BY <2>1 DEF Placed
  <2>3. "add" \in Places /\ {"add", "uplink"} \subseteq Early
    BY DEF Places, Early
  <2> QED
    BY <1>0, <1>2, <2>1, <2>2, <2>3
<1>6. ASSUME NEW c \in Conns, AddSession(c)
      PROVE  Looked'
  <2>1. pc[c] = "add" /\ sess[c] \in Sids /\ why' = why
    BY <1>6, AddFacts
  <2>2. "pin" \in Places /\ {"add", "pin"} \subseteq Early
    BY DEF Places, Early
  <2>3. ASSUME Closing({sess[c]}), sessions' = sessions, NEW s \in Sids, Moves(c, "pin", s)
        PROVE  Looked'
    BY <1>0, <1>2, <2>1, <2>2, <2>3 DEF Closing
  <2>4. CASE /\ sessions' = Append(sessions, sess[c]) /\ Moves(c, "pin", sess[c])
             /\ UNCHANGED <<closed, uplink>>
    <3>1. \A d \in Conns : WillShrink(d) => WillShrink(d)'
      BY <2>1, <2>4 DEF WillShrink, Early
    <3>2. \A d \in Conns, s \in Pool : WillConnect(d, s) => WillConnect(d, s)'
      BY <2>1, <2>4 DEF WillConnect
    <3>3. ASSUME NEW k \in 1..Len(sessions'), k > 1
          PROVE  \/ \E i \in 1..Len(sessions) : i > 1 /\ sessions'[k] = sessions[i]
                 \/ \E d \in Conns : WillConnect(d, sessions[k])'
      <4>1. (k \in 1..Len(sessions) /\ sessions'[k] = sessions[k]) \/ sessions'[k] = sess[c]
        BY <2>1, <2>4, PoolAppend
      <4>2. CASE sessions'[k] = sess[c]
        BY <2>4, <4>2 DEF WillConnect
      <4> QED
        BY <3>3, <4>1, <4>2
    <3> QED
      BY <2>4, <3>1, <3>2, <3>3, LookedKept
  <2> QED
    BY <1>6, <2>3, <2>4, AddFacts
<1>7. ASSUME NEW c \in Conns, PinConn(c)
      PROVE  Looked'
  <2>1. /\ pc[c] = "pin" /\ Moves(c, IF why[c] = "connect" THEN "length" ELSE "reader", sess[c])
        /\ UNCHANGED <<sessions, uplink, why>>
    BY <1>7, PinConnFacts
  <2>2. \A d \in Conns : WillShrink(d) => WillShrink(d)'
    BY <2>1 DEF WillShrink, Early
  <2>3. \A d \in Conns, s \in Pool : WillConnect(d, s) => WillConnect(d, s)' \/ WillShrink(d)'
    BY <2>1 DEF WillConnect, WillShrink
  <2> QED
    BY <1>1, <2>1, <2>2, <2>3
<1>8. ASSUME NEW c \in Conns, ConnectWrites(c)
      PROVE  Looked'
  <2>1. /\ pc[c] \in {"length", "data"} /\ UNCHANGED <<sessions, closed, uplink, why>>
        /\ \A d \in Conns \ {c} : pc'[d] = pc[d] /\ sess'[d] = sess[d]
        /\ \/ ~CanWrite(sess[c])
           \/ pc'[c] = "data" /\ sess'[c] = sess[c]
           \/ pc'[c] = "download"
    BY <1>8, ConnectFacts
  <2>2. \A d \in Conns : WillShrink(d) => WillShrink(d)'
    BY <2>1 DEF WillShrink, Early
  <2>3. \A s \in Pool : uplink[s] # "nil" /\ uplink[s] \in {"nil", "open", "broken", "closed"}
                        /\ (uplink[s] = "closed" => closed[s])
    BY <1>0 DEF Placed, TypeOK
  <2>4. \A s \in Pool : ~CanWrite(s) => closed'[s] \/ uplink'[s] = "broken"
    BY <2>1, <2>3 DEF CanWrite
  <2>5. \A d \in Conns, s \in Pool : WillConnect(d, s) =>
            WillConnect(d, s)' \/ WillShrink(d)' \/ closed'[s] \/ uplink'[s] = "broken"
    BY <2>1, <2>4 DEF WillConnect, WillShrink
  <2> QED
    BY <1>1, <2>1, <2>2, <2>5
<1>9. ASSUME NEW c \in Conns,
             \/ DownloadStream(c) \/ OpenConnReader(c) \/ Close(c) \/ CloseWrites(c) \/ Inactive(c)
      PROVE  Looked'
  <2>1. /\ UNCHANGED <<sessions, uplink>>
        /\ \A d \in Conns \ {c} : pc'[d] = pc[d] /\ sess'[d] = sess[d] /\ why'[d] = why[d]
        /\ pc[c] \in {"download", "reader", "run", "close", "cdata", "unpin", "inactive"}
        /\ \/ pc'[c] \in {"reader", "run", "close", "cdata", "unpin", "inactive", "shrink"}
           \/ pc'[c] = "pick" /\ why'[c] = "download"
    BY <1>9, DownloadFacts, ReaderFacts, RunFacts, CloseConnFacts
  <2>2. \A d \in Conns : WillShrink(d) => WillShrink(d)'
    BY <2>1 DEF WillShrink, Early
  <2>3. \A d \in Conns, s \in Pool : WillConnect(d, s) => WillConnect(d, s)'
    BY <2>1 DEF WillConnect
  <2> QED
    BY <1>1, <2>1, <2>2, <2>3
<1>10. ASSUME NEW c \in Conns, MaybeShrinkSessions(c)
       PROVE  Looked'
  <2>1. pc[c] = "shrink" /\ Moves(c, "done", sess[c]) /\ why' = why
    BY <1>10, ShrinkMoves
  <2>2. ASSUME NEW k \in 1..Len(sessions'), k > 1
        PROVE  \E d \in Conns : WillShrink(d)' \/ WillConnect(d, sessions[k])'
    <3>1. PICK i \in 1..Len(sessions) :
              /\ sessions'[k] = sessions[i] /\ k <= i
              /\ i > 1 => ~closed[sessions[i]] /\ \E d \in Conns : readers[sessions[i]][d] # None
      BY <1>10, ShrinkFacts
    <3>2. i > 1 /\ sessions[i] \in Sids
      <4>1. sessions[i] \in Sids
        BY DEF TypeOK
      <4>2. Len(sessions) \in Nat /\ Len(sessions') \in Nat
        BY DEF TypeOK
      <4> QED
        BY <2>2, <3>1, <4>1, <4>2
    <3>3. PICK d \in Conns : readers[sessions[i]][d] # None
      BY <3>1, <3>2
    <3>4. MayBePinned(sessions[i], d) /\ ~closed[sessions[i]]
      BY <3>1, <3>2, <3>3 DEF Pinned
    <3>5. d # c
      BY <2>1, <3>4 DEF MayBePinned, Gone
    <3>6. pc'[d] = pc[d] /\ sess'[d] = sess[d]
      BY <2>1, <3>5
    <3>7. WillShrink(d)' \/ (pc'[d] \in {"length", "data"} /\ sess'[d] = sessions'[k])
      BY <3>1, <3>4, <3>6 DEF MayBePinned, WillShrink
    <3> QED
      BY <3>7 DEF WillConnect
  <2> QED
    BY <2>2 DEF Looked
<1>11. ASSUME UNCHANGED <<sessions, pc, sess, why>>,
              \A s \in Pool : uplink[s] = "broken" => uplink'[s] = "broken" \/ closed'[s]
       PROVE  Looked'
  BY <1>1, <1>11 DEF WillShrink, WillConnect
<1>12. ASSUME NEW c \in Conns, ServerSends(c) \/ Read(c)
       PROVE  Looked'
  <2>1. UNCHANGED <<sessions, pc, sess, why, uplink>>
    BY <1>12 DEF ServerSends, Read, poolVars, sessVars, flowVars
  <2> QED
    BY <1>11, <2>1
<1>13. ASSUME NEW s \in Sids, DemuxFrame(s)
       PROVE  Looked'
  BY <1>11, <1>13, DemuxFacts
<1>14. ASSUME NEW s \in Sids, DemuxEnds(s) \/ UplinkEnds(s)
       PROVE  Looked'
  BY <1>0, <1>11, <1>14, EndsFacts DEF Closing
<1>15. ASSUME NEW s \in Sids, UplinkBreaks(s)
       PROVE  Looked'
  BY <1>0, <1>11, <1>15, BreaksFacts
<1>16. ASSUME UNCHANGED coreVars
       PROVE  Looked'
  BY <1>11, <1>16 DEF coreVars
<1> QED
  BY <1>3, <1>4, <1>5, <1>6, <1>7, <1>8, <1>9, <1>10, <1>12, <1>13, <1>14, <1>15, <1>16, QuietFacts
     DEF Next, Conn, Session

------------------------------------------------------------------------------
(* The answers of the server *)

LEMMA FrameTypes ==
    ASSUME TypeOK, NEW s \in Sids, NEW i \in 1..Len(down[s])
    PROVE  down[s][i][1] \in Conns /\ down[s][i][2] \in Nat
<1>1. down[s] \in Seq(Conns \X Nat)
  BY DEF TypeOK
<1>2. down[s][i] \in Conns \X Nat
  BY <1>1
<1> QED
  BY <1>2

\* A step that neither sends nor takes a frame.
LEMMA AnswersKept ==
    ASSUME Inv, TypeOK', Monotone, UNCHANGED <<down, home>>,
           \A d \in Conns : srv'[d] = srv[d] \/ (srv[d] = "open" /\ srv'[d] = "ending"),
           \A d \in Conns : Connecting(d)' => Connecting(d),
           \A d \in Conns : pc'[d] \in {"length", "data"} =>
               \/ pc[d] \in {"length", "data"} /\ sess'[d] = sess[d]
               \/ readers'[sess'[d]][d] # None,
           \A s \in Sids, d \in Conns : readers[s][d] # None =>
               readers'[s][d] # None \/ closed'[s] \/ pc'[d] \in Gone,
           \A d \in Conns : pc[d] \in Gone => pc'[d] \in Gone
    PROVE  Answers'
<1> USE DEF Inv
<1>1. (\A c \in Conns : Connecting(c) => srv[c] = "none")'
  BY DEF Answers
<1>2. (\A c \in Conns : pc[c] \in {"length", "data"} => readers[sess[c]][c] # None \/ closed[sess[c]])'
  <2>1. SUFFICES ASSUME NEW c \in Conns, pc'[c] \in {"length", "data"},
                        pc[c] \in {"length", "data"}, sess'[c] = sess[c]
                 PROVE  readers'[sess[c]][c] # None \/ closed'[sess[c]]
    OBVIOUS
  <2>2. sess[c] \in Sids /\ pc'[c] \notin Gone
    BY <2>1 DEF TypeOK, FlowType, WithSession, Gone
  <2> QED
    BY <2>1, <2>2 DEF Answers, Monotone
<1>3. (\A c \in Conns : srv[c] \in {"open", "ending"} =>
           /\ home[c] \in Sids
           /\ readers[home[c]][c] # None \/ closed[home[c]] \/ pc[c] \in Gone)'
  BY DEF Answers, Monotone
<1>4. ASSUME NEW s \in Sids, NEW i \in 1..Len(down[s])
      PROVE  FrameOK(s, i)'
  <2>1. FrameOK(s, i) /\ down[s][i][1] \in Conns
    BY FrameTypes DEF Answers
  <2> QED
    BY <2>1 DEF FrameOK, Monotone
<1> QED
  BY <1>1, <1>2, <1>3, <1>4 DEF Answers

LEMMA AnswersStep ==
    ASSUME Inv, TypeOK', Monotone, [Next]_vars
    PROVE  Answers'
<1> USE DEF Inv, tableVars, answerVars, Moves
<1>1. ASSUME NEW c \in Conns, UNCHANGED <<readers, down, srv, home, why>>,
             \A d \in Conns \ {c} : pc'[d] = pc[d] /\ sess'[d] = sess[d],
             pc[c] \in Early \/ pc'[c] \notin Early, pc'[c] \notin {"length", "data"},
             pc[c] \notin Gone \/ pc'[c] \in Gone
      PROVE  Answers'
  BY <1>1, AnswersKept DEF Connecting
<1>2. ASSUME NEW c \in Conns,
             \/ PickSession(c) \/ StartSession(c) \/ StartFails(c) \/ StartUplink(c) \/ Close(c)
             \/ Inactive(c)
      PROVE  Answers'
  <2>1. /\ UNCHANGED <<readers, down, srv, home, why>>
        /\ \A d \in Conns \ {c} : pc'[d] = pc[d] /\ sess'[d] = sess[d]
        /\ \/ pc[c] \in {"pick", "start", "uplink"}
              /\ pc'[c] \in {"start", "pin", "uplink", "add", "done", "close"}
           \/ pc[c] = "run" /\ pc'[c] = "close"
           \/ pc[c] = "inactive" /\ pc'[c] = "shrink"
    BY <1>2, PickFacts, StartFacts, StartFailsFacts, StartUplinkFacts, RunFacts
  <2> QED
    BY <1>1, <2>1 DEF Early, Gone
<1>3. ASSUME NEW c \in Conns, AddSession(c)
      PROVE  Answers'
  <2>1. /\ pc[c] = "add" /\ sess[c] \in Sids /\ UNCHANGED <<down, srv, home, why>> /\ pc'[c] = "pin"
        /\ \A d \in Conns \ {c} : pc'[d] = pc[d] /\ sess'[d] = sess[d]
        /\ Closing({sess[c]}) \/ readers' = readers
    BY <1>3, AddFacts
  <2>2. \A s \in Sids, d \in Conns : readers[s][d] # None => readers'[s][d] # None \/ closed'[s]
    BY <2>1 DEF Closing
  <2> QED
    BY <2>1, <2>2, AnswersKept DEF Connecting, Early, Gone
<1>4. ASSUME NEW c \in Conns, PinConn(c)
      PROVE  Answers'
  <2>1. /\ pc[c] = "pin" /\ sess[c] \in Sids /\ PinnedTo(sess[c], c)
        /\ Moves(c, IF why[c] = "connect" THEN "length" ELSE "reader", sess[c])
        /\ UNCHANGED <<down, srv, home, why>>
    BY <1>4, PinConnFacts
  <2>2. \A s \in Sids, d \in Conns : readers[s][d] # None => readers'[s][d] # None
    BY <2>1 DEF PinnedTo
  <2>3. readers'[sess'[c]][c] # None
    BY <2>1 DEF PinnedTo
  <2>4. Connecting(c)' => Connecting(c)
    BY <2>1 DEF Connecting, Early
  <2> QED
    BY <2>1, <2>2, <2>3, <2>4, AnswersKept DEF Connecting, Gone
<1>5. ASSUME NEW c \in Conns, OpenConnReader(c)
      PROVE  Answers'
  <2>1. /\ pc[c] = "reader" /\ sess[c] \in Sids /\ PinnedTo(sess[c], c) /\ Moves(c, "run", None)
        /\ UNCHANGED <<down, srv, home, why>>
    BY <1>5, ReaderFacts
  <2>2. \A s \in Sids, d \in Conns : readers[s][d] # None => readers'[s][d] # None
    BY <2>1 DEF PinnedTo
  <2> QED
    BY <2>1, <2>2, AnswersKept DEF Connecting, Early, Gone
<1>6. ASSUME NEW c \in Conns, DownloadStream(c)
      PROVE  Answers'
  <2>1. /\ pc[c] = "download" /\ UNCHANGED <<readers, down, srv, home>> /\ why'[c] = "download"
        /\ pc'[c] \in {"pick", "reader"}
        /\ \A d \in Conns \ {c} : pc'[d] = pc[d] /\ sess'[d] = sess[d] /\ why'[d] = why[d]
    BY <1>6, DownloadFacts
  <2> QED
    BY <2>1, AnswersKept DEF Connecting, Early, Gone
<1>7. ASSUME NEW c \in Conns, CloseWrites(c)
      PROVE  Answers'
  <2>1. /\ pc[c] \in {"close", "cdata", "unpin"} /\ UNCHANGED <<down, home, why>>
        /\ pc'[c] \in {"inactive", "cdata", "unpin"}
        /\ \A d \in Conns \ {c} : pc'[d] = pc[d] /\ sess'[d] = sess[d] /\ srv'[d] = srv[d]
        /\ srv'[c] = srv[c] \/ (srv[c] = "open" /\ srv'[c] = "ending")
        /\ readers' = readers \/ (pc'[c] = "inactive" /\ Unpinned(sess[c], c))
    BY <1>7, CloseConnFacts
  <2>2. \A s \in Sids, d \in Conns : readers[s][d] # None => readers'[s][d] # None \/ pc'[d] \in Gone
    BY <2>1 DEF Unpinned, Gone
  <2> QED
    BY <2>1, <2>2, AnswersKept DEF Connecting, Early, Gone
<1>8. ASSUME NEW c \in Conns, MaybeShrinkSessions(c)
      PROVE  Answers'
  <2>1. PICK S \in SUBSET Sids : Closing(S)
    BY <1>8, ShrinkFacts
  <2>2. pc[c] = "shrink" /\ Moves(c, "done", sess[c]) /\ UNCHANGED <<down, srv, home, why>>
    BY <1>8, ShrinkMoves
  <2>3. \A s \in Sids, d \in Conns : readers[s][d] # None => readers'[s][d] # None \/ closed'[s]
    BY <2>1 DEF Closing
  <2> QED
    BY <2>2, <2>3, AnswersKept DEF Connecting, Early, Gone
<1>9. ASSUME NEW c \in Conns, ConnectWrites(c)
      PROVE  Answers'
  <2>1. /\ pc[c] \in {"length", "data"} /\ sess[c] \in Sids /\ UNCHANGED <<closed, down, why>>
        /\ \A d \in Conns \ {c} : pc'[d] = pc[d] /\ sess'[d] = sess[d]
        /\ srv[c] = "none"
    BY <1>9, ConnectFacts DEF Answers, Connecting
  <2>2. CASE Unpinned(sess[c], c) /\ Moves(c, "done", None) /\ UNCHANGED <<srv, home>>
    <3>1. \A s \in Sids, d \in Conns : readers[s][d] # None => readers'[s][d] # None \/ pc'[d] \in Gone
      BY <2>2 DEF Unpinned, Gone
    <3> QED
      BY <2>1, <2>2, <3>1, AnswersKept DEF Connecting, Early, Gone
  <2>3. CASE Moves(c, "data", sess[c]) /\ UNCHANGED <<readers, srv, home>>
    BY <2>1, <2>3, AnswersKept DEF Connecting, Early, Gone
  <2>4. CASE /\ CanWrite(sess[c]) /\ Moves(c, "download", None) /\ readers' = readers
             /\ \/ srv'[c] = "open" /\ home'[c] = sess[c]
                \/ srv'[c] = srv[c] /\ home'[c] = home[c]
             /\ \A d \in Conns \ {c} : srv'[d] = srv[d] /\ home'[d] = home[d]
    <3>1. readers[sess[c]][c] # None
      BY <2>1, <2>4 DEF Answers, CanWrite
    <3>2. (\A d \in Conns : Connecting(d) => srv[d] = "none")'
      BY <2>1, <2>4 DEF Answers, Connecting, Early
    <3>3. (\A d \in Conns : pc[d] \in {"length", "data"} => readers[sess[d]][d] # None \/ closed[sess[d]])'
      BY <2>1, <2>4 DEF Answers
    <3>4. (\A d \in Conns : srv[d] \in {"open", "ending"} =>
             /\ home[d] \in Sids
             /\ readers[home[d]][d] # None \/ closed[home[d]] \/ pc[d] \in Gone)'
      BY <2>1, <2>4, <3>1 DEF Answers
    <3>5. ASSUME NEW s \in Sids, NEW i \in 1..Len(down[s])
          PROVE  FrameOK(s, i)'
      <4>1. FrameOK(s, i) /\ down[s][i][1] \in Conns
        BY FrameTypes DEF Answers
      <4>2. down[s][i][1] # c
        BY <2>1, <4>1 DEF FrameOK
      <4> QED
        BY <2>1, <2>4, <4>1, <4>2 DEF FrameOK
    <3> QED
      BY <2>1, <3>2, <3>3, <3>4, <3>5 DEF Answers
  <2> QED
    BY <1>9, <2>2, <2>3, <2>4, ConnectFacts
<1>10. ASSUME NEW c \in Conns, ServerSends(c)
       PROVE  Answers'
  <2>1. srv[c] \in {"open", "ending"} /\ home[c] \in Sids
    BY <1>10 DEF ServerSends, Answers
  <2> DEFINE h == home[c]
  <2>2. /\ UNCHANGED <<closed, readers, home, pc, why, sess>>
        /\ \A d \in Conns \ {c} : srv'[d] = srv[d]
    BY <1>10, <2>1, ServerFacts
  <2>3. PICK n \in Nat : /\ down'[h] = Append(down[h], <<c, n>>)
                         /\ \A s \in Sids \ {h} : down'[s] = down[s]
                         /\ (n # 0 /\ srv'[c] = srv[c]) \/ (n = 0 /\ srv'[c] = "ended")
    BY <1>10, <2>1, ServerFacts
  <2>4. down[h] \in Seq(Conns \X Nat) /\ <<c, n>> \in Conns \X Nat
    BY <2>1 DEF TypeOK
  <2>5. /\ Len(down'[h]) = Len(down[h]) + 1 /\ Len(down[h]) \in Nat
        /\ \A i \in 1..Len(down[h]) : down'[h][i] = down[h][i]
        /\ down'[h][Len(down[h]) + 1] = <<c, n>>
    BY <2>3, <2>4
  <2>6. (\A d \in Conns : Connecting(d) => srv[d] = "none")'
    BY <2>1, <2>2 DEF Answers, Connecting
  <2>7. (\A d \in Conns : pc[d] \in {"length", "data"} => readers[sess[d]][d] # None \/ closed[sess[d]])'
    BY <2>2 DEF Answers
  <2>8. (\A d \in Conns : srv[d] \in {"open", "ending"} =>
           /\ home[d] \in Sids
           /\ readers[home[d]][d] # None \/ closed[home[d]] \/ pc[d] \in Gone)'
    BY <2>1, <2>2, <2>3 DEF Answers
  <2>9. ASSUME NEW s \in Sids, NEW i \in 1..Len(down'[s])
        PROVE  FrameOK(s, i)'
    <3>1. CASE s # h
      <4>1. FrameOK(s, i) /\ down[s][i][1] \in Conns /\ down'[s] = down[s]
        BY <2>3, <2>9, <3>1, FrameTypes DEF Answers
      <4>2. down[s][i][1] # c
        BY <3>1, <4>1 DEF FrameOK
      <4> QED
        BY <2>2, <4>1, <4>2 DEF FrameOK
    <3>2. CASE s = h /\ i \in 1..Len(down[h])
      <4>1. FrameOK(h, i) /\ down[h][i][1] \in Conns /\ down[h][i][2] \in Nat
        BY <2>1, <3>2, FrameTypes DEF Answers
      <4>2. down[h][i][2] = 0 => down[h][i][1] # c
        BY <2>1, <4>1 DEF FrameOK
      <4>3. \A j \in 1..Len(down'[h]) : j \in 1..Len(down[h]) \/ down'[h][j][1] = c
        BY <2>5
      <4>4. srv'[down[h][i][1]] # "none" /\ (down[h][i][1] # c => srv'[down[h][i][1]] = srv[down[h][i][1]])
        BY <2>1, <2>2, <2>3, <4>1 DEF FrameOK
      <4> QED
        BY <2>2, <2>5, <3>2, <4>1, <4>2, <4>3, <4>4 DEF FrameOK
    <3>3. CASE s = h /\ i = Len(down[h]) + 1
      <4>1. down'[h][i][1] = c /\ down'[h][i][2] = n
        BY <2>5, <3>3
      <4>2. ~\E j \in 1..Len(down'[h]) : j > i
        BY <2>5, <3>3
      <4>3. readers[h][c] # None \/ closed[h] \/ pc[c] \in Gone
        BY <2>1 DEF Answers
      <4> QED
        BY <2>1, <2>2, <2>3, <3>3, <4>1, <4>2, <4>3 DEF FrameOK
    <3>4. s = h => i \in 1..Len(down[h]) \/ i = Len(down[h]) + 1
      BY <2>5, <2>9
    <3> QED
      BY <3>1, <3>2, <3>3, <3>4
  <2> QED
    BY <2>6, <2>7, <2>8, <2>9 DEF Answers
<1>11. ASSUME NEW s \in Sids, DemuxFrame(s)
       PROVE  Answers'
  <2>1. /\ down[s] # <<>> /\ down'[s] = Tail(down[s]) /\ \A t \in Sids \ {s} : down'[t] = down[t]
        /\ UNCHANGED <<closed, pc, why, sess, srv, home>>
    BY <1>11, DemuxFacts
  <2>2. /\ Len(down[s]) \in Nat /\ Len(down[s]) > 0 /\ Head(down[s]) = down[s][1]
        /\ Len(down'[s]) = Len(down[s]) - 1
        /\ \A i \in 1..(Len(down[s]) - 1) : down'[s][i] = down[s][i + 1]
    <3>1. down[s] \in Seq(Conns \X Nat)
      BY DEF TypeOK
    <3> QED
      BY <2>1, <3>1, HeadTailProperties, EmptySeq
  <2>3. FrameOK(s, 1) /\ down[s][1][1] \in Conns /\ 1 \in 1..Len(down[s])
    BY <2>2, FrameTypes DEF Answers
  <2>4. \A t \in Sids, d \in Conns :
            \/ readers'[t][d] = readers[t][d]
            \/ t = s /\ d = down[s][1][1] /\ down[s][1][2] = 0
    BY <1>11, <2>2, DemuxFacts DEF Unpinned
  <2>5. down[s][1][2] = 0 => /\ srv[down[s][1][1]] = "ended"
                             /\ \A j \in 1..Len(down[s]) : j > 1 => down[s][j][1] # down[s][1][1]
    BY <2>3 DEF FrameOK
  <2>6. (\A d \in Conns : Connecting(d) => srv[d] = "none")'
    BY <2>1 DEF Answers, Connecting
  <2>7. (\A d \in Conns : pc[d] \in {"length", "data"} => readers[sess[d]][d] # None \/ closed[sess[d]])'
    <3>1. SUFFICES ASSUME NEW d \in Conns, pc[d] \in {"length", "data"}
                   PROVE  readers'[sess[d]][d] # None \/ closed[sess[d]]
      BY <2>1
    <3>2. srv[d] = "none" /\ sess[d] \in Sids
      BY <3>1 DEF Answers, Connecting, TypeOK, FlowType, WithSession
    <3>3. readers'[sess[d]][d] = readers[sess[d]][d]
      BY <2>4, <2>5, <3>2
    <3> QED
      BY <3>1, <3>3 DEF Answers
  <2>8. (\A d \in Conns : srv[d] \in {"open", "ending"} =>
           /\ home[d] \in Sids
           /\ readers[home[d]][d] # None \/ closed[home[d]] \/ pc[d] \in Gone)'
    <3>1. SUFFICES ASSUME NEW d \in Conns, srv[d] \in {"open", "ending"}
                   PROVE  /\ home[d] \in Sids
                          /\ readers'[home[d]][d] # None \/ closed[home[d]] \/ pc[d] \in Gone
      BY <2>1
    <3>2. home[d] \in Sids
      BY <3>1 DEF Answers
    <3>3. readers'[home[d]][d] = readers[home[d]][d]
      BY <2>4, <2>5, <3>1, <3>2
    <3> QED
      BY <3>1, <3>2, <3>3 DEF Answers
  <2>9. ASSUME NEW t \in Sids, t # s, NEW i \in 1..Len(down'[t])
        PROVE  FrameOK(t, i)'
    <3>1. FrameOK(t, i) /\ down[t][i][1] \in Conns /\ down'[t] = down[t]
      BY <2>1, <2>9, FrameTypes DEF Answers
    <3>2. readers'[t][down[t][i][1]] = readers[t][down[t][i][1]]
      BY <2>4, <2>9, <3>1
    <3> QED
      BY <2>1, <3>1, <3>2 DEF FrameOK
  <2>10. ASSUME NEW i \in 1..Len(down'[s])
         PROVE  FrameOK(s, i)'
    <3>1. /\ i + 1 \in 1..Len(down[s]) /\ i + 1 > 1 /\ down'[s][i] = down[s][i + 1]
          /\ \A j \in 1..Len(down'[s]) : /\ j + 1 \in 1..Len(down[s]) /\ down'[s][j] = down[s][j + 1]
                                         /\ j > i => j + 1 > i + 1
      BY <2>2, <2>10
    <3>2. FrameOK(s, i + 1) /\ down[s][i + 1][1] \in Conns
      BY <3>1, FrameTypes DEF Answers
    <3>3. readers'[s][down[s][i + 1][1]] = readers[s][down[s][i + 1][1]]
      BY <2>4, <2>5, <3>1, <3>2
    <3> QED
      BY <2>1, <3>1, <3>2, <3>3 DEF FrameOK
  <2> QED
    BY <2>6, <2>7, <2>8, <2>9, <2>10 DEF Answers
<1>12. ASSUME NEW s \in Sids, DemuxEnds(s) \/ UplinkEnds(s)
       PROVE  Answers'
  <2>1. Closing({s}) /\ UNCHANGED <<down, srv, home, pc, why, sess>>
    BY <1>12, EndsFacts
  <2>2. \A t \in Sids, d \in Conns : readers[t][d] # None => readers'[t][d] # None \/ closed'[t]
    BY <2>1 DEF Closing
  <2> QED
    BY <2>1, <2>2, AnswersKept DEF Connecting
<1>13. ASSUME UNCHANGED <<readers, down, srv, home, pc, why, sess>>
       PROVE  Answers'
  BY <1>13, AnswersKept DEF Connecting
<1>14. ASSUME NEW s \in Sids, UplinkBreaks(s)
       PROVE  Answers'
  BY <1>13, <1>14, BreaksFacts
<1>15. ASSUME NEW c \in Conns, Read(c)
       PROVE  Answers'
  BY <1>13, <1>15, ReadFacts
<1>16. ASSUME UNCHANGED coreVars
       PROVE  Answers'
  BY <1>13, <1>16 DEF coreVars
<1> QED
  BY <1>2, <1>3, <1>4, <1>5, <1>6, <1>7, <1>8, <1>9, <1>10, <1>11, <1>12, <1>14, <1>15, <1>16,
     QuietFacts DEF Next, Conn, Session
------------------------------------------------------------------------------
(* The invariant *)

LEMMA InvInit == Init => Inv
<1> SUFFICES ASSUME Init PROVE Inv
  OBVIOUS
<1>1. TypeOK
  <2>1. /\ sessions \in Seq(Sids) /\ started \in 0..MaxStarts
        /\ down \in [Sids -> Seq(Conns \X Nat)]
        /\ closed \in [Sids -> BOOLEAN] /\ ended \in [Pipes -> BOOLEAN]
        /\ uplink \in [Sids -> {"nil", "open", "broken", "closed"}]
    BY Consts DEF Init
  <2>2. FlowType
    BY DEF Init, FlowType, WithSession, Places, Early
  <2>3. /\ readers \in [Sids -> [Conns -> Pipes \cup {None}]]
        /\ why \in [Conns -> {"connect", "download"}]
        /\ reader \in [Conns -> Pipes \cup {None}]
        /\ srv \in [Conns -> {"none", "open", "ending", "ended"}]
        /\ home \in [Conns -> Sids \cup {None}] /\ sent \in [Conns -> Nat]
    BY DEF Init
  <2> QED
    BY <2>1, <2>2, <2>3 DEF TypeOK
<1>2. Pool = {} /\ Len(sessions) = 0
  BY DEF Init, Pool
<1>3. Placed
  BY <1>2, Consts DEF Init, Placed, InHand
<1>4. Pinned /\ Owned
  BY DEF Init, Pinned, Owned
<1>5. Looked
  BY <1>2 DEF Looked
<1>6. NoOrphanSession
  BY DEF Init, NoOrphanSession
<1>7. Answers
  BY DEF Init, Answers
<1> QED
  BY <1>1, <1>3, <1>4, <1>5, <1>6, <1>7 DEF Inv

LEMMA InvStep == Inv /\ [Next]_vars => Inv'
<1> SUFFICES ASSUME Inv, [Next]_vars PROVE Inv'
  OBVIOUS
<1>1. TypeOK' /\ Monotone
  BY MonotoneStep
<1> QED
  BY <1>1, PlacedStep, PinnedStep, OwnedStep, LookedStep, OrphanStep, AnswersStep DEF Inv

\* The table of sessions, the pins, the pipes and the frames on their way down
\* agree in every state of the stream mode, however the goroutines of
\* session.go interleave.
THEOREM SessionsAgree == Spec => []Inv
BY InvInit, InvStep, PTL DEF Spec

\* startSession and pickSession lose no session: one that is not closed is in
\* t.sessions or in the hands of the goroutine that starts it.
THEOREM NoSessionIsLost == Spec => []NoOrphanSession
<1>1. Inv => NoOrphanSession
  BY DEF Inv
<1> QED
  BY <1>1, SessionsAgree, PTL

------------------------------------------------------------------------------
(* The pipe that is read *)

\* A connection reads a pipe only once its reader has been opened.
Opened ==
    \A c \in Conns : reader[c] # None => pc[c] \in {"run", "close", "cdata", "unpin"} \cup Gone

\* A step of c that keeps to these places, or is before them and opens no reader.
LEMMA OpenedKept ==
    ASSUME Inv, Opened, NEW c \in Conns, NEW l, NEW x, Moves(c, l, x), reader' = reader,
           pc[c] \in {"run", "close", "cdata", "unpin"} \cup Gone =>
               l \in {"run", "close", "cdata", "unpin"} \cup Gone
    PROVE  Opened'
BY DEF Opened, Moves

LEMMA OpenedStep ==
    ASSUME Inv, Opened, [Next]_vars
    PROVE  Opened'
<1> USE DEF Inv, tableVars, Gone
<1>1. ASSUME UNCHANGED <<pc, reader>>
      PROVE  Opened'
  BY <1>1 DEF Opened
<1>2. ASSUME NEW c \in Conns, pc[c] \in Early \cup {"length", "data", "download"}, reader' = reader,
             \A d \in Conns \ {c} : pc'[d] = pc[d]
      PROVE  Opened'
  BY <1>2 DEF Opened, Early
<1>3. ASSUME NEW c \in Conns, PickSession(c) \/ StartSession(c) \/ StartFails(c)
      PROVE  Opened'
  BY <1>2, <1>3, PickFacts, StartFacts, StartFailsFacts DEF Moves, Early
<1>4. ASSUME NEW c \in Conns, StartUplink(c) \/ AddSession(c) \/ PinConn(c)
      PROVE  Opened'
  <2>1. pc[c] \in Early /\ reader' = reader
    BY <1>4, StartUplinkFacts, AddFacts, PinConnFacts DEF Early
  <2>2. CASE StartUplink(c)
    BY <1>2, <2>1, <2>2, StartUplinkFacts DEF Moves
  <2>3. CASE AddSession(c)
    <3>1. \E x : Moves(c, "pin", x)
      BY <2>3, AddFacts
    <3> QED
      BY <1>2, <2>1, <3>1 DEF Moves
  <2>4. CASE PinConn(c)
    BY <1>2, <2>1, <2>4, PinConnFacts DEF Moves
  <2> QED
    BY <1>4, <2>2, <2>3, <2>4
<1>5. ASSUME NEW c \in Conns, ConnectWrites(c) \/ DownloadStream(c)
      PROVE  Opened'
  BY <1>2, <1>5, ConnectFacts, DownloadFacts DEF Moves
<1>6. ASSUME NEW c \in Conns, OpenConnReader(c)
      PROVE  Opened'
  BY <1>6, ReaderFacts DEF Opened, Moves
<1>7. ASSUME NEW c \in Conns, Read(c)
      PROVE  Opened'
  BY <1>7, ReadFacts DEF Opened
<1>8. ASSUME NEW c \in Conns, Close(c) \/ Inactive(c) \/ MaybeShrinkSessions(c)
      PROVE  Opened'
  BY <1>8, OpenedKept, RunFacts, ShrinkMoves
<1>9. ASSUME NEW c \in Conns, CloseWrites(c)
      PROVE  Opened'
  BY <1>9, OpenedKept, CloseConnFacts
<1>10. ASSUME NEW c \in Conns, ServerSends(c)
       PROVE  Opened'
  BY <1>1, <1>10 DEF ServerSends, flowVars
<1>11. ASSUME NEW s \in Sids, Session(s)
       PROVE  Opened'
  BY <1>1, <1>11 DEF Session, DemuxFrame, Deliver, DemuxEnds, UplinkBreaks, UplinkEnds, flowVars
<1>12. ASSUME UNCHANGED coreVars
       PROVE  Opened'
  BY <1>1, <1>12 DEF coreVars
<1> QED
  BY <1>3, <1>4, <1>5, <1>6, <1>7, <1>8, <1>9, <1>10, <1>11, <1>12, QuietFacts DEF Next, Conn

\* A pipe that is read and open, in the table of a closed session.
Late(c) ==
    /\ reader[c] # None /\ ~ended[reader[c]]
    /\ \E s \in Sids : readers[s][c] = reader[c] /\ closed[s]

StrandedIsLate == \A c \in Conns : Stranded(c) <=> Late(c)

\* The invariant leaves no other way to be stranded: a pinned connection has one
\* session, closed or in the pool, where sessionFor finds it.
LEMMA StrandedWhere == Inv => StrandedIsLate
<1> SUFFICES ASSUME Inv, NEW c \in Conns, reader[c] # None, ~ended[reader[c]]
             PROVE  Stranded(c) <=> Late(c)
  BY DEF StrandedIsLate, Stranded, Late
<1> USE DEF Inv
<1>1. PICK s \in Sids : readers[s][c] = reader[c]
  BY DEF Owned
<1>2. closed[s] \/ s \in Pool
  BY <1>1 DEF Pinned
<1>3. \A t \in Sids : readers[t][c] # None => t = s
  BY <1>1 DEF Pinned
<1>4. SessionFor(c) # None => SessionFor(c) = s
  BY <1>3, SessionForFacts
<1>5. SessionFor(c) = None => s \notin Pool
  BY <1>1, SessionForFacts
<1>6. Findable(c) <=> ~closed[s]
  BY <1>1, <1>2, <1>4, <1>5, Consts DEF Findable
<1>7. Late(c) <=> closed[s]
  BY <1>1, <1>3 DEF Late
<1> QED
  BY <1>6, <1>7 DEF Stranded

\* Only pin and openConnReader of c itself put a pipe of c into a table, and a
\* session that closes empties its own.
TableKept(c) ==
    /\ reader'[c] \in {reader[c], None}
    /\ \A s \in Sids : /\ readers'[s][c] \in {readers[s][c], None}
                       /\ closed'[s] /\ ~closed[s] => readers'[s][c] = None

LEMMA TableStep ==
    ASSUME Inv, [Next]_vars, NEW c \in Conns, ~PinConn(c), ~OpenConnReader(c)
    PROVE  TableKept(c)
<1> USE DEF Inv, tableVars
<1>1. ASSUME UNCHANGED <<readers, reader, closed>>
      PROVE  TableKept(c)
  BY <1>1 DEF TableKept
<1>2. ASSUME NEW S \in SUBSET Sids, Closing(S), reader' = reader
      PROVE  TableKept(c)
  BY <1>2 DEF TableKept, Closing
<1>3. ASSUME NEW s \in Sids, NEW d \in Conns, Unpinned(s, d), reader' = reader, closed' = closed
      PROVE  TableKept(c)
  BY <1>3 DEF TableKept, Unpinned
<1>4. ASSUME NEW d \in Conns,
             \/ PickSession(d) \/ StartSession(d) \/ StartFails(d) \/ StartUplink(d)
             \/ DownloadStream(d) \/ Close(d) \/ Inactive(d) \/ ServerSends(d)
      PROVE  UNCHANGED <<readers, reader, closed>>
  BY <1>4, PickFacts, StartFacts, StartFailsFacts, StartUplinkFacts, DownloadFacts, RunFacts
     DEF ServerSends, sessVars
<1>5. ASSUME NEW d \in Conns, AddSession(d)
      PROVE  TableKept(c)
  <2>1. sess[d] \in Sids /\ reader' = reader
        /\ (Closing({sess[d]}) \/ (readers' = readers /\ closed' = closed))
    BY <1>5, AddFacts
  <2> QED
    BY <1>1, <1>2, <2>1
<1>6. ASSUME NEW d \in Conns, PinConn(d) \/ OpenConnReader(d)
      PROVE  TableKept(c)
  <2>1. /\ d # c /\ sess[d] \in Sids /\ PinnedTo(sess[d], d) /\ closed' = closed
        /\ reader'[c] = reader[c]
    BY <1>6, PinConnFacts, ReaderFacts
  <2>2. \A s \in Sids : readers'[s][c] = readers[s][c]
    BY <2>1 DEF PinnedTo
  <2> QED
    BY <2>1, <2>2 DEF TableKept
<1>7. ASSUME NEW d \in Conns, ConnectWrites(d) \/ CloseWrites(d)
      PROVE  TableKept(c)
  <2>1. /\ reader' = reader /\ closed' = closed
        /\ readers' = readers \/ (sess[d] \in Sids /\ Unpinned(sess[d], d))
    BY <1>7, ConnectFacts, CloseConnFacts
  <2> QED
    BY <1>1, <1>3, <2>1
<1>8. ASSUME NEW d \in Conns, MaybeShrinkSessions(d)
      PROVE  TableKept(c)
  BY <1>2, <1>8, ShrinkFacts, ShrinkMoves
<1>9. ASSUME NEW d \in Conns, Read(d)
      PROVE  TableKept(c)
  BY <1>9, ReadFacts DEF TableKept
<1>10. ASSUME NEW s \in Sids, Session(s)
       PROVE  TableKept(c)
  <2>1. CASE DemuxFrame(s)
    BY <1>1, <1>3, <2>1, DemuxFacts
  <2>2. CASE DemuxEnds(s) \/ UplinkEnds(s)
    BY <1>2, <2>2, EndsFacts
  <2>3. CASE UplinkBreaks(s)
    BY <1>1, <2>3, BreaksFacts
  <2>4. CASE Deliver(s)
    BY <1>1, <2>4 DEF Deliver, sessVars
  <2> QED
    BY <1>10, <2>1, <2>2, <2>3, <2>4 DEF Session
<1>11. ASSUME UNCHANGED coreVars
       PROVE  TableKept(c)
  BY <1>1, <1>11 DEF coreVars
<1> QED
  BY <1>1, <1>4, <1>5, <1>6, <1>7, <1>8, <1>9, <1>10, <1>11, QuietFacts DEF Next, Conn

\* A pipe becomes late only when openConnReader puts it into a closed session.
LEMMA LateStep ==
    ASSUME Inv, Inv', Opened, [Next]_vars, NEW c \in Conns, Late(c)'
    PROVE  Late(c) \/ (pc[c] = "reader" /\ closed[sess[c]])
<1> USE DEF Inv
<1>1. PICK s \in Sids : readers'[s][c] = reader'[c] /\ closed'[s]
  BY DEF Late
<1>2. reader'[c] # None /\ ~ended'[reader'[c]] /\ reader'[c] \in Pipes
  BY DEF Late, TypeOK
<1>3. CASE OpenConnReader(c)
  <2>1. /\ pc[c] = "reader" /\ sess[c] \in Sids /\ closed' = closed
        /\ reader'[c] = readers'[sess[c]][c]
    BY <1>3, ReaderFacts
  <2>2. s = sess[c]
    BY <1>1, <1>2, <2>1 DEF Pinned
  <2> QED
    BY <1>1, <2>1, <2>2
<1>4. CASE PinConn(c)
  <2>1. pc[c] = "pin" /\ reader' = reader
    BY <1>4, PinConnFacts
  <2> QED
    BY <1>2, <2>1 DEF Opened, Gone
<1>5. CASE ~PinConn(c) /\ ~OpenConnReader(c)
  <2>1. TableKept(c)
    BY <1>5, TableStep
  <2>2. /\ reader'[c] = reader[c] /\ readers'[s][c] = readers[s][c]
        /\ readers[s][c] = reader[c] /\ readers'[s][c] # None
    <3>1. readers'[s][c] = reader'[c] /\ reader'[c] # None
      BY <1>1, <1>2
    <3>2. reader'[c] \in {reader[c], None} /\ readers'[s][c] \in {readers[s][c], None}
      BY <1>1, <2>1 DEF TableKept
    <3> QED
      BY <3>1, <3>2
  <2>4. closed[s]
    BY <1>1, <2>1, <2>2, Zenon DEF TableKept
  <2>3. ~ended[reader[c]]
    BY <1>2, <2>2, MonotoneStep DEF Monotone
  <2> QED
    BY <1>2, <2>2, <2>3, <2>4 DEF Late
<1> QED
  BY <1>3, <1>4, <1>5

\* A pipe that pumpRead reads stays where CloseConn and the close of its session
\* find it until it is closed; only openConnReader on a session that was closed
\* under its hands makes a pipe that nobody will close.
THEOREM ReadPipeKeepsOwner == Spec => PipeKeepsOwner
<1> DEFINE A == \A c \in Conns :
               Stranded(c)' => Stranded(c) \/ (pc[c] = "reader" /\ closed[sess[c]])
<1>1. Init => Opened
  BY DEF Init, Opened
<1>2. Inv /\ Opened /\ [Next]_vars => Opened'
  BY OpenedStep
<1>3. Inv /\ Inv' /\ Opened /\ StrandedIsLate /\ StrandedIsLate' /\ [Next]_vars => [A]_vars
  <2> SUFFICES ASSUME Inv, Inv', Opened, StrandedIsLate, StrandedIsLate', [Next]_vars,
                      NEW c \in Conns, Stranded(c)'
               PROVE  Stranded(c) \/ (pc[c] = "reader" /\ closed[sess[c]])
    OBVIOUS
  <2>1. Late(c)'
    BY DEF StrandedIsLate
  <2> QED
    BY <2>1, LateStep DEF StrandedIsLate
<1> QED
  BY <1>1, <1>2, <1>3, StrandedWhere, SessionsAgree, PTL DEF Spec, PipeKeepsOwner

\* deliver finds the pipe of every chunk, since Connect pins before it writes,
\* unless the session or the connection has been closed meanwhile.
THEOREM AnswersFindTheirPipe == Spec => []ChunkHasPipe
<1>1. Inv => ChunkHasPipe
  <2> SUFFICES ASSUME Inv, NEW s \in Sids, NEW i \in 1..Len(down[s])
               PROVE  \/ down[s][i][2] = 0
                      \/ readers[s][down[s][i][1]] # None
                      \/ closed[s] \/ pc[down[s][i][1]] \in {"inactive", "shrink", "done"}
    BY DEF ChunkHasPipe
  <2> QED
    BY DEF Inv, Answers, FrameOK, Gone
<1> QED
  BY <1>1, SessionsAgree, PTL

\* When every connection has gone, maybeShrinkSessions has left at most one
\* session, but for one that the goroutine of a broken uplink is about to close.
THEOREM IdlePoolHasOne == Spec => []IdlePoolShrinks
<1>1. Inv => IdlePoolShrinks
  <2> SUFFICES ASSUME Inv, \A c \in Conns : pc[c] = "done"
               PROVE  Cardinality({s \in Live : uplink[s] # "broken"}) <= 1
    BY DEF IdlePoolShrinks
  <2> DEFINE L == {s \in Live : uplink[s] # "broken"}
  <2>1. \A c \in Conns : ~WillShrink(c) /\ \A s \in Sids : ~WillConnect(c, s)
    BY DEF WillShrink, WillConnect, Early
  <2>2. Len(sessions) \in Nat /\ \A i \in 1..Len(sessions) : sessions[i] \in Sids
    BY DEF Inv, TypeOK
  <2>3. \A i \in 1..Len(sessions) : i > 1 => closed[sessions[i]] \/ uplink[sessions[i]] = "broken"
    BY <2>1, <2>2 DEF Inv, Looked
  <2>4. \A s \in L : s = sessions[1]
    <3> SUFFICES ASSUME NEW i \in 1..Len(sessions), ~closed[sessions[i]],
                        uplink[sessions[i]] # "broken"
                 PROVE  sessions[i] = sessions[1]
      BY DEF Live, Pool
    <3>1. i = 1
      BY <2>2, <2>3
    <3> QED
      BY <3>1
  <2>5. L \in SUBSET {sessions[1]}
    BY <2>4
  <2>6. Cardinality(L) <= Cardinality({sessions[1]}) /\ Cardinality({sessions[1]}) = 1
    BY <2>5, FS_Subset, FS_Singleton
  <2>7. Cardinality(L) <= 1
    BY <2>6
  <2> QED
    BY <2>7
<1> QED
  BY <1>1, SessionsAgree, PTL

\* A pool has no more sessions than its list has places.
LEMMA PoolCardinality ==
    ASSUME TypeOK
    PROVE  IsFiniteSet(Pool) /\ Cardinality(Pool) <= Len(sessions)
<1>1. sessions \in Seq(Sids) /\ Len(sessions) \in Nat
  BY DEF TypeOK
<1>2. sessions \in [1..Len(sessions) -> Pool]
  BY <1>1 DEF Pool
<1>3. sessions \in Surjection(1..Len(sessions), Pool)
  BY <1>2 DEF Surjection, Pool
<1>4. IsFiniteSet(1..Len(sessions)) /\ Cardinality(1..Len(sessions)) = Len(sessions)
  BY <1>1, FS_Interval
<1> QED
  BY <1>3, <1>4, FS_Surjection

\* Only the second section of pickSession adds a session, with the places of
\* the list and the live sessions counted under the lock it adds under.
LEMMA PoolStep == Inv /\ PoolBounded /\ [Next]_vars => PoolBounded'
<1> SUFFICES ASSUME Inv, PoolBounded, [Next]_vars PROVE PoolBounded'
  OBVIOUS
<1> USE DEF Inv
<1>0. TypeOK' /\ Monotone /\ Pool \subseteq Sids
  BY MonotoneStep, PoolInSids
<1>1. IsFiniteSet(Live) /\ Cardinality(Live) <= Cardinality(Pool) /\ Cardinality(Pool) <= Len(sessions)
      /\ Cardinality(Live) \in Nat /\ Cardinality(Pool) \in Nat /\ Len(sessions) \in Nat
  <2>1. Live \in SUBSET Pool
    BY DEF Live
  <2>2. IsFiniteSet(Pool) /\ Cardinality(Pool) <= Len(sessions)
    BY PoolCardinality
  <2>3. IsFiniteSet(Live) /\ Cardinality(Live) <= Cardinality(Pool)
    BY <2>1, <2>2, FS_Subset
  <2>4. Cardinality(Live) \in Nat /\ Cardinality(Pool) \in Nat
    BY <2>2, <2>3, FS_CardinalityType
  <2>5. Len(sessions) \in Nat
    BY DEF TypeOK
  <2> QED
    BY <2>2, <2>3, <2>4, <2>5
<1>2. ASSUME Pool' \subseteq Pool
      PROVE  PoolBounded'
  <2>1. Live' \in SUBSET Live
    BY <1>0, <1>2 DEF Live, Monotone
  <2>2. Cardinality(Live') <= Cardinality(Live) /\ IsFiniteSet(Live')
    BY <1>1, <2>1, FS_Subset
  <2>3. Cardinality(Live') \in Nat
    BY <2>2, FS_CardinalityType
  <2> QED
    BY <1>1, <2>2, <2>3, Consts DEF PoolBounded
<1>3. ASSUME NEW c \in Conns, AddSession(c)
      PROVE  PoolBounded'
  <2>1. CASE sessions' = sessions
    BY <1>2, <2>1, PoolSame
  <2>2. CASE /\ Len(sessions) < MaxSessions \/ Live = {}
             /\ sessions' = Append(sessions, sess[c]) /\ closed' = closed
    <3>1. sess[c] \in Sids /\ Pool' = Pool \cup {sess[c]}
      BY <1>3, <2>2, AddFacts, PoolAppend
    <3>2. Live' \in SUBSET (Live \cup {sess[c]})
      BY <2>2, <3>1 DEF Live
    <3>3. IsFiniteSet(Live \cup {sess[c]}) /\ Cardinality(Live \cup {sess[c]}) <= Cardinality(Live) + 1
      <4>1. /\ IsFiniteSet(Live \cup {sess[c]})
            /\ \/ Cardinality(Live \cup {sess[c]}) = Cardinality(Live)
               \/ Cardinality(Live \cup {sess[c]}) = Cardinality(Live) + 1
        BY <1>1, FS_AddElement, Zenon
      <4> QED
        BY <1>1, <4>1
    <3>4. Cardinality(Live') <= Cardinality(Live \cup {sess[c]}) /\ IsFiniteSet(Live')
      BY <3>2, <3>3, FS_Subset
    <3>5. Cardinality(Live') \in Nat /\ Cardinality(Live \cup {sess[c]}) \in Nat
      BY <3>3, <3>4, FS_CardinalityType
    <3>6. Cardinality(Live') <= Cardinality(Live) + 1
      BY <1>1, <3>3, <3>4, <3>5
    <3>7. Cardinality(Live) < MaxSessions
      <4>1. CASE Live = {}
        <5>1. Cardinality(Live) = 0
          BY <4>1, FS_EmptySet
        <5> QED
          BY <5>1, Consts
      <4>2. CASE Len(sessions) < MaxSessions
        BY <1>1, <4>2, Consts
      <4> QED
        BY <2>2, <4>1, <4>2
    <3> QED
      BY <1>1, <3>5, <3>6, <3>7, Consts DEF PoolBounded
  <2> QED
    BY <1>3, <2>1, <2>2, AddFacts
<1>4. ASSUME NEW c \in Conns, MaybeShrinkSessions(c)
      PROVE  PoolBounded'
  BY <1>2, <1>4, ShrinkPool
<1>5. ASSUME NEW c \in Conns, Conn(c), ~AddSession(c), ~MaybeShrinkSessions(c)
      PROVE  sessions' = sessions
  BY <1>5 DEF Conn, PickSession, StartSession, StartFails, StartUplink, PinConn, ConnectWrites,
     DownloadStream, OpenConnReader, Read, SendData, Close, CloseWrites, Inactive, ServerSends,
     poolVars
<1>6. ASSUME NEW s \in Sids, Session(s)
      PROVE  sessions' = sessions
  BY <1>6 DEF Session, DemuxFrame, Deliver, DemuxEnds, UplinkBreaks, UplinkEnds, poolVars
<1>7. CASE UNCHANGED vars
  BY <1>2, <1>7, PoolSame DEF vars, poolVars
<1> QED
  BY <1>2, <1>3, <1>4, <1>5, <1>6, <1>7, PoolSame DEF Next

\* pickSession starts sessions outside the lock, as many at once as there are
\* connections, and still t.sessions never has more than maxSessions live ones.
THEOREM LiveSessionsBounded == Spec => []PoolBounded
<1>1. Init => PoolBounded
  <2> SUFFICES ASSUME Init PROVE PoolBounded
    OBVIOUS
  <2>1. Live = {}
    BY DEF Init, Live, Pool
  <2>2. Cardinality(Live) = 0
    BY <2>1, FS_EmptySet
  <2> QED
    BY <2>2, Consts DEF PoolBounded
<1> QED
  BY <1>1, PoolStep, SessionsAgree, PTL DEF Spec

=============================================================================
