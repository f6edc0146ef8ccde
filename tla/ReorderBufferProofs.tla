------------------------ MODULE ReorderBufferProofs ------------------------
(***************************************************************************)
(* Theorems about ReorderBuffer for every number of frames and readers.    *)
(*                                                                         *)
(* Always (Base): the types, the mutex discipline, and that no held frame  *)
(* is stranded. Until deliver first finds out full (Ordered): order, no    *)
(* loss, no panic. Both together: refinement of OrderedDelivery.           *)
(***************************************************************************)
EXTENDS ReorderBuffer, TLAPS

Active == {"deliver", "blocked", "relock", "delivered"}

\* Every frame any thread or buffer knows of has been numbered.
Numbered ==
    /\ net \subseteq 1..sent
    /\ held \subseteq 1..sent
    /\ accepted \subseteq 1..sent
    /\ \A t \in Threads : cur[t] <= sent
    /\ \A t \in Threads : pc[t] \in {"push", "deliver", "blocked"} => cur[t] # 0

\* A frame is in one place until Push takes it: the transport or one reader.
Fresh ==
    /\ net \cap accepted = {}
    /\ \A t \in Readers : pc[t] = "push" => cur[t] \notin accepted \cup net
    /\ \A t, u \in Readers :
          pc[t] = "push" /\ pc[u] = "push" /\ t # u => cur[t] # cur[u]

\* A timer runs for a frame that was accepted, once.
TimerLife ==
    /\ pending \subseteq accepted
    /\ \A n \in Timers : n \in pending => pc[n] = "idle"
    /\ \A n \in Timers : pc[n] # "idle" => n \in accepted
    /\ \A n \in Timers : pc[n] # "push"
    /\ \A t \in Readers : pc[t] # "fired"

\* While held is not empty r.timer points to a timer that will run
\* timeoutFlush, or timeoutFlush is running and ends only on an empty held.
Watched ==
    /\ timer # NoTimer => timer \in pending \/ pc[timer] = "fired"
    /\ held # {} =>
          \/ timer # NoTimer
          \/ \E n \in Timers : pc[n] \in Active /\ caller[n] = "timeoutFlush"

Base == TypeOK /\ MutexHeld /\ Numbered /\ Fresh /\ TimerLife /\ Watched

\* The buffer around a delivery, when deliver never has to give up the lock.
Delivering(t) ==
    /\ pc[t] \notin {"blocked", "relock"}
    /\ pc[t] = "deliver" /\ caller[t] = "Push" =>
          cur[t] = next /\ \A h \in held : next < h
    /\ pc[t] = "deliver" /\ caller[t] # "Push" =>
          next <= cur[t] /\ IsFirst(cur[t], held)
    /\ pc[t] = "delivered" =>
          /\ next = cur[t] + 1
          /\ log # <<>> /\ log[Len(log)] = cur[t]
    /\ pc[t] = "delivered" /\ caller[t] = "Push" =>
          \A h \in held : next <= h
    /\ pc[t] = "delivered" /\ caller[t] # "Push" =>
          IsFirst(cur[t], held)

\* out has carried smaller numbers than the next one expected.
LogBelowNext == \A i \in 1..Len(log) : log[i] < next

Ordered ==
    /\ Increasing
    /\ LogBelowNext
    /\ lock = Free => \A h \in held : next < h
    /\ \A t \in Threads : Delivering(t)
    /\ ReliableDelivery
    /\ ~crashed
-----------------------------------------------------------------------------
USE DEF Seqs, Timers, Threads, Free, NoTimer

\* The names of readers and of timers differ.
LEMMA Disjoint == \A t \in Readers : t \notin Nat
BY ReorderAssumption

LEMMA BaseInit ==
    ASSUME Init
    PROVE  Base
<1>1. TypeOK
  <2>1. /\ pc \in [Threads -> {"idle"}]
        /\ caller \in [Threads -> {"Push"}]
        /\ cur \in [Threads -> {0}]
    BY DEF Init
  <2>2. /\ sent \in 0..MaxSeq /\ next \in 1..(MaxSeq + 1)
        /\ log \in Seq(Seqs) /\ nread \in 0..Len(log)
    BY ReorderAssumption DEF Init
  <2> QED
    BY <2>1, <2>2 DEF Init, TypeOK
<1>2. MutexHeld
  <2>1. \A t \in Threads : pc[t] = "idle"
    BY DEF Init
  <2>2. \A t \in Threads : t # Free
    <3>1. \A t \in Readers : t # 0
      BY Disjoint
    <3>2. \A t \in Timers : t # 0
      BY ReorderAssumption
    <3> QED
      BY <3>1, <3>2
  <2> QED
    BY <2>1, <2>2 DEF Init, MutexHeld
<1>3. Numbered /\ Fresh /\ TimerLife /\ Watched
  BY ReorderAssumption, Disjoint DEF Init, Numbered, Fresh, TimerLife, Watched
<1> QED
  BY <1>1, <1>2, <1>3 DEF Base

LEMMA Base_SendFrame ==
    ASSUME Base, SendFrame
    PROVE  Base'
<1> USE ReorderAssumption, Disjoint DEF SendFrame, bufVars, thrVars
<1>1. TypeOK'
  BY DEF Base, TypeOK
<1>2. MutexHeld'
  BY DEF Base, TypeOK, MutexHeld
<1>3. Numbered'
  BY DEF Base, TypeOK, Numbered
<1>4. Fresh'
  BY DEF Base, TypeOK, Fresh, Numbered
<1>5. TimerLife'
  BY DEF Base, TypeOK, TimerLife
<1>6. Watched'
  BY DEF Base, TypeOK, Watched, Active
<1> QED
  BY <1>1, <1>2, <1>3, <1>4, <1>5, <1>6 DEF Base

LEMMA Base_Consume ==
    ASSUME Base, Consume
    PROVE  Base'
<1> USE ReorderAssumption, Disjoint DEF Consume, Buffered, bufVars, thrVars
<1>1. TypeOK'
  BY DEF Base, TypeOK
<1>2. MutexHeld'
  BY DEF Base, TypeOK, MutexHeld
<1>3. Numbered'
  BY DEF Base, TypeOK, Numbered
<1>4. Fresh'
  BY DEF Base, TypeOK, Fresh
<1>5. TimerLife'
  BY DEF Base, TypeOK, TimerLife
<1>6. Watched'
  BY DEF Base, TypeOK, Watched, Active
<1> QED
  BY <1>1, <1>2, <1>3, <1>4, <1>5, <1>6 DEF Base

LEMMA Base_PipeReturns ==
    ASSUME Base, PipeReturns
    PROVE  Base'
<1> USE ReorderAssumption, Disjoint DEF PipeReturns, bufVars, thrVars
<1>1. TypeOK'
  BY DEF Base, TypeOK
<1>2. MutexHeld'
  BY DEF Base, TypeOK, MutexHeld
<1>3. Numbered'
  BY DEF Base, TypeOK, Numbered
<1>4. Fresh'
  BY DEF Base, TypeOK, Fresh
<1>5. TimerLife'
  BY DEF Base, TypeOK, TimerLife
<1>6. Watched'
  BY DEF Base, TypeOK, Watched, Active
<1> QED
  BY <1>1, <1>2, <1>3, <1>4, <1>5, <1>6 DEF Base

LEMMA Base_PushDuplicate ==
    ASSUME Base, NEW t \in Readers, PushDuplicate(t)
    PROVE  Base'
<1> USE ReorderAssumption, Disjoint DEF PushDuplicate, envVars, bufVars
<1>1. TypeOK'
  BY DEF Base, TypeOK, Numbered
<1>2. MutexHeld'
  BY DEF Base, TypeOK, MutexHeld
<1>3. Numbered'
  BY DEF Base, TypeOK, Numbered
<1>4. Fresh'
  BY DEF Base, TypeOK, Fresh
<1>5. TimerLife'
  BY DEF Base, TypeOK, TimerLife
<1>6. Watched'
  BY DEF Base, TypeOK, Watched, Active
<1> QED
  BY <1>1, <1>2, <1>3, <1>4, <1>5, <1>6 DEF Base

LEMMA Base_PushInOrder ==
    ASSUME Base, NEW t \in Readers, PushInOrder(t)
    PROVE  Base'
<1> USE ReorderAssumption, Disjoint DEF PushInOrder, Enter, envVars
<1>1. TypeOK'
  BY DEF Base, TypeOK, Numbered
<1>2. MutexHeld'
  BY DEF Base, TypeOK, MutexHeld
<1>3. Numbered'
  BY DEF Base, TypeOK, Numbered
<1>4. Fresh'
  BY DEF Base, TypeOK, Fresh
<1>5. TimerLife'
  BY DEF Base, TypeOK, TimerLife
<1>6. Watched'
  BY DEF Base, TypeOK, Watched, Active
<1> QED
  BY <1>1, <1>2, <1>3, <1>4, <1>5, <1>6 DEF Base

LEMMA Base_PushOutOfOrder ==
    ASSUME Base, NEW t \in Readers, PushOutOfOrder(t)
    PROVE  Base'
<1> USE ReorderAssumption, Disjoint DEF PushOutOfOrder, envVars
<1>c. cur[t] \in Seqs /\ cur[t] <= sent /\ cur[t] \notin accepted \cup net
  BY DEF Base, TypeOK, Numbered, Fresh
<1>1. TypeOK'
  BY <1>c DEF Base, TypeOK
<1>2. MutexHeld'
  BY DEF Base, TypeOK, MutexHeld
<1>3. Numbered'
  <2>1. cur' = cur /\ sent' = sent /\ net' = net
    OBVIOUS
  <2>2. held' \subseteq 1..sent' /\ accepted' \subseteq 1..sent'
    <3>1. held \subseteq 1..sent /\ accepted \subseteq 1..sent /\ sent \in Nat
      BY DEF Base, Numbered, TypeOK
    <3>2. /\ held' = held \cup {cur[t]}
          /\ accepted' = accepted \cup {cur[t]}
          /\ sent' = sent
      OBVIOUS
    <3>3. cur[t] \in 1..sent
      BY <1>c, <3>1
    <3> HIDE DEF PushOutOfOrder
    <3> QED
      BY <3>1, <3>2, <3>3
  <2>3. \A u \in Threads : pc'[u] \in {"push", "deliver", "blocked"} => pc'[u] = pc[u]
    BY DEF Base, TypeOK
  <2> QED
    BY <2>1, <2>2, <2>3 DEF Base, Numbered
<1>4. Fresh'
  <2>1. accepted' = accepted \cup {cur[t]} /\ net' = net /\ cur' = cur
    OBVIOUS
  <2>2. \A u \in Readers : pc'[u] = "push" => u # t /\ pc[u] = "push"
    BY DEF Base, TypeOK
  <2>3. pc[t] = "push"
    OBVIOUS
  <2> QED
    BY <1>c, <2>1, <2>2, <2>3 DEF Base, Fresh
<1>5. TimerLife'
  BY <1>c DEF Base, TypeOK, TimerLife
<1>6. Watched'
  BY <1>c DEF Base, TypeOK, Watched, TimerLife, Active
<1> QED
  BY <1>1, <1>2, <1>3, <1>4, <1>5, <1>6 DEF Base

LEMMA Base_Deliver ==
    ASSUME Base, NEW t \in Threads, Deliver(t)
    PROVE  Base'
<1> USE ReorderAssumption, Disjoint DEF Deliver, envVars
<1>c. cur[t] \in Seqs
  BY DEF Base, TypeOK, Numbered
<1>p. PICK p \in {"delivered", "blocked"} : pc' = [pc EXCEPT ![t] = p]
  OBVIOUS
<1>1. TypeOK'
  <2>1. log' \in Seq(Seqs) /\ nread' \in 0..Len(log')
    <3>1. log \in Seq(Seqs) /\ nread \in 0..Len(log) /\ nread' = nread
      BY DEF Base, TypeOK
    <3>2. log' = log \/ log' = Append(log, cur[t])
      OBVIOUS
    <3> HIDE DEF Deliver
    <3> QED
      BY <1>c, <3>1, <3>2
  <2>2. next' \in 1..(MaxSeq + 1)
    BY <1>c
  <2>3. lock' \in {Free} \cup Threads
    BY DEF Base, TypeOK
  <2> QED
    BY <1>p, <2>1, <2>2, <2>3 DEF Base, TypeOK
<1>2. MutexHeld'
  BY DEF Base, TypeOK, MutexHeld
<1>3. Numbered'
  BY <1>p DEF Base, TypeOK, Numbered
<1>4. Fresh'
  BY <1>p DEF Base, TypeOK, Fresh
<1>5. TimerLife'
  BY <1>p DEF Base, TypeOK, TimerLife
<1>6. Watched'
  BY <1>p DEF Base, TypeOK, Watched, Active
<1> QED
  BY <1>1, <1>2, <1>3, <1>4, <1>5, <1>6 DEF Base

LEMMA Base_SendBlocked ==
    ASSUME Base, NEW t \in Threads, SendBlocked(t)
    PROVE  Base'
<1> USE ReorderAssumption, Disjoint DEF SendBlocked, envVars, Full, Buffered
<1>1. TypeOK'
  BY DEF Base, TypeOK, Numbered
<1>2. MutexHeld'
  BY DEF Base, TypeOK, MutexHeld
<1>3. Numbered'
  BY DEF Base, TypeOK, Numbered
<1>4. Fresh'
  BY DEF Base, TypeOK, Fresh
<1>5. TimerLife'
  BY DEF Base, TypeOK, TimerLife
<1>6. Watched'
  BY DEF Base, TypeOK, Watched, Active
<1> QED
  BY <1>1, <1>2, <1>3, <1>4, <1>5, <1>6 DEF Base

LEMMA Base_Relock ==
    ASSUME Base, NEW t \in Threads, Relock(t)
    PROVE  Base'
<1> USE ReorderAssumption, Disjoint DEF Relock, envVars
<1>1. TypeOK'
  BY DEF Base, TypeOK
<1>2. MutexHeld'
  BY DEF Base, TypeOK, MutexHeld
<1>3. Numbered'
  BY DEF Base, TypeOK, Numbered
<1>4. Fresh'
  BY DEF Base, TypeOK, Fresh
<1>5. TimerLife'
  BY DEF Base, TypeOK, TimerLife
<1>6. Watched'
  BY DEF Base, TypeOK, Watched, Active
<1> QED
  BY <1>1, <1>2, <1>3, <1>4, <1>5, <1>6 DEF Base

LEMMA Base_SlicePanic ==
    ASSUME Base, NEW t \in Threads, SlicePanic(t)
    PROVE  Base'
<1> USE ReorderAssumption, Disjoint DEF SlicePanic, envVars, thrVars
<1>1. TypeOK'
  BY DEF Base, TypeOK
<1>2. MutexHeld'
  BY DEF Base, TypeOK, MutexHeld
<1>3. Numbered'
  BY DEF Base, TypeOK, Numbered
<1>4. Fresh'
  BY DEF Base, TypeOK, Fresh
<1>5. TimerLife'
  BY DEF Base, TypeOK, TimerLife
<1>6. Watched'
  BY DEF Base, TypeOK, Watched, Active
<1> QED
  BY <1>1, <1>2, <1>3, <1>4, <1>5, <1>6 DEF Base

LEMMA Base_FlushContiguous ==
    ASSUME Base, NEW t \in Readers, FlushContiguous(t)
    PROVE  Base'
<1> USE ReorderAssumption, Disjoint DEF envVars
<1>h. held' \subseteq held
  BY DEF FlushContiguous, Rest
<1>u. /\ pc[t] = "delivered" /\ lock = t
      /\ UNCHANGED <<sent, net, nread, quit, next, log, accepted, crashed, filled>>
  BY DEF FlushContiguous, Base, MutexHeld
<1>a. CASE /\ IsFirst(next, held')
           /\ Enter(t, next, "flushContiguous")
           /\ UNCHANGED <<timer, pending>>
  <2> USE DEF Enter
  <2>c. next \in Seqs /\ next <= sent
    BY <1>a, <1>h DEF IsFirst, Base, TypeOK, Numbered
  <2>1. TypeOK'
    BY <1>a, <1>h, <1>u, <2>c DEF Base, TypeOK
  <2>2. MutexHeld'
    BY <1>a, <1>u DEF Base, TypeOK, MutexHeld
  <2>3. Numbered'
    BY <1>a, <1>h, <1>u, <2>c DEF Base, TypeOK, Numbered
  <2>4. Fresh'
    BY <1>a, <1>u DEF Base, TypeOK, Fresh
  <2>5. TimerLife'
    BY <1>a, <1>u DEF Base, TypeOK, TimerLife
  <2>6. Watched'
    <3>1. timer' = timer /\ pending' = pending /\ (held' # {} => held # {})
      BY <1>a, <1>h
    <3>2. \A n \in Timers : n # t /\ pc'[n] = pc[n] /\ caller'[n] = caller[n]
      BY <1>a DEF Base, TypeOK
    <3>3. timer # NoTimer => timer \in Timers
      BY DEF Base, TypeOK
    <3> QED
      BY <3>1, <3>2, <3>3 DEF Base, Watched
  <2> QED
    BY <2>1, <2>2, <2>3, <2>4, <2>5, <2>6 DEF Base
<1>b. CASE ReturnFromPush(t, held')
  <2> USE DEF ReturnFromPush
  <2>1. TypeOK'
    BY <1>b, <1>h, <1>u DEF Base, TypeOK
  <2>2. MutexHeld'
    BY <1>b, <1>u DEF Base, TypeOK, MutexHeld
  <2>3. Numbered'
    BY <1>b, <1>h, <1>u DEF Base, TypeOK, Numbered
  <2>4. Fresh'
    BY <1>b, <1>u DEF Base, TypeOK, Fresh
  <2>5. TimerLife'
    BY <1>b, <1>u DEF Base, TypeOK, TimerLife
  <2>6. Watched'
    <3>1. \/ timer' = NoTimer /\ held' = {}
          \/ timer' = timer /\ pending' = pending /\ held # {}
      BY <1>b, <1>h
    <3>0. \A n \in Timers : n # t
      BY Disjoint
    <3>2. \A n \in Timers : pc'[n] = pc[n] /\ caller'[n] = caller[n]
      BY <1>b, <3>0 DEF Base, TypeOK
    <3>3. timer # NoTimer => timer \in Timers
      BY DEF Base, TypeOK
    <3> QED
      BY <3>1, <3>2, <3>3 DEF Base, Watched
  <2> QED
    BY <2>1, <2>2, <2>3, <2>4, <2>5, <2>6 DEF Base
<1> QED
  BY <1>a, <1>b DEF FlushContiguous

LEMMA Base_TimerFires ==
    ASSUME Base, NEW n \in Timers, TimerFires(n)
    PROVE  Base'
<1> USE ReorderAssumption, Disjoint DEF TimerFires, envVars
<1>1. TypeOK'
  BY DEF Base, TypeOK
<1>2. MutexHeld'
  BY DEF Base, TypeOK, MutexHeld, TimerLife
<1>3. Numbered'
  BY DEF Base, TypeOK, Numbered
<1>4. Fresh'
  BY DEF Base, TypeOK, Fresh
<1>5. TimerLife'
  BY DEF Base, TypeOK, TimerLife
<1>6. Watched'
  BY DEF Base, TypeOK, Watched, Active, TimerLife
<1> QED
  BY <1>1, <1>2, <1>3, <1>4, <1>5, <1>6 DEF Base

LEMMA Base_TimeoutFlush ==
    ASSUME Base, NEW n \in Timers, TimeoutFlush(n)
    PROVE  Base'
<1> USE ReorderAssumption, Disjoint DEF envVars
<1>h. held' \subseteq held
  BY DEF TimeoutFlush, Rest
<1>u. /\ lock = Free \/ lock = n
      /\ pc[n] \in {"fired", "delivered"}
      /\ UNCHANGED <<sent, net, nread, quit, next, log, pending, accepted, crashed,
                     filled>>
      /\ timer' \in {timer, NoTimer}
      /\ pc[n] = "fired" => timer' = NoTimer
  BY DEF TimeoutFlush, Base, MutexHeld
<1>a. ASSUME NEW h \in held', Enter(n, h, "timeoutFlush")
      PROVE  Base'
  <2> USE DEF Enter
  <2>c. h \in Seqs /\ h <= sent
    BY <1>h DEF Base, TypeOK, Numbered
  <2>1. TypeOK'
    BY <1>a, <1>h, <1>u, <2>c DEF Base, TypeOK
  <2>2. MutexHeld'
    BY <1>a, <1>u DEF Base, TypeOK, MutexHeld
  <2>3. Numbered'
    BY <1>a, <1>h, <1>u, <2>c DEF Base, TypeOK, Numbered
  <2>4. Fresh'
    BY <1>a, <1>u DEF Base, TypeOK, Fresh
  <2>5. TimerLife'
    BY <1>a, <1>u DEF Base, TypeOK, TimerLife
  <2>6. Watched'
    BY <1>a, <1>u DEF Base, TypeOK, Watched, Active
  <2> QED
    BY <2>1, <2>2, <2>3, <2>4, <2>5, <2>6 DEF Base
<1>b. CASE /\ held' = {}
           /\ lock' = Free
           /\ pc' = [pc EXCEPT ![n] = "idle"]
           /\ UNCHANGED <<caller, cur>>
  <2>1. TypeOK'
    BY <1>b, <1>u DEF Base, TypeOK
  <2>2. MutexHeld'
    BY <1>b, <1>u DEF Base, TypeOK, MutexHeld
  <2>3. Numbered'
    BY <1>b, <1>u DEF Base, TypeOK, Numbered
  <2>4. Fresh'
    BY <1>b, <1>u DEF Base, TypeOK, Fresh
  <2>5. TimerLife'
    BY <1>b, <1>u DEF Base, TypeOK, TimerLife
  <2>6. Watched'
    BY <1>b, <1>u DEF Base, TypeOK, Watched
  <2> QED
    BY <2>1, <2>2, <2>3, <2>4, <2>5, <2>6 DEF Base
<1> QED
  BY <1>a, <1>b DEF TimeoutFlush

LEMMA Base_Dispatch ==
    ASSUME Base, NEW t \in Readers, NEW n \in Seqs, Dispatch(t, n)
    PROVE  Base'
<1> USE ReorderAssumption, Disjoint DEF Dispatch, bufVars
<1>1. TypeOK'
  BY DEF Base, TypeOK
<1>2. MutexHeld'
  BY DEF Base, TypeOK, MutexHeld
<1>3. Numbered'
  <2>1. n \in 1..sent /\ net' \subseteq 1..sent
    BY DEF Base, Numbered
  <2>2. UNCHANGED <<sent, held, accepted>>
    OBVIOUS
  <2>3. \A u \in Threads : \/ pc'[u] = pc[u] /\ cur'[u] = cur[u]
                           \/ cur'[u] = n
    BY DEF Base, TypeOK
  <2>4. sent \in Nat
    BY DEF Base, TypeOK
  <2> QED
    BY <2>1, <2>2, <2>3, <2>4 DEF Base, Numbered
<1>4. Fresh'
  <2>1. n \notin accepted /\ net' = net \ {n} /\ accepted' = accepted
    BY DEF Base, Fresh
  <2>2. \A u \in Readers : u # t => pc'[u] = pc[u] /\ cur'[u] = cur[u]
    BY DEF Base, TypeOK
  <2>3. pc'[t] = "push" => cur'[t] = n
    BY DEF Base, TypeOK
  <2>4. \A u \in Readers : pc[u] = "push" => cur[u] # n
    BY DEF Base, Fresh
  <2> QED
    BY <2>1, <2>2, <2>3, <2>4 DEF Base, Fresh
<1>5. TimerLife'
  <2>1. \A m \in Timers : pc'[m] = pc[m]
    BY DEF Base, TypeOK
  <2>2. pending' = pending /\ accepted' = accepted
    OBVIOUS
  <2>3. \A u \in Readers : pc'[u] # "fired"
    BY DEF Base, TypeOK, TimerLife
  <2> QED
    BY <2>1, <2>2, <2>3 DEF Base, TimerLife
<1>6. Watched'
  BY DEF Base, TypeOK, Watched, Active
<1> QED
  BY <1>1, <1>2, <1>3, <1>4, <1>5, <1>6 DEF Base

LEMMA BaseStep ==
    ASSUME Base, [Next]_vars
    PROVE  Base'
<1>1. CASE UNCHANGED vars
  BY <1>1 DEF vars, envVars, bufVars, thrVars, Base, TypeOK, MutexHeld, Numbered,
              Fresh, TimerLife, Watched
<1>2. CASE SendFrame \/ Consume \/ PipeReturns
  BY <1>2, Base_SendFrame, Base_Consume, Base_PipeReturns
<1>3. ASSUME NEW t \in Readers, NEW n \in Seqs, Dispatch(t, n)
      PROVE  Base'
  BY <1>3, Base_Dispatch
<1>4. ASSUME NEW t \in Threads, DeliverSteps(t)
      PROVE  Base'
  BY <1>4, Base_Deliver, Base_SendBlocked, Base_Relock, Base_SlicePanic
     DEF DeliverSteps
<1>5. ASSUME NEW t \in Readers, ReaderStep(t)
      PROVE  Base'
  BY <1>4, <1>5, Base_PushDuplicate, Base_PushInOrder, Base_PushOutOfOrder,
     Base_FlushContiguous
     DEF ReaderStep, Push
<1>6. ASSUME NEW n \in Timers, TimerStep(n)
      PROVE  Base'
  BY <1>4, <1>6, Base_TimerFires, Base_TimeoutFlush DEF TimerStep
<1> QED
  BY <1>1, <1>2, <1>3, <1>5, <1>6 DEF Next

\* Base is an invariant of the buffer.
THEOREM BaseInvariant == Spec => []Base
<1>1. Init => Base
  BY BaseInit
<1>2. Base /\ [Next]_vars => Base'
  BY BaseStep
<1> QED
  BY <1>1, <1>2, PTL DEF Spec

\* Type correctness of the reorder buffer and of the threads that use it.
THEOREM TypeCorrect == Spec => []TypeOK
<1>1. Base => TypeOK
  BY DEF Base
<1> QED
  BY <1>1, BaseInvariant, PTL

\* The threads inside Push and timeoutFlush exclude each other, also with the
\* Unlock and Lock that deliver makes while out is full.
THEOREM MutualExclusion == Spec => []MutexHeld
<1>1. Base => MutexHeld
  BY DEF Base
<1> QED
  BY <1>1, BaseInvariant, PTL

\* No frame is stranded in held, whatever the capacity of out: Stop on a
\* timer that has fired, and timers that outlive the gap they were armed for,
\* never leave a gap without a thread that will flush it.
THEOREM GapAlwaysWatched == Spec => []GapIsWatched
<1>1. Base => GapIsWatched
  BY DEF Base, GapIsWatched, Watched, Active, TypeOK
<1> QED
  BY <1>1, BaseInvariant, PTL
-----------------------------------------------------------------------------
(* Until out fills *)

OrderedUntilFull == filled \/ Ordered

\* Two threads are never inside deliver at once.
LEMMA OneInside ==
    ASSUME Base, NEW t \in Threads, pc[t] \in {"deliver", "delivered"}
    PROVE  /\ lock = t /\ lock # Free
           /\ \A u \in Threads : u # t => pc[u] \notin {"deliver", "delivered"}
<1>1. lock = t /\ \A u \in Threads : u # t => pc[u] \notin {"deliver", "delivered"}
  BY DEF Base, MutexHeld
<1>2. t # 0
  <2>1. CASE t \in Readers
    BY <2>1, Disjoint
  <2>2. CASE t \in Timers
    BY <2>2, ReorderAssumption
  <2> QED
    BY <2>1, <2>2
<1> QED
  BY <1>1, <1>2

LEMMA InHand ==
    ASSUME Base, Ordered, NEW t \in Threads, pc[t] = "deliver"
    PROVE  cur[t] \in Seqs /\ next <= cur[t]
<1>1. cur[t] \in Seqs /\ next \in Nat
  BY DEF Base, TypeOK, Numbered
<1>2. Delivering(t)
  BY DEF Ordered
<1> QED
  BY <1>1, <1>2 DEF Delivering

LEMMA OrderedInit ==
    ASSUME Init
    PROVE  Ordered
BY DEF Init, Ordered, Increasing, LogBelowNext, Delivering, ReliableDelivery

\* Steps that leave the buffer, and threads inside it, alone.
LEMMA Ordered_Outside ==
    ASSUME Base, Ordered,
           UNCHANGED <<next, held, log, lock, accepted, crashed>>,
           \A u \in Threads :
              \/ pc'[u] = pc[u] /\ cur'[u] = cur[u] /\ caller'[u] = caller[u]
              \/ pc[u] \in {"idle", "push"} /\ pc'[u] \in {"idle", "push", "fired"}
    PROVE  Ordered'
<1>1. \A u \in Threads : Delivering(u)'
  BY DEF Ordered, Delivering
<1>2. ReliableDelivery'
  BY DEF Ordered, ReliableDelivery
<1> QED
  BY <1>1, <1>2 DEF Ordered, Increasing, LogBelowNext

LEMMA Ordered_PushInOrder ==
    ASSUME Base, Ordered, NEW t \in Readers, PushInOrder(t)
    PROVE  Ordered'
<1> USE DEF PushInOrder, Enter
<1>0. \A u \in Threads : pc[u] \notin {"deliver", "delivered"}
  BY OneInside
<1>1. Increasing' /\ LogBelowNext' /\ ~crashed'
  BY DEF Ordered, Increasing, LogBelowNext
<1>2. \A u \in Threads : Delivering(u)'
  BY <1>0 DEF Ordered, Delivering, Base, TypeOK
<1>3. lock' # Free
  BY Disjoint
<1>4. ReliableDelivery'
  <2>1. pc'[t] = "deliver" /\ cur'[t] = cur[t]
    BY DEF Base, TypeOK
  <2>2. \A u \in Threads : pc[u] # "blocked"
    BY DEF Ordered, Delivering
  <2> QED
    BY <1>0, <2>1, <2>2 DEF Ordered, ReliableDelivery
<1> QED
  BY <1>1, <1>2, <1>3, <1>4 DEF Ordered

LEMMA Ordered_PushOutOfOrder ==
    ASSUME Base, Ordered, NEW t \in Readers, PushOutOfOrder(t)
    PROVE  Ordered'
<1> USE DEF PushOutOfOrder
<1>0. \A u \in Threads : pc[u] \notin {"deliver", "delivered"}
  BY OneInside
<1>1. Increasing' /\ LogBelowNext' /\ ~crashed'
  BY DEF Ordered, Increasing, LogBelowNext
<1>2. \A u \in Threads : Delivering(u)'
  BY <1>0 DEF Ordered, Delivering, Base, TypeOK
<1>3. \A h \in held' : next' < h
  BY DEF Ordered, Base, TypeOK
<1>4. ReliableDelivery'
  <2>1. \A u \in Threads : pc[u] # "blocked"
    BY DEF Ordered, Delivering
  <2> QED
    BY <1>0, <2>1 DEF Ordered, ReliableDelivery
<1> QED
  BY <1>1, <1>2, <1>3, <1>4 DEF Ordered

LEMMA Ordered_Deliver ==
    ASSUME Base, Ordered, NEW t \in Threads, Deliver(t), ~Full
    PROVE  Ordered'
<1>0. /\ pc[t] = "deliver" /\ next' = cur[t] + 1
      /\ UNCHANGED <<held, accepted, crashed, caller, cur>>
  BY DEF Deliver
<1>f. ~Full /\ cur[t] \in Seqs /\ next <= cur[t]
  BY <1>0, InHand
<1>l. /\ log' = Append(log, cur[t]) /\ lock' = lock
      /\ pc' = [pc EXCEPT ![t] = "delivered"]
  BY <1>f DEF Deliver
<1>m. /\ lock # Free
      /\ \A u \in Threads : u # t => pc[u] \notin {"deliver", "delivered"}
  BY <1>0, OneInside
<1>t. /\ log \in Seq(Seqs) /\ next \in Nat /\ Len(log) \in Nat
      /\ held \subseteq Nat /\ MaxSeq \in Nat
  BY ReorderAssumption DEF Base, TypeOK
<1>p. pc'[t] = "delivered" /\ \A u \in Threads : u # t => pc'[u] = pc[u]
  BY <1>l DEF Base, TypeOK
<1>n. /\ Len(log') = Len(log) + 1
      /\ log'[Len(log) + 1] = cur[t]
      /\ \A i \in 1..Len(log) : log'[i] = log[i]
  BY <1>f, <1>l, <1>t
<1>1. Increasing'
  <2>1. \A i \in 1..Len(log) : log[i] < cur[t]
    <3>1. \A i \in 1..Len(log) : log[i] < next /\ log[i] \in Nat
      BY <1>t DEF Ordered, LogBelowNext
    <3> QED
      BY <1>f, <1>t, <3>1
  <2>2. \A i, j \in 1..Len(log) : i < j => log[i] < log[j]
    BY DEF Ordered, Increasing
  <2> QED
    <3>1. \A i \in 1..Len(log') : i \in 1..Len(log) \/ i = Len(log) + 1
      BY <1>n, <1>t
    <3>2. ASSUME NEW i \in 1..Len(log'), NEW j \in 1..Len(log'), i < j
          PROVE  log'[i] < log'[j]
      <4>1. i \in 1..Len(log)
        BY <1>n, <1>t, <3>2
      <4>2. CASE j \in 1..Len(log)
        BY <1>n, <2>2, <3>2, <4>1, <4>2
      <4>3. CASE j = Len(log) + 1
        BY <1>n, <2>1, <4>1, <4>3
      <4> QED
        BY <3>1, <4>2, <4>3
    <3> QED
      BY <3>2 DEF Increasing
<1>2. LogBelowNext'
  <2>1. \A i \in 1..Len(log) : log[i] < next /\ log[i] \in Nat
    BY <1>t DEF Ordered, LogBelowNext
  <2>3. \A i \in 1..Len(log') : i \in 1..Len(log) \/ i = Len(log) + 1
    BY <1>n, <1>t
  <2>4. \A i \in 1..Len(log) : log'[i] < next'
    BY <1>0, <1>f, <1>n, <1>t, <2>1
  <2>5. log'[Len(log) + 1] < next'
    BY <1>0, <1>f, <1>n
  <2> QED
    BY <2>3, <2>4, <2>5 DEF LogBelowNext
<1>3. Delivering(t)'
  <2>1. pc'[t] = "delivered"
    BY <1>p
  <2>2. log' # <<>> /\ log'[Len(log')] = cur'[t]
    BY <1>0, <1>l, <1>n, <1>t
  <2>3. caller'[t] = "Push" => \A h \in held' : next' <= h
    BY <1>0, <1>f, <1>t DEF Ordered, Delivering
  <2>4. caller'[t] # "Push" => IsFirst(cur[t], held)
    BY <1>0 DEF Ordered, Delivering
  <2> QED
    BY <1>0, <2>1, <2>2, <2>3, <2>4 DEF Delivering, IsFirst
<1>4. \A u \in Threads : u # t => Delivering(u)'
  <2>1. \A u \in Threads : u # t => pc'[u] = pc[u] /\ pc[u] \notin {"deliver", "delivered"}
    BY <1>m, <1>p
  <2>2. \A u \in Threads : pc[u] \notin {"blocked", "relock"}
    BY DEF Ordered, Delivering
  <2> QED
    BY <2>1, <2>2 DEF Delivering
<1>5. ReliableDelivery'
  <2> SUFFICES ASSUME NEW a \in accepted
               PROVE  \/ a \in held
                      \/ \E i \in 1..Len(log') : log'[i] = a
    BY <1>0 DEF ReliableDelivery
  <2>1. CASE a \in held
    BY <2>1
  <2>2. CASE \E i \in 1..Len(log) : log[i] = a
    BY <2>2, <1>n, <1>t
  <2>3. ASSUME NEW u \in Threads, pc[u] \in {"deliver", "blocked"}, cur[u] = a
        PROVE  \E i \in 1..Len(log') : log'[i] = a
    <3>1. u = t
      BY <1>m, <2>3 DEF Ordered, Delivering
    <3> QED
      BY <1>n, <1>t, <2>3, <3>1
  <2> QED
    BY <2>1, <2>2, <2>3 DEF Ordered, ReliableDelivery
<1> QED
  BY <1>0, <1>1, <1>2, <1>3, <1>4, <1>5, <1>l, <1>m DEF Ordered

\* No thread is in the middle of a blocking send, and held is not empty when
\* a loop slices it.
LEMMA Ordered_NoBlocking ==
    ASSUME Base, Ordered, NEW t \in Threads
    PROVE  ~SendBlocked(t) /\ ~Relock(t) /\ ~SlicePanic(t)
BY DEF Ordered, Delivering, SendBlocked, Relock, SlicePanic, IsFirst

LEMMA Ordered_FlushContiguous ==
    ASSUME Base, Ordered, NEW t \in Readers, FlushContiguous(t)
    PROVE  Ordered'
<1>0. /\ pc[t] = "delivered"
      /\ UNCHANGED <<next, log, accepted, crashed>>
  BY DEF FlushContiguous
<1>m. \A u \in Threads : u # t => pc[u] \notin {"deliver", "delivered"}
  BY <1>0, OneInside
<1>t. next \in Nat /\ held \subseteq Nat /\ cur[t] \in Nat
  BY DEF Base, TypeOK
<1>d. Delivering(t)
  BY DEF Ordered
<1>h. /\ held' \subseteq held
      /\ \A h \in held' : next <= h
      /\ \A h \in held : h \in held' \/ h = cur[t]
  <2>1. CASE caller[t] = "Push" /\ held' = held
    BY <1>0, <1>d, <2>1 DEF Delivering
  <2>2. CASE caller[t] = "flushContiguous" /\ held' = Rest(held)
    <3>1. IsFirst(cur[t], held) /\ next = cur[t] + 1
      BY <1>0, <1>d, <2>2 DEF Delivering
    <3>2. \A h \in held : h \in held' \/ h = cur[t]
      BY <1>t, <2>2, <3>1 DEF IsFirst, Rest
    <3>3. held' \subseteq held /\ \A h \in held' : next <= h
      BY <1>t, <2>2, <3>1 DEF IsFirst, Rest
    <3> QED
      BY <3>2, <3>3
  <2> QED
    BY <2>1, <2>2 DEF FlushContiguous
<1>1. Increasing' /\ LogBelowNext' /\ ~crashed'
  BY <1>0 DEF Ordered, Increasing, LogBelowNext
<1>2. ReliableDelivery'
  <2>1. log # <<>> /\ log[Len(log)] = cur[t] /\ log \in Seq(Seqs)
    BY <1>0, <1>d DEF Delivering, Base, TypeOK
  <2>2. \E i \in 1..Len(log) : log[i] = cur[t]
    BY <2>1
  <2>3. \A u \in Threads : pc[u] \notin {"deliver", "blocked"}
    BY <1>0, <1>m DEF Ordered, Delivering
  <2> QED
    BY <1>0, <1>h, <2>2, <2>3 DEF Ordered, ReliableDelivery
<1>3. \A u \in Threads : u # t => Delivering(u)'
  <2>1. \A u \in Threads : u # t => pc'[u] = pc[u]
    BY DEF FlushContiguous, Enter, ReturnFromPush, Base, TypeOK
  <2>2. \A u \in Threads : pc[u] \notin {"blocked", "relock"}
    BY DEF Ordered, Delivering
  <2> QED
    BY <1>m, <2>1, <2>2 DEF Delivering
<1>a. CASE IsFirst(next, held') /\ Enter(t, next, "flushContiguous")
  <2>1. /\ pc'[t] = "deliver" /\ caller'[t] = "flushContiguous"
        /\ cur'[t] = next /\ lock' = t
    BY <1>a DEF Enter, Base, TypeOK
  <2>2. Delivering(t)'
    BY <1>0, <1>a, <1>t, <2>1 DEF Delivering, IsFirst
  <2>3. lock' # Free
    BY <2>1, Disjoint
  <2> QED
    BY <1>1, <1>2, <1>3, <2>2, <2>3 DEF Ordered
<1>b. CASE ~IsFirst(next, held') /\ ReturnFromPush(t, held')
  <2>1. pc'[t] = "idle"
    BY <1>b DEF ReturnFromPush, Base, TypeOK
  <2>2. Delivering(t)'
    BY <2>1 DEF Delivering
  <2>3. \A h \in held' : next < h
    BY <1>b, <1>h, <1>t DEF IsFirst
  <2> QED
    BY <1>0, <1>1, <1>2, <1>3, <2>2, <2>3 DEF Ordered
<1> QED
  BY <1>a, <1>b DEF FlushContiguous

LEMMA Ordered_TimeoutFlush ==
    ASSUME Base, Ordered, NEW n \in Timers, TimeoutFlush(n)
    PROVE  Ordered'
<1>0. UNCHANGED <<next, log, accepted, crashed>>
  BY DEF TimeoutFlush
<1>m. /\ \A u \in Threads : u # n => pc[u] \notin {"deliver", "delivered"}
      /\ pc[n] # "deliver"
  BY OneInside DEF TimeoutFlush
<1>t. next \in Nat /\ held \subseteq Nat /\ cur[n] \in Nat
  BY DEF Base, TypeOK
<1>d. Delivering(n)
  BY DEF Ordered
<1>h. /\ held' \subseteq held
      /\ \A h \in held' : next <= h
      /\ \A h \in held : h \in held' \/ \E i \in 1..Len(log) : log[i] = h
  <2>1. CASE pc[n] = "fired" /\ lock = Free /\ held' = held
    BY <1>t, <2>1 DEF Ordered
  <2>2. CASE pc[n] = "delivered" /\ caller[n] = "timeoutFlush" /\ held' = Rest(held)
    <3>1. /\ IsFirst(cur[n], held) /\ next = cur[n] + 1
          /\ log # <<>> /\ log[Len(log)] = cur[n] /\ log \in Seq(Seqs)
      BY <1>d, <2>2 DEF Delivering, Base, TypeOK
    <3>2. \E i \in 1..Len(log) : log[i] = cur[n]
      BY <3>1
    <3>3. \A h \in held : h \in held' \/ h = cur[n]
      BY <1>t, <2>2, <3>1 DEF IsFirst, Rest
    <3>4. held' \subseteq held /\ \A h \in held' : next <= h
      BY <1>t, <2>2, <3>1 DEF IsFirst, Rest
    <3> QED
      BY <3>2, <3>3, <3>4
  <2> QED
    BY <2>1, <2>2 DEF TimeoutFlush
<1>1. Increasing' /\ LogBelowNext' /\ ~crashed'
  BY <1>0 DEF Ordered, Increasing, LogBelowNext
<1>2. ReliableDelivery'
  <2>1. \A u \in Threads : pc[u] \notin {"deliver", "blocked"}
    BY <1>m DEF Ordered, Delivering
  <2> QED
    BY <1>0, <1>h, <2>1 DEF Ordered, ReliableDelivery
<1>3. \A u \in Threads : u # n => Delivering(u)'
  <2>1. \A u \in Threads : u # n => pc'[u] = pc[u]
    BY DEF TimeoutFlush, Enter, Base, TypeOK
  <2>2. \A u \in Threads : pc[u] \notin {"blocked", "relock"}
    BY DEF Ordered, Delivering
  <2> QED
    BY <1>m, <2>1, <2>2 DEF Delivering
<1>a. ASSUME NEW h \in held', IsFirst(h, held'), Enter(n, h, "timeoutFlush")
      PROVE  Ordered'
  <2>1. /\ pc'[n] = "deliver" /\ caller'[n] = "timeoutFlush"
        /\ cur'[n] = h /\ lock' = n
    BY <1>a DEF Enter, Base, TypeOK
  <2>2. Delivering(n)'
    BY <1>0, <1>a, <1>h, <2>1 DEF Delivering
  <2>3. lock' # Free
    BY <2>1, ReorderAssumption
  <2> QED
    BY <1>1, <1>2, <1>3, <2>2, <2>3 DEF Ordered
<1>b. CASE held' = {} /\ pc' = [pc EXCEPT ![n] = "idle"]
  <2>1. Delivering(n)'
    BY <1>b DEF Delivering, Base, TypeOK
  <2> QED
    BY <1>1, <1>2, <1>3, <1>b, <2>1 DEF Ordered
<1> QED
  BY <1>a, <1>b DEF TimeoutFlush

\* Once full, full in the history for good; Deliver is the step that sees it.
LEMMA FilledStays ==
    ASSUME filled, [Next]_vars
    PROVE  filled'
<1> USE DEF bufVars, envVars, thrVars
<1>1. ASSUME NEW t \in Threads, DeliverSteps(t)
      PROVE  filled'
  BY <1>1 DEF DeliverSteps, Deliver, SendBlocked, Relock, SlicePanic
<1>2. ASSUME NEW t \in Readers, ReaderStep(t)
      PROVE  filled'
  BY <1>1, <1>2 DEF ReaderStep, Push, PushDuplicate, PushInOrder,
                    PushOutOfOrder, FlushContiguous
<1>3. ASSUME NEW n \in Timers, TimerStep(n)
      PROVE  filled'
  BY <1>1, <1>3 DEF TimerStep, TimerFires, TimeoutFlush
<1> QED
  BY <1>2, <1>3 DEF Next, SendFrame, Consume, PipeReturns, Dispatch, vars

LEMMA OrderedStep ==
    ASSUME Base, Ordered, [Next]_vars
    PROVE  OrderedUntilFull'
<1> USE DEF OrderedUntilFull
<1>1. CASE UNCHANGED vars
  BY <1>1, Ordered_Outside DEF vars, envVars, bufVars, thrVars
<1>2. CASE SendFrame \/ Consume \/ PipeReturns
  BY <1>2, Ordered_Outside DEF SendFrame, Consume, PipeReturns, bufVars, thrVars
<1>3. ASSUME NEW t \in Readers, NEW n \in Seqs, Dispatch(t, n)
      PROVE  OrderedUntilFull'
  BY <1>3, Ordered_Outside DEF Dispatch, bufVars, Base, TypeOK
<1>4. ASSUME NEW t \in Threads, DeliverSteps(t)
      PROVE  OrderedUntilFull'
  <2>1. Deliver(t)
    BY <1>4, Ordered_NoBlocking DEF DeliverSteps
  <2>2. CASE Full
    BY <2>1, <2>2 DEF Deliver
  <2>3. CASE ~Full
    BY <2>1, <2>3, Ordered_Deliver
  <2> QED
    BY <2>2, <2>3
<1>5. ASSUME NEW t \in Readers, PushDuplicate(t)
      PROVE  OrderedUntilFull'
  BY <1>5, Ordered_Outside DEF PushDuplicate, bufVars, Base, TypeOK
<1>6. ASSUME NEW t \in Readers, ReaderStep(t)
      PROVE  OrderedUntilFull'
  BY <1>4, <1>5, <1>6, Ordered_PushInOrder, Ordered_PushOutOfOrder,
     Ordered_FlushContiguous
     DEF ReaderStep, Push
<1>7. ASSUME NEW n \in Timers, TimerFires(n)
      PROVE  OrderedUntilFull'
  BY <1>7, Ordered_Outside DEF TimerFires, Base, TypeOK, TimerLife
<1>8. ASSUME NEW n \in Timers, TimerStep(n)
      PROVE  OrderedUntilFull'
  BY <1>4, <1>7, <1>8, Ordered_TimeoutFlush DEF TimerStep
<1> QED
  BY <1>1, <1>2, <1>3, <1>6, <1>8 DEF Next

\* Ordered is an invariant until out fills.
THEOREM OrderedInvariant == Spec => []OrderedUntilFull
<1>1. Init => OrderedUntilFull
  BY OrderedInit DEF OrderedUntilFull
<1>2. Base /\ OrderedUntilFull /\ [Next]_vars => OrderedUntilFull'
  BY OrderedStep, FilledStays DEF OrderedUntilFull
<1> QED
  BY <1>1, <1>2, BaseInvariant, PTL DEF Spec

\* Frames leave the buffer in the order of their numbers and never twice,
\* whatever the transport and the gap timers do, until out fills.
THEOREM InOrder == Spec => []InSeqOrder
<1>1. OrderedUntilFull => InSeqOrder
  BY DEF OrderedUntilFull, Ordered, InSeqOrder
<1> QED
  BY <1>1, OrderedInvariant, PTL

\* A frame that Push took in is never dropped by the buffer, until out fills.
THEOREM NothingLost == Spec => []NoAcceptedFrameLost
<1>1. OrderedUntilFull => NoAcceptedFrameLost
  BY DEF OrderedUntilFull, Ordered, NoAcceptedFrameLost
<1> QED
  BY <1>1, OrderedInvariant, PTL

\* held[1:] is never taken of an empty slice, until out fills.
THEOREM NoPanic == Spec => []NoSlicePanic
<1>1. OrderedUntilFull => NoSlicePanic
  BY DEF OrderedUntilFull, Ordered, NoSlicePanic
<1> QED
  BY <1>1, OrderedInvariant, PTL
-----------------------------------------------------------------------------
(* Refinement *)

\* A delivery is the abstract one; finding out full is the abstract overrun.
LEMMA DeliverRefines ==
    ASSUME Base, OrderedUntilFull, NEW t \in Threads, Deliver(t)
    PROVE  Abstract!Next
<1>0. pc[t] = "deliver" /\ sent' = sent
  BY DEF Deliver, envVars
<1>1. CASE Full
  BY <1>0, <1>1 DEF Deliver, Abstract!Next, Abstract!Overrun
<1>2. CASE ~Full
  <2>1. log' = Append(log, cur[t]) /\ filled' = filled
    BY <1>2 DEF Deliver, Base, TypeOK
  <2>2. cur[t] \in 1..sent
    BY <1>0 DEF Base, Numbered, TypeOK
  <2>3. filled \/ \A i \in 1..Len(log) : log[i] < cur[t]
    <3> SUFFICES ASSUME Ordered
                 PROVE  \A i \in 1..Len(log) : log[i] < cur[t]
      BY DEF OrderedUntilFull
    <3>1. cur[t] \in Seqs /\ next <= cur[t] /\ next \in Nat /\ log \in Seq(Seqs)
      BY <1>0, InHand DEF Base, TypeOK
    <3>2. \A i \in 1..Len(log) : log[i] < next
      BY DEF Ordered, LogBelowNext
    <3>3. \A i \in 1..Len(log) : log[i] \in Nat
      BY <3>1, ReorderAssumption
    <3> QED
      BY <3>1, <3>2, <3>3, ReorderAssumption
  <2> QED
    BY <1>0, <2>1, <2>2, <2>3 DEF Abstract!Next, Abstract!Deliver
<1> QED
  BY <1>1, <1>2

\* A send that had to wait happens after the overrun.
LEMMA SendBlockedRefines ==
    ASSUME Base, OrderedUntilFull, NEW t \in Threads, SendBlocked(t)
    PROVE  Abstract!Next
<1>1. filled /\ sent' = sent /\ log' = Append(log, cur[t]) /\ filled' = filled
  BY Ordered_NoBlocking DEF OrderedUntilFull, SendBlocked, envVars
<1>2. cur[t] \in 1..sent
  BY DEF SendBlocked, Base, Numbered, TypeOK
<1> QED
  BY <1>1, <1>2 DEF Abstract!Next, Abstract!Deliver

LEMMA StepRefines ==
    ASSUME Base, OrderedUntilFull, [Next]_vars
    PROVE  [Abstract!Next]_(Abstract!vars)
<1> USE DEF Abstract!vars
<1>1. CASE UNCHANGED vars
  BY <1>1 DEF vars, envVars, bufVars
<1>2. CASE SendFrame
  BY <1>2 DEF SendFrame, bufVars, Abstract!Next, Abstract!Number
<1>3. CASE Consume \/ PipeReturns
  BY <1>3 DEF Consume, PipeReturns, bufVars
<1>4. ASSUME NEW t \in Readers, NEW n \in Seqs, Dispatch(t, n)
      PROVE  UNCHANGED Abstract!vars
  BY <1>4 DEF Dispatch, bufVars
<1>5. ASSUME NEW t \in Threads, DeliverSteps(t)
      PROVE  [Abstract!Next]_(Abstract!vars)
  BY <1>5, DeliverRefines, SendBlockedRefines
     DEF DeliverSteps, Relock, SlicePanic, envVars
<1>6. ASSUME NEW t \in Readers, ReaderStep(t)
      PROVE  [Abstract!Next]_(Abstract!vars)
  BY <1>5, <1>6
     DEF ReaderStep, Push, PushDuplicate, PushInOrder, PushOutOfOrder,
         FlushContiguous, envVars, bufVars
<1>7. ASSUME NEW n \in Timers, TimerStep(n)
      PROVE  [Abstract!Next]_(Abstract!vars)
  BY <1>5, <1>7 DEF TimerStep, TimerFires, TimeoutFlush, envVars
<1> QED
  BY <1>1, <1>2, <1>3, <1>4, <1>6, <1>7 DEF Next

\* The buffer with its readers and timers implements ordered, at-most-once
\* delivery to a reader that keeps up.
THEOREM Refinement == Spec => ImplementsOrderedDelivery
<1>1. Init => Abstract!Init
  BY DEF Init, Abstract!Init
<1>2. Base /\ OrderedUntilFull /\ [Next]_vars => [Abstract!Next]_(Abstract!vars)
  BY StepRefines
<1> QED
  BY <1>1, <1>2, BaseInvariant, OrderedInvariant, PTL
     DEF Spec, Abstract!Spec, ImplementsOrderedDelivery
=============================================================================
