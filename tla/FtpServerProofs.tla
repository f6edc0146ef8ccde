--------------------------- MODULE FtpServerProofs ---------------------------
(***************************************************************************)
(* Theorems about the two models of the FTP server: FtpSession for any     *)
(* number of channels, indices and flows, FtpDecoy for any number of decoy *)
(* sessions and tunnels. The two share no names and no state.              *)
(***************************************************************************)
EXTENDS FtpSession, FtpDecoy, FiniteSetTheorems, SequenceTheorems, TLAPS

------------------------------------------------------------------------------
(* FtpSession: the binding table, the connections and the readers are tied *)
(* together by one inductive invariant, Inv: who holds sess.mu, that bind  *)
(* overwrites only a closed channel, and that a reader past its Close has  *)
(* no open connection.                                                     *)

Holding == {"closeOld", "nilOld", "assign"}
Closed == {"undialed", "nilSelf", "unbind", "tcpRemoveAll", "udpRemoveAll", "done"}

\* sess.mu is held by the goroutine inside bind (the other user of sess.mu
\* takes and releases it in one step).
LockHeld == \A c \in Chans : mu = c <=> pc[c] \in Holding

\* bind closes the channel it is about to replace, and a reader its own.
ClosedFirst ==
    \A c \in Chans :
        /\ pc[c] \in {"nilOld", "assign"} /\ ups[IndexOf[c]] # None
              => conn[ups[IndexOf[c]]] # "open"
        /\ pc[c] \in Closed => conn[c] # "open"

Inv == TypeOK /\ LockHeld /\ ClosedFirst /\ BoundHasReader /\ OneOpenPerIndex
       /\ NoOrphanFlows

LEMMA InvInit ==
    ASSUME Init
    PROVE  Inv
<1>1. TypeOK
  BY DEF Init, TypeOK
<1>2. LockHeld /\ ClosedFirst
  BY SessionAssumption DEF Init, LockHeld, ClosedFirst, Holding, Closed
<1>3. BoundHasReader /\ OneOpenPerIndex /\ NoOrphanFlows
  BY SessionAssumption DEF Init, BoundHasReader, OneOpenPerIndex, NoOrphanFlows
<1> QED
  BY <1>1, <1>2, <1>3 DEF Inv

LEMMA Inv_Accept ==
    ASSUME Inv, NEW c \in Chans, Accept(c)
    PROVE  Inv'
<1> USE SessionAssumption DEF Accept, Step, Goto
<1>1. TypeOK'
  BY DEF Inv, TypeOK
<1>2. LockHeld'
  BY DEF Inv, TypeOK, LockHeld, Holding
<1>3. ClosedFirst'
  <2>1. \A i \in Indices : ups[i] # c
    BY DEF Inv, BoundHasReader, BeforeUnbind
  <2>2. \A d \in Chans : d # c => pc'[d] = pc[d] /\ conn'[d] = conn[d]
    BY DEF Inv, TypeOK
  <2>3. pc'[c] = "bind" /\ ups' = ups
    BY DEF Inv, TypeOK
  <2>4. \A d \in Chans : IndexOf[d] \in Indices /\ ups[IndexOf[d]] \in Chans \cup {None}
    BY DEF Inv, TypeOK
  <2> QED
    BY <2>1, <2>2, <2>3, <2>4 DEF Inv, ClosedFirst, Closed
<1>4. BoundHasReader'
  BY DEF Inv, TypeOK, BoundHasReader, BeforeUnbind
<1>5. OneOpenPerIndex'
  BY DEF Inv, TypeOK, OneOpenPerIndex, ClosedFirst, Closed
<1>6. NoOrphanFlows'
  BY DEF Inv, TypeOK, NoOrphanFlows, BoundHasReader, BeforeUnbind
<1> QED
  BY <1>1, <1>2, <1>3, <1>4, <1>5, <1>6 DEF Inv

LEMMA Inv_Break ==
    ASSUME Inv, NEW c \in Chans, Break(c)
    PROVE  Inv'
<1> USE SessionAssumption DEF Break
<1>1. TypeOK'
  BY DEF Inv, TypeOK
<1>2. LockHeld'
  BY DEF Inv, TypeOK, LockHeld, Holding
<1>3. ClosedFirst'
  BY DEF Inv, TypeOK, ClosedFirst, LockHeld, Holding, BoundHasReader, BeforeUnbind, Closed
<1>4. BoundHasReader'
  BY DEF Inv, TypeOK, BoundHasReader, BeforeUnbind
<1>5. OneOpenPerIndex'
  BY DEF Inv, TypeOK, OneOpenPerIndex, ClosedFirst, Closed
<1>6. NoOrphanFlows'
  BY DEF Inv, TypeOK, NoOrphanFlows, BoundHasReader, BeforeUnbind
<1> QED
  BY <1>1, <1>2, <1>3, <1>4, <1>5, <1>6 DEF Inv

LEMMA Inv_Bind ==
    ASSUME Inv, NEW c \in Chans, Bind(c)
    PROVE  Inv'
<1> USE SessionAssumption DEF Bind, Step, Goto
<1>1. TypeOK'
  BY DEF Inv, TypeOK
<1>2. LockHeld'
  BY DEF Inv, TypeOK, LockHeld, Holding
<1>3. ClosedFirst'
  BY DEF Inv, TypeOK, ClosedFirst, LockHeld, Holding, BoundHasReader, BeforeUnbind, Closed
<1>4. BoundHasReader'
  BY DEF Inv, TypeOK, BoundHasReader, BeforeUnbind
<1>5. OneOpenPerIndex'
  BY DEF Inv, TypeOK, OneOpenPerIndex, ClosedFirst, Closed
<1>6. NoOrphanFlows'
  BY DEF Inv, TypeOK, NoOrphanFlows, BoundHasReader, BeforeUnbind
<1> QED
  BY <1>1, <1>2, <1>3, <1>4, <1>5, <1>6 DEF Inv

LEMMA Inv_CloseOld ==
    ASSUME Inv, NEW c \in Chans, CloseOld(c)
    PROVE  Inv'
<1> USE SessionAssumption DEF CloseOld, Step, Goto, CloseConn
<1>1. TypeOK'
  BY DEF Inv, TypeOK
<1>2. LockHeld'
  BY DEF Inv, TypeOK, LockHeld, Holding
<1>3. ClosedFirst'
  <2>1. \A d \in Chans : conn'[d] = "open" => conn[d] = "open"
    BY DEF Inv, TypeOK
  <2>2. ups' = ups /\ \A d \in Chans : d # c => pc'[d] = pc[d]
    BY DEF Inv, TypeOK
  <2>3. pc'[c] = "nilOld" /\ (ups[IndexOf[c]] # None => conn'[ups[IndexOf[c]]] # "open")
    BY DEF Inv, TypeOK
  <2>4. \A d \in Chans : ups[IndexOf[d]] \in Chans \cup {None}
    BY DEF Inv, TypeOK
  <2> QED
    BY <2>1, <2>2, <2>3, <2>4 DEF Inv, ClosedFirst, Closed
<1>4. BoundHasReader'
  BY DEF Inv, TypeOK, BoundHasReader, BeforeUnbind
<1>5. OneOpenPerIndex'
  BY DEF Inv, TypeOK, OneOpenPerIndex, ClosedFirst, Closed
<1>6. NoOrphanFlows'
  BY DEF Inv, TypeOK, NoOrphanFlows, BoundHasReader, BeforeUnbind
<1> QED
  BY <1>1, <1>2, <1>3, <1>4, <1>5, <1>6 DEF Inv

LEMMA Inv_NilOld ==
    ASSUME Inv, NEW c \in Chans, NilOld(c)
    PROVE  Inv'
<1> USE SessionAssumption DEF NilOld, Step, Goto, NilConn
<1>1. TypeOK'
  BY DEF Inv, TypeOK
<1>2. LockHeld'
  BY DEF Inv, TypeOK, LockHeld, Holding
<1>3. ClosedFirst'
  BY DEF Inv, TypeOK, ClosedFirst, LockHeld, Holding, BoundHasReader, BeforeUnbind, Closed
<1>4. BoundHasReader'
  BY DEF Inv, TypeOK, BoundHasReader, BeforeUnbind
<1>5. OneOpenPerIndex'
  BY DEF Inv, TypeOK, OneOpenPerIndex, ClosedFirst, Closed
<1>6. NoOrphanFlows'
  BY DEF Inv, TypeOK, NoOrphanFlows, BoundHasReader, BeforeUnbind
<1> QED
  BY <1>1, <1>2, <1>3, <1>4, <1>5, <1>6 DEF Inv

LEMMA Inv_Assign ==
    ASSUME Inv, NEW c \in Chans, Assign(c)
    PROVE  Inv'
<1> USE SessionAssumption DEF Assign, Step, Goto
<1>1. TypeOK'
  BY DEF Inv, TypeOK
<1>2. LockHeld'
  BY DEF Inv, TypeOK, LockHeld, Holding
<1>3. ClosedFirst'
  BY DEF Inv, TypeOK, ClosedFirst, LockHeld, Holding, BoundHasReader, BeforeUnbind, Closed
<1>4. BoundHasReader'
  BY DEF Inv, TypeOK, BoundHasReader, BeforeUnbind
<1>5. OneOpenPerIndex'
  <2>1. /\ pc[c] = "assign" /\ pc'[c] = "check" /\ conn' = conn
        /\ \A d \in Chans \ {c} : pc'[d] = pc[d]
        /\ \A i \in Indices : ups'[i] = IF i = IndexOf[c] THEN c ELSE ups[i]
        /\ \A d \in Chans : IndexOf[d] \in Indices
    BY DEF Inv, TypeOK
  <2>2. ASSUME NEW d \in Chans \ {c}, conn[d] = "open", IndexOf[d] = IndexOf[c],
               pc[d] \notin {"undialed", "bind", "closeOld", "nilOld", "assign"}
        PROVE  FALSE
    BY <2>1, <2>2 DEF Inv, OneOpenPerIndex, ClosedFirst
  <2> QED
    BY <2>1, <2>2 DEF Inv, OneOpenPerIndex
<1>6. NoOrphanFlows'
  BY DEF Inv, TypeOK, NoOrphanFlows, BoundHasReader, BeforeUnbind
<1> QED
  BY <1>1, <1>2, <1>3, <1>4, <1>5, <1>6 DEF Inv

LEMMA Inv_Check ==
    ASSUME Inv, NEW c \in Chans, Check(c)
    PROVE  Inv'
<1> USE SessionAssumption DEF Check, Goto
<1>1. TypeOK'
  BY DEF Inv, TypeOK
<1>2. LockHeld'
  BY DEF Inv, TypeOK, LockHeld, Holding
<1>3. ClosedFirst'
  BY DEF Inv, TypeOK, ClosedFirst, LockHeld, Holding, BoundHasReader, BeforeUnbind, Closed
<1>4. BoundHasReader'
  BY DEF Inv, TypeOK, BoundHasReader, BeforeUnbind
<1>5. OneOpenPerIndex'
  BY DEF Inv, TypeOK, OneOpenPerIndex, ClosedFirst, Closed
<1>6. NoOrphanFlows'
  BY DEF Inv, TypeOK, NoOrphanFlows, BoundHasReader, BeforeUnbind
<1> QED
  BY <1>1, <1>2, <1>3, <1>4, <1>5, <1>6 DEF Inv

LEMMA Inv_DerefBefore ==
    ASSUME Inv, NEW c \in Chans, DerefBefore(c)
    PROVE  Inv'
<1> USE SessionAssumption DEF DerefBefore, Deref, Goto
<1>1. TypeOK'
  BY DEF Inv, TypeOK
<1>2. LockHeld'
  BY DEF Inv, TypeOK, LockHeld, Holding
<1>3. ClosedFirst'
  BY DEF Inv, TypeOK, ClosedFirst, LockHeld, Holding, BoundHasReader, BeforeUnbind, Closed
<1>4. BoundHasReader'
  BY DEF Inv, TypeOK, BoundHasReader, BeforeUnbind
<1>5. OneOpenPerIndex'
  BY DEF Inv, TypeOK, OneOpenPerIndex, ClosedFirst, Closed
<1>6. NoOrphanFlows'
  BY DEF Inv, TypeOK, NoOrphanFlows, BoundHasReader, BeforeUnbind
<1> QED
  BY <1>1, <1>2, <1>3, <1>4, <1>5, <1>6 DEF Inv

LEMMA Inv_ReadOk ==
    ASSUME Inv, NEW c \in Chans, ReadOk(c)
    PROVE  Inv'
<1> USE SessionAssumption DEF ReadOk, Step, Goto
<1>1. TypeOK'
  BY DEF Inv, TypeOK
<1>2. LockHeld'
  BY DEF Inv, TypeOK, LockHeld, Holding
<1>3. ClosedFirst'
  BY DEF Inv, TypeOK, ClosedFirst, LockHeld, Holding, BoundHasReader, BeforeUnbind, Closed
<1>4. BoundHasReader'
  BY DEF Inv, TypeOK, BoundHasReader, BeforeUnbind
<1>5. OneOpenPerIndex'
  BY DEF Inv, TypeOK, OneOpenPerIndex, ClosedFirst, Closed
<1>6. NoOrphanFlows'
  BY DEF Inv, TypeOK, NoOrphanFlows, BoundHasReader, BeforeUnbind
<1> QED
  BY <1>1, <1>2, <1>3, <1>4, <1>5, <1>6 DEF Inv

LEMMA Inv_ReadError ==
    ASSUME Inv, NEW c \in Chans, ReadError(c)
    PROVE  Inv'
<1> USE SessionAssumption DEF ReadError, Step, Goto
<1>1. TypeOK'
  BY DEF Inv, TypeOK
<1>2. LockHeld'
  BY DEF Inv, TypeOK, LockHeld, Holding
<1>3. ClosedFirst'
  BY DEF Inv, TypeOK, ClosedFirst, LockHeld, Holding, BoundHasReader, BeforeUnbind, Closed
<1>4. BoundHasReader'
  BY DEF Inv, TypeOK, BoundHasReader, BeforeUnbind
<1>5. OneOpenPerIndex'
  BY DEF Inv, TypeOK, OneOpenPerIndex, ClosedFirst, Closed
<1>6. NoOrphanFlows'
  BY DEF Inv, TypeOK, NoOrphanFlows, BoundHasReader, BeforeUnbind
<1> QED
  BY <1>1, <1>2, <1>3, <1>4, <1>5, <1>6 DEF Inv

LEMMA Inv_DerefAfter ==
    ASSUME Inv, NEW c \in Chans, DerefAfter(c)
    PROVE  Inv'
<1> USE SessionAssumption DEF DerefAfter, Deref, Goto
<1>1. TypeOK'
  BY DEF Inv, TypeOK
<1>2. LockHeld'
  BY DEF Inv, TypeOK, LockHeld, Holding
<1>3. ClosedFirst'
  BY DEF Inv, TypeOK, ClosedFirst, LockHeld, Holding, BoundHasReader, BeforeUnbind, Closed
<1>4. BoundHasReader'
  BY DEF Inv, TypeOK, BoundHasReader, BeforeUnbind
<1>5. OneOpenPerIndex'
  BY DEF Inv, TypeOK, OneOpenPerIndex, ClosedFirst, Closed
<1>6. NoOrphanFlows'
  BY DEF Inv, TypeOK, NoOrphanFlows, BoundHasReader, BeforeUnbind
<1> QED
  BY <1>1, <1>2, <1>3, <1>4, <1>5, <1>6 DEF Inv

LEMMA Inv_ProcessFrame ==
    ASSUME Inv, NEW c \in Chans, ProcessFrame(c)
    PROVE  Inv'
<1> USE SessionAssumption DEF ProcessFrame
<1>1. TypeOK'
  BY DEF Inv, TypeOK, Frames, Flows, AfterFrame
<1>2. LockHeld'
  BY DEF Inv, TypeOK, LockHeld, Holding
<1>3. ClosedFirst'
  BY DEF Inv, TypeOK, ClosedFirst, LockHeld, Holding, BoundHasReader, BeforeUnbind, Closed
<1>4. BoundHasReader'
  BY DEF Inv, TypeOK, BoundHasReader, BeforeUnbind
<1>5. OneOpenPerIndex'
  BY DEF Inv, TypeOK, OneOpenPerIndex, ClosedFirst, Closed
<1>6. NoOrphanFlows'
  BY DEF Inv, TypeOK, NoOrphanFlows, BoundHasReader, BeforeUnbind
<1> QED
  BY <1>1, <1>2, <1>3, <1>4, <1>5, <1>6 DEF Inv

LEMMA Inv_WriteBegins ==
    ASSUME Inv, NEW c \in Chans, WriteBegins(c)
    PROVE  Inv'
<1> USE SessionAssumption DEF WriteBegins, Step, Goto
<1>1. TypeOK'
  BY DEF Inv, TypeOK, Frames, Flows, IsWrite
<1>2. LockHeld'
  BY DEF Inv, TypeOK, LockHeld, Holding
<1>3. ClosedFirst'
  BY DEF Inv, TypeOK, ClosedFirst, LockHeld, Holding, BoundHasReader, BeforeUnbind, Closed
<1>4. BoundHasReader'
  BY DEF Inv, TypeOK, BoundHasReader, BeforeUnbind
<1>5. OneOpenPerIndex'
  BY DEF Inv, TypeOK, OneOpenPerIndex, ClosedFirst, Closed
<1>6. NoOrphanFlows'
  BY DEF Inv, TypeOK, NoOrphanFlows, BoundHasReader, BeforeUnbind
<1> QED
  BY <1>1, <1>2, <1>3, <1>4, <1>5, <1>6 DEF Inv

LEMMA Inv_WriteReturns ==
    ASSUME Inv, NEW c \in Chans, WriteReturns(c)
    PROVE  Inv'
<1> USE SessionAssumption DEF WriteReturns, Step, Goto
<1>1. TypeOK'
  BY DEF Inv, TypeOK, Frames, Flows, IsWrite
<1>2. LockHeld'
  BY DEF Inv, TypeOK, LockHeld, Holding
<1>3. ClosedFirst'
  BY DEF Inv, TypeOK, ClosedFirst, LockHeld, Holding, BoundHasReader, BeforeUnbind, Closed
<1>4. BoundHasReader'
  BY DEF Inv, TypeOK, BoundHasReader, BeforeUnbind
<1>5. OneOpenPerIndex'
  BY DEF Inv, TypeOK, OneOpenPerIndex, ClosedFirst, Closed
<1>6. NoOrphanFlows'
  BY DEF Inv, TypeOK, NoOrphanFlows, BoundHasReader, BeforeUnbind
<1> QED
  BY <1>1, <1>2, <1>3, <1>4, <1>5, <1>6 DEF Inv

LEMMA Inv_NextBatch ==
    ASSUME Inv, NEW c \in Chans, NextBatch(c)
    PROVE  Inv'
<1> USE SessionAssumption DEF NextBatch, Step, Goto
<1>1. TypeOK'
  BY DEF Inv, TypeOK
<1>2. LockHeld'
  BY DEF Inv, TypeOK, LockHeld, Holding
<1>3. ClosedFirst'
  BY DEF Inv, TypeOK, ClosedFirst, LockHeld, Holding, BoundHasReader, BeforeUnbind, Closed
<1>4. BoundHasReader'
  BY DEF Inv, TypeOK, BoundHasReader, BeforeUnbind
<1>5. OneOpenPerIndex'
  BY DEF Inv, TypeOK, OneOpenPerIndex, ClosedFirst, Closed
<1>6. NoOrphanFlows'
  BY DEF Inv, TypeOK, NoOrphanFlows, BoundHasReader, BeforeUnbind
<1> QED
  BY <1>1, <1>2, <1>3, <1>4, <1>5, <1>6 DEF Inv

LEMMA Inv_CloseSelf ==
    ASSUME Inv, NEW c \in Chans, CloseSelf(c)
    PROVE  Inv'
<1> USE SessionAssumption DEF CloseSelf, Step, Goto, CloseConn
<1>1. TypeOK'
  BY DEF Inv, TypeOK
<1>2. LockHeld'
  BY DEF Inv, TypeOK, LockHeld, Holding
<1>3. ClosedFirst'
  <2>1. \A d \in Chans : conn'[d] = "open" => conn[d] = "open"
    BY DEF Inv, TypeOK
  <2>2. ups' = ups /\ \A d \in Chans : d # c => pc'[d] = pc[d]
    BY DEF Inv, TypeOK
  <2>3. pc'[c] = "nilSelf" /\ conn'[c] # "open"
    BY DEF Inv, TypeOK
  <2>4. \A d \in Chans : ups[IndexOf[d]] \in Chans \cup {None}
    BY DEF Inv, TypeOK
  <2> QED
    BY <2>1, <2>2, <2>3, <2>4 DEF Inv, ClosedFirst, Closed
<1>4. BoundHasReader'
  BY DEF Inv, TypeOK, BoundHasReader, BeforeUnbind
<1>5. OneOpenPerIndex'
  BY DEF Inv, TypeOK, OneOpenPerIndex, ClosedFirst, Closed
<1>6. NoOrphanFlows'
  BY DEF Inv, TypeOK, NoOrphanFlows, BoundHasReader, BeforeUnbind
<1> QED
  BY <1>1, <1>2, <1>3, <1>4, <1>5, <1>6 DEF Inv

LEMMA Inv_NilSelf ==
    ASSUME Inv, NEW c \in Chans, NilSelf(c)
    PROVE  Inv'
<1> USE SessionAssumption DEF NilSelf, Step, Goto, NilConn
<1>1. TypeOK'
  BY DEF Inv, TypeOK
<1>2. LockHeld'
  BY DEF Inv, TypeOK, LockHeld, Holding
<1>3. ClosedFirst'
  BY DEF Inv, TypeOK, ClosedFirst, LockHeld, Holding, BoundHasReader, BeforeUnbind, Closed
<1>4. BoundHasReader'
  BY DEF Inv, TypeOK, BoundHasReader, BeforeUnbind
<1>5. OneOpenPerIndex'
  BY DEF Inv, TypeOK, OneOpenPerIndex, ClosedFirst, Closed
<1>6. NoOrphanFlows'
  BY DEF Inv, TypeOK, NoOrphanFlows, BoundHasReader, BeforeUnbind
<1> QED
  BY <1>1, <1>2, <1>3, <1>4, <1>5, <1>6 DEF Inv

LEMMA Inv_Unbind ==
    ASSUME Inv, NEW c \in Chans, Unbind(c)
    PROVE  Inv'
<1> USE SessionAssumption DEF Unbind, Goto, Unbound
<1>1. TypeOK'
  BY DEF Inv, TypeOK
<1>2. LockHeld'
  BY DEF Inv, TypeOK, LockHeld, Holding
<1>3. ClosedFirst'
  BY DEF Inv, TypeOK, ClosedFirst, LockHeld, Holding, BoundHasReader, BeforeUnbind, Closed
<1>4. BoundHasReader'
  BY DEF Inv, TypeOK, BoundHasReader, BeforeUnbind
<1>5. OneOpenPerIndex'
  BY DEF Inv, TypeOK, OneOpenPerIndex, ClosedFirst, Closed
<1>6. NoOrphanFlows'
  BY DEF Inv, TypeOK, NoOrphanFlows, BoundHasReader, BeforeUnbind
<1> QED
  BY <1>1, <1>2, <1>3, <1>4, <1>5, <1>6 DEF Inv

LEMMA Inv_TcpRemoveAll ==
    ASSUME Inv, NEW c \in Chans, TcpRemoveAll(c)
    PROVE  Inv'
<1> USE SessionAssumption DEF TcpRemoveAll, Step, Goto
<1>1. TypeOK'
  BY DEF Inv, TypeOK
<1>2. LockHeld'
  BY DEF Inv, TypeOK, LockHeld, Holding
<1>3. ClosedFirst'
  BY DEF Inv, TypeOK, ClosedFirst, LockHeld, Holding, BoundHasReader, BeforeUnbind, Closed
<1>4. BoundHasReader'
  BY DEF Inv, TypeOK, BoundHasReader, BeforeUnbind
<1>5. OneOpenPerIndex'
  BY DEF Inv, TypeOK, OneOpenPerIndex, ClosedFirst, Closed
<1>6. NoOrphanFlows'
  BY DEF Inv, TypeOK, NoOrphanFlows, BoundHasReader, BeforeUnbind
<1> QED
  BY <1>1, <1>2, <1>3, <1>4, <1>5, <1>6 DEF Inv

LEMMA Inv_UdpRemoveAll ==
    ASSUME Inv, NEW c \in Chans, UdpRemoveAll(c)
    PROVE  Inv'
<1> USE SessionAssumption DEF UdpRemoveAll, Step, Goto
<1>1. TypeOK'
  BY DEF Inv, TypeOK
<1>2. LockHeld'
  BY DEF Inv, TypeOK, LockHeld, Holding
<1>3. ClosedFirst'
  BY DEF Inv, TypeOK, ClosedFirst, LockHeld, Holding, BoundHasReader, BeforeUnbind, Closed
<1>4. BoundHasReader'
  BY DEF Inv, TypeOK, BoundHasReader, BeforeUnbind
<1>5. OneOpenPerIndex'
  BY DEF Inv, TypeOK, OneOpenPerIndex, ClosedFirst, Closed
<1>6. NoOrphanFlows'
  BY DEF Inv, TypeOK, NoOrphanFlows, BoundHasReader, BeforeUnbind
<1> QED
  BY <1>1, <1>2, <1>3, <1>4, <1>5, <1>6 DEF Inv

LEMMA Inv_PumpEnds ==
    ASSUME Inv, NEW f \in Flows, PumpEnds(f)
    PROVE  Inv'
BY DEF PumpEnds, Inv, TypeOK, LockHeld, ClosedFirst, BoundHasReader,
       OneOpenPerIndex, NoOrphanFlows

LEMMA InvStep ==
    ASSUME Inv, [Next]_vars
    PROVE  Inv'
<1>1. CASE UNCHANGED vars
  BY <1>1 DEF vars, Inv, TypeOK, LockHeld, ClosedFirst, BoundHasReader,
              OneOpenPerIndex, NoOrphanFlows
<1>2. ASSUME NEW c \in Chans, Accept(c) \/ Break(c) \/ ReadOk(c) \/ WriteReturns(c)
      PROVE  Inv'
  BY <1>2, Inv_Accept, Inv_Break, Inv_ReadOk, Inv_WriteReturns
<1>3. ASSUME NEW c \in Chans, Binding(c)
      PROVE  Inv'
  BY <1>3, Inv_Bind, Inv_CloseOld, Inv_NilOld, Inv_Assign DEF Binding
<1>4. ASSUME NEW c \in Chans, Reading(c)
      PROVE  Inv'
  BY <1>4, Inv_Check, Inv_DerefBefore, Inv_ReadError, Inv_DerefAfter,
     Inv_ProcessFrame, Inv_WriteBegins, Inv_WriteReturns, Inv_NextBatch
     DEF Reading
<1>5. ASSUME NEW c \in Chans, Leaving(c)
      PROVE  Inv'
  BY <1>5, Inv_CloseSelf, Inv_NilSelf, Inv_Unbind, Inv_TcpRemoveAll,
     Inv_UdpRemoveAll
     DEF Leaving
<1> QED
  BY <1>1, <1>2, <1>3, <1>4, <1>5, Inv_PumpEnds DEF Next, Goroutine

\* Inv is an invariant of the session.
THEOREM SessionInvariant == Spec => []Inv
<1>1. Init => Inv
  BY InvInit
<1>2. Inv /\ [Next]_vars => Inv'
  BY InvStep
<1> QED
  BY <1>1, <1>2, PTL DEF Spec

\* sess.ups never keeps a channel without a reader.
THEOREM TableHasReaders == Spec => []BoundHasReader
<1>1. Inv => BoundHasReader
  BY DEF Inv
<1> QED
  BY <1>1, SessionInvariant, PTL

\* However often the client redials, one connection of an index stays open.
THEOREM OneConnectionPerIndex == Spec => []OneOpenPerIndex
<1>1. Inv => OneOpenPerIndex
  BY DEF Inv
<1> QED
  BY <1>1, SessionInvariant, PTL

\* Flows never outlive the readers of their session, although each reader
\* decides on the teardown from a table it has unlocked again.
THEOREM FlowsHaveReaders == Spec => []NoOrphanFlows
<1>1. Inv => NoOrphanFlows
  BY DEF Inv
<1> QED
  BY <1>1, SessionInvariant, PTL

\* The exit of a reader never takes its successor's channel out of the table.
THEOREM ReadersUnbindThemselves == Spec => OnlyItselfUnbinds
<1> DEFINE Own == \A i \in Indices :
               ups[i] # None /\ ups'[i] = None =>
                   pc[ups[i]] = "unbind" /\ pc'[ups[i]] # "unbind"
<1>1. ASSUME Inv, [Next]_vars
      PROVE  [Own]_vars
  <2>1. ASSUME NEW c \in Chans, Unbind(c)
        PROVE  Own
    BY <1>1, <2>1, SessionAssumption DEF Unbind, Unbound, Goto, Inv, TypeOK
  <2>2. ASSUME NEW c \in Chans, Assign(c)
        PROVE  Own
    BY <1>1, <2>2, SessionAssumption DEF Assign, Inv, TypeOK
  <2>3. CASE ups' = ups
    BY <2>3
  <2>4. ASSUME NEW c \in Chans, Binding(c)
        PROVE  Own
    BY <2>2, <2>3, <2>4 DEF Binding, Bind, CloseOld, NilOld
  <2>5. ASSUME NEW c \in Chans, Leaving(c)
        PROVE  Own
    BY <2>1, <2>3, <2>5
       DEF Leaving, CloseSelf, NilSelf, TcpRemoveAll, UdpRemoveAll
  <2>6. ASSUME NEW c \in Chans,
               Reading(c) \/ Accept(c) \/ Break(c) \/ ReadOk(c) \/ WriteReturns(c)
        PROVE  Own
    BY <2>3, <2>6
       DEF Reading, Check, DerefBefore, Deref, ReadError, DerefAfter,
           ProcessFrame, WriteBegins, WriteReturns, NextBatch, Accept, Break, ReadOk
  <2>7. ASSUME NEW f \in Flows, PumpEnds(f)
        PROVE  Own
    BY <2>3, <2>7 DEF PumpEnds
  <2> QED
    BY <1>1, <2>4, <2>5, <2>6, <2>7 DEF Next, Goroutine
<1> QED
  BY <1>1, SessionInvariant, PTL DEF Spec, OnlyItselfUnbinds
-----------------------------------------------------------------------------
(* The crash of ReadFrames on a nil conn *)

InBind == {"bind", "closeOld", "nilOld", "assign"}
InReader == {"check", "deref", "read", "derefOk", "derefErr", "process", "write", "close"}

\* A channel keeps its conn until it is bound, and after that for as long as its
\* own reader has not closed it, unless the bind of its successor has.
NilIsReplaced ==
    \A c \in Chans :
        /\ pc[c] \in InBind => conn[c] # "nil"
        /\ pc[c] \in InReader /\ conn[c] = "nil" => Replaced(c)

\* A step of one channel c that leaves sess.ups alone, is not its Assign, and
\* finds no conn nil that is not replaced.
LEMMA NilIsReplaced_Own ==
    ASSUME Inv, NilIsReplaced, NEW c \in Chans, ups' = ups,
           \A d \in Chans \ {c} : pc'[d] = pc[d] /\ conn'[d] = conn[d],
           pc[c] # "assign", pc'[c] # "undialed",
           pc[c] \in {"undialed"} \cup InBind \/ pc'[c] \notin InBind,
           pc'[c] \in InBind => conn'[c] # "nil",
           pc'[c] \in InReader /\ conn'[c] = "nil" => Replaced(c)
    PROVE  NilIsReplaced'
<1>1. ASSUME NEW d \in Chans, Replaced(d)
      PROVE  Replaced(d)'
  BY <1>1 DEF Replaced, InBind
<1> QED
  BY <1>1 DEF NilIsReplaced

\* bind closes the channel that the index has: a bound one, so another than the
\* one that is binding.
LEMMA NilIsReplaced_Old ==
    ASSUME Inv, NilIsReplaced, NEW c \in Chans, CloseOld(c) \/ NilOld(c)
    PROVE  NilIsReplaced'
<1> USE SessionAssumption DEF CloseOld, NilOld, CloseConn, NilConn, Step, Goto
<1>1. /\ pc[c] \in {"closeOld", "nilOld"} /\ pc'[c] \in {"nilOld", "assign"}
      /\ ups' = ups /\ \A d \in Chans \ {c} : pc'[d] = pc[d]
  BY DEF Inv, TypeOK
<1>2. ASSUME NEW d \in Chans, Replaced(d)
      PROVE  Replaced(d)'
  BY <1>1, <1>2 DEF Replaced
<1>3. ASSUME NEW d \in Chans, conn'[d] # conn[d]
      PROVE  /\ d # c /\ pc'[d] \notin InBind
             /\ conn'[d] = "nil" => Replaced(d)'
  <2>1. ups[IndexOf[c]] = d /\ IndexOf[c] \in Indices
    BY <1>3 DEF Inv, TypeOK
  <2>2. IndexOf[d] = IndexOf[c] /\ pc[d] \in BeforeUnbind
    BY <2>1, <1>3 DEF Inv, BoundHasReader
  <2>3. d # c /\ pc'[d] = pc[d]
    BY <2>2, <1>1 DEF BeforeUnbind
  <2>4. conn'[d] = "nil" => pc'[c] = "assign"
    BY <1>3, <2>1 DEF Inv, TypeOK
  <2> QED
    BY <1>1, <2>1, <2>2, <2>3, <2>4 DEF BeforeUnbind, InBind, Replaced
<1>4. pc[c] \in InBind /\ conn'[c] # "nil"
  BY <1>1, <1>3 DEF NilIsReplaced, InBind
<1> QED
  BY <1>1, <1>2, <1>3, <1>4 DEF NilIsReplaced, InReader

\* Assign completes the replacement of the channel that the index had.
LEMMA NilIsReplaced_Assign ==
    ASSUME Inv, NilIsReplaced, NEW c \in Chans, Assign(c)
    PROVE  NilIsReplaced'
<1> USE SessionAssumption DEF Assign, Step, Goto
<1>1. /\ pc[c] = "assign" /\ pc'[c] = "check" /\ conn' = conn
      /\ \A d \in Chans \ {c} : pc'[d] = pc[d]
      /\ \A i \in Indices : ups'[i] = IF i = IndexOf[c] THEN c ELSE ups[i]
      /\ \A d \in Chans : IndexOf[d] \in Indices
  BY DEF Inv, TypeOK
<1>2. ASSUME NEW d \in Chans \ {c}, Replaced(d)
      PROVE  Replaced(d)'
  <2>1. PICK e \in Chans \ {d} :
          /\ IndexOf[e] = IndexOf[d]
          /\ IF ups[IndexOf[d]] = d THEN pc[e] = "assign"
             ELSE pc[e] \notin {"undialed", "bind", "closeOld", "nilOld", "assign"}
    BY <1>2 DEF Replaced
  <2>2. CASE IndexOf[d] = IndexOf[c]
    BY <1>1, <2>2 DEF Replaced
  <2>3. CASE IndexOf[d] # IndexOf[c]
    BY <1>1, <2>1, <2>3 DEF Replaced
  <2> QED
    BY <2>2, <2>3
<1>3. conn[c] # "nil"
  BY <1>1 DEF NilIsReplaced, InBind
<1> QED
  BY <1>1, <1>2, <1>3 DEF NilIsReplaced, InBind

\* A reader leaves the table to its successor: what is replaced stays replaced.
LEMMA NilIsReplaced_Unbind ==
    ASSUME Inv, NilIsReplaced, NEW c \in Chans, Unbind(c)
    PROVE  NilIsReplaced'
<1> USE SessionAssumption DEF Unbind, Unbound, Goto
<1>1. /\ pc[c] = "unbind" /\ pc'[c] \in {"tcpRemoveAll", "done"} /\ conn' = conn
      /\ \A d \in Chans \ {c} : pc'[d] = pc[d]
      /\ \A i \in Indices : ups'[i] = ups[i] \/ (ups[i] = c /\ ups'[i] = None)
      /\ \A d \in Chans : IndexOf[d] \in Indices
  BY DEF Inv, TypeOK
<1>2. ASSUME NEW d \in Chans \ {c}, Replaced(d)
      PROVE  Replaced(d)'
  BY <1>1, <1>2 DEF Replaced
<1> QED
  BY <1>1, <1>2 DEF NilIsReplaced, InBind, InReader

LEMMA NilIsReplacedStep ==
    ASSUME Inv, NilIsReplaced, [Next]_vars
    PROVE  NilIsReplaced'
<1> USE DEF Step, Goto
<1>1. CASE UNCHANGED vars
  BY <1>1 DEF vars, NilIsReplaced, Replaced
<1>2. ASSUME NEW c \in Chans, Accept(c) \/ Bind(c)
      PROVE  NilIsReplaced'
  BY <1>2, NilIsReplaced_Own
     DEF Accept, Bind, Inv, TypeOK, NilIsReplaced, InBind, InReader
<1>3. ASSUME NEW c \in Chans, Break(c)
      PROVE  NilIsReplaced'
  BY <1>3 DEF Break, NilIsReplaced, Replaced
<1>4. ASSUME NEW c \in Chans, ReadOk(c) \/ Reading(c) \/ WriteReturns(c)
      PROVE  NilIsReplaced'
  <2>1. /\ pc[c] \in InReader /\ pc'[c] \in InReader /\ conn' = conn /\ ups' = ups
        /\ \A d \in Chans \ {c} : pc'[d] = pc[d]
    BY <1>4 DEF ReadOk, Reading, Check, DerefBefore, Deref, ReadError, DerefAfter,
                ProcessFrame, WriteBegins, WriteReturns, NextBatch, Inv, TypeOK, InReader
  <2> QED
    BY <2>1, NilIsReplaced_Own DEF NilIsReplaced, InBind, InReader
<1>5. ASSUME NEW c \in Chans,
             CloseSelf(c) \/ NilSelf(c) \/ TcpRemoveAll(c) \/ UdpRemoveAll(c)
      PROVE  NilIsReplaced'
  <2>1. /\ pc'[c] \in Closed \ {"undialed"} /\ pc[c] # "assign" /\ ups' = ups
        /\ \A d \in Chans \ {c} : pc'[d] = pc[d] /\ conn'[d] = conn[d]
    BY <1>5 DEF CloseSelf, NilSelf, TcpRemoveAll, UdpRemoveAll,
                CloseConn, NilConn, Inv, TypeOK, Closed
  <2> QED
    BY <2>1, NilIsReplaced_Own DEF Closed, InBind, InReader
<1>6. ASSUME NEW f \in Flows, PumpEnds(f)
      PROVE  NilIsReplaced'
  BY <1>6 DEF PumpEnds, NilIsReplaced, Replaced
<1> QED
  BY <1>1, <1>2, <1>3, <1>4, <1>5, <1>6, NilIsReplaced_Old, NilIsReplaced_Assign,
     NilIsReplaced_Unbind
     DEF Next, Goroutine, Binding, Leaving

\* The process dies in a reader that meets nil; and what has died takes no step.
CrashMeetsNil == crashed => \E c \in Chans : MeetsNil(c)

LEMMA CrashMeetsNilStep ==
    ASSUME Inv, CrashMeetsNil, [Next]_vars
    PROVE  CrashMeetsNil'
<1>1. CASE UNCHANGED vars
  BY <1>1 DEF vars, CrashMeetsNil, MeetsNil
<1>2. ASSUME NEW c \in Chans, NEW from \in {"deref", "derefOk", "derefErr"}, NEW to,
             Deref(c, from, to), ~crashed, crashed'
      PROVE  CrashMeetsNil'
  <2>1. pc' = pc /\ pc[c] = from /\ conn[c] = "nil" /\ conn' = conn
    BY <1>2 DEF Deref
  <2> QED
    BY <2>1 DEF MeetsNil, CrashMeetsNil
<1>3. ASSUME NEW c \in Chans, DerefBefore(c) \/ DerefAfter(c), ~crashed
      PROVE  CrashMeetsNil'
  <2>1. CASE crashed'
    BY <1>2, <1>3, <2>1 DEF DerefBefore, DerefAfter
  <2> QED
    BY <2>1 DEF CrashMeetsNil
<1>4. ASSUME UNCHANGED crashed, ~crashed
      PROVE  CrashMeetsNil'
  BY <1>4 DEF CrashMeetsNil
<1>5. ASSUME NEW c \in Chans, ~crashed,
             Accept(c) \/ Break(c) \/ ReadOk(c) \/ WriteReturns(c) \/ Goroutine(c)
      PROVE  CrashMeetsNil'
  BY <1>3, <1>4, <1>5
     DEF Accept, Break, ReadOk, Goroutine, Binding, Bind, CloseOld, NilOld, Assign,
         Reading, Check, ReadError, ProcessFrame, WriteBegins, WriteReturns, NextBatch,
         Leaving, CloseSelf, NilSelf, Unbind, TcpRemoveAll, UdpRemoveAll
<1>6. ASSUME NEW f \in Flows, PumpEnds(f), ~crashed
      PROVE  CrashMeetsNil'
  BY <1>4, <1>6 DEF PumpEnds
<1> QED
  BY <1>1, <1>5, <1>6 DEF Next

\* ReadFrames meets a nil conn only on a channel that the bind of another channel
\* of the same index replaces: a channel whose index is not dialed again never
\* takes the server down.
THEOREM CrashNeedsRedial == Spec => []NilNeedsRedial
<1>1. Init => NilIsReplaced /\ CrashMeetsNil
  BY DEF Init, NilIsReplaced, InBind, InReader, CrashMeetsNil
<1>2. Inv /\ NilIsReplaced /\ CrashMeetsNil /\ [Next]_vars
      => (NilIsReplaced /\ CrashMeetsNil)'
  BY NilIsReplacedStep, CrashMeetsNilStep
<1>3. NilIsReplaced /\ CrashMeetsNil => NilNeedsRedial
  BY DEF NilIsReplaced, CrashMeetsNil, NilNeedsRedial, MeetsNil, InReader
<1> QED
  BY <1>1, <1>2, <1>3, SessionInvariant, PTL DEF Spec

------------------------------------------------------------------------------
(* FtpDecoy: DecoyControl keeps the two sides of a control connection in   *)
(* step, and PlacesOk gives every data connection one place.               *)

DecoyType ==
    /\ cli \in [Sess -> {"pasv", "227", "dial", "cmd", "reply", "done"}]
    /\ srv \in [Sess -> {"idle", "arm", "wait", "clear", "send", "ended"}]
    /\ round \in [Sess -> 0..2] /\ cancel \subseteq Sess
    /\ dc \in [Sess -> Conns \cup {Nil}]
    /\ pend \in [Pools -> Keys \cup {Nil}] /\ box \in [Keys -> Conns \cup {Nil}]
    /\ backlog \in [Pools -> Seq(Conns)]
    /\ held \in [Pools -> [conn : Conns, pend : Keys \cup {Nil}] \cup {Nil}]
    /\ reading \subseteq Conns /\ bound \subseteq Tunnels
    /\ tries \in [Tunnels -> 0..MaxTries]

\* The two sides of a control connection: a session has its cancel function from the
\* 227 to the command, or until serve returns, and the client asks for a second PASV
\* only after the first.
InStep ==
    \A s \in Sess :
        /\ cli[s] = "pasv" => round[s] \in {0, 1}
        /\ cli[s] # "pasv" => round[s] \in {1, 2}
        /\ srv[s] # "idle" => round[s] \in {1, 2}
        /\ srv[s] = "arm" => cli[s] = "227"
        /\ cli[s] = "227" => srv[s] = "arm"
        /\ cli[s] \in {"dial", "cmd"} => srv[s] = "idle"
        /\ s \in cancel => cli[s] \in {"dial", "cmd", "done"} /\ srv[s] = "idle"

\* The connection is in the backlog of a pool, in the hands of its acceptLoop, in a
\* channel, in the transfer of a session, in handleDataConn, or closed.
Queued(c, p) == \E i \in 1..Len(backlog[p]) : backlog[p][i] = c

At(c, l, x) ==
    \/ l = "backlog" /\ x \in Pools /\ Queued(c, x)
    \/ l = "held" /\ x \in Pools /\ held[x] # Nil /\ held[x].conn = c
    \/ l = "box" /\ x \in Keys /\ box[x] = c
    \/ l = "dc" /\ x \in Sess /\ dc[x] = c
    \/ l = "reading" /\ x = c /\ c \in reading
    \/ l = "closed" /\ x = c /\ c \in closed

Nowhere(c) == \A l, x : ~At(c, l, x)

\* Nobody has dialed the connection yet.
Undialed(c) ==
    \/ c \in Keys /\ c[2] > round[c[1]]
    \/ c \in Keys /\ c[2] = round[c[1]] /\ cli[c[1]] \in {"227", "dial"}
    \/ c \in Tunnels \X (1..MaxTries) /\ c[2] > tries[c[1]]

\* A connection is in one place,
OnePlace == \A c \in Conns : \A l, x, m, y : At(c, l, x) /\ At(c, m, y) => l = m /\ x = y
\* and in a backlog once;
QueuedOnce ==
    \A p \in Pools : \A i, j \in 1..Len(backlog[p]) : backlog[p][i] = backlog[p][j] => i = j
\* one that is not dialed, or that a tunnel has, is in none;
DialedFirst == \A c \in Conns : Undialed(c) => Nowhere(c)
BoundIsGone ==
    \A c \in Tunnels \X (1..MaxTries) : c[1] \in bound /\ c[2] = tries[c[1]] => Nowhere(c)
\* and a tunnel dials when its last connection is closed.
RedialsClosed == \A t \in Tunnels : \A i \in 1..MaxTries : i < tries[t] => <<t, i>> \in closed

PlacesOk == OnePlace /\ QueuedOnce /\ DialedFirst /\ BoundIsGone /\ RedialsClosed

DecoyControl == DecoyType /\ InStep /\ ArmedHasOwner

\* The channel and the data connection of a PASV are named after it.
LEMMA KeyFacts ==
    ASSUME DecoyControl, NEW s \in Sess
    PROVE  /\ round[s] \in Nat
           /\ cli[s] # "pasv" \/ srv[s] # "idle" => Key(s) \in Keys
           /\ cli[s] = "pasv" => <<s, round[s] + 1>> \in Keys
           /\ \A k \in Keys : k[1] \in Sess /\ k[2] \in 1..2 /\ k = <<k[1], k[2]>>
BY DEF DecoyControl, DecoyType, InStep, Key, Keys

\* A decoy's data connection is not a tunnel's.
LEMMA TunnelNoKey ==
    ASSUME NEW c \in Keys
    PROVE  c \notin Tunnels \X (1..MaxTries) /\ c[1] \notin Tunnels /\ c \in Conns /\ c # Nil
BY DecoyAssumption DEF Keys, Tunnels, Conns

LEMMA ControlInit ==
    ASSUME DecoyInit
    PROVE  DecoyControl
<1> USE DecoyAssumption DEF DecoyInit
<1>1. DecoyType
  BY DEF DecoyType
<1>2. InStep
  BY DEF InStep
<1>3. ArmedHasOwner
  BY DEF ArmedHasOwner, Pools
<1> QED
  BY <1>1, <1>2, <1>3 DEF DecoyControl

\* A session that asks for a PASV has no channel of an earlier one in a pool.
LEMMA Control_Pasv ==
    ASSUME DecoyControl, NEW s \in Sess, Pasv(s)
    PROVE  DecoyControl'
<1> USE DEF DecoyControl, Pasv, connVars
<1>1. <<s, round[s] + 1>> \in Keys /\ round[s] + 1 \in {1, 2} /\ round[s] \in Nat
  BY KeyFacts DEF Keys
<1>2. Key(s)' = <<s, round[s] + 1>>
  BY DEF DecoyType, Key
<1>3. DecoyType'
  BY <1>1, <1>2 DEF DecoyType, Pools
<1>4. InStep'
  BY <1>1 DEF DecoyType, InStep
<1>5. \A k \in Keys : Owned(k) => k[1] # s
  BY DEF InStep, Owned
<1>6. \A k \in Keys : Owned(k) => Owned(k)'
  BY <1>5, KeyFacts DEF DecoyType, Owned, Key
<1>7. \A k \in Keys : k = <<s, round[s] + 1>> => Owned(k)'
  BY <1>2 DEF DecoyType, Owned, Key
<1>8. ArmedHasOwner'
  BY <1>1, <1>2, <1>6, <1>7 DEF DecoyType, ArmedHasOwner, Pools
<1> QED
  BY <1>3, <1>4, <1>8

\* The steps of a session that leave the pools as they are and take nothing from
\* a channel's owner.
LEMMA Control_Session ==
    ASSUME DecoyControl, NEW s \in Sess,
           Dial(s) \/ DialFails(s) \/ Command(s) \/ WaitGets(s) \/ WaitTimesOut(s)
             \/ Send(s) \/ ListReturns(s) \/ DownloadReturns(s)
    PROVE  DecoyControl'
<1> USE DEF DecoyControl, poolVars, connVars
<1>0. pend' = pend /\ round' = round /\ held' = held /\ reading' = reading
      /\ bound' = bound /\ tries' = tries
  BY DEF Dial, DialFails, Command, WaitGets, WaitTimesOut, Send, ListReturns, DownloadReturns
<1>1. cli' \in [Sess -> {"pasv", "227", "dial", "cmd", "reply", "done"}]
      /\ srv' \in [Sess -> {"idle", "arm", "wait", "clear", "send", "ended"}]
      /\ cancel' \subseteq Sess
  BY DEF DecoyType, Dial, DialFails, Command, WaitGets, WaitTimesOut, Send, ListReturns,
         DownloadReturns
<1>2. cli[s] # "pasv" \/ srv[s] # "idle"
  BY DEF InStep, Dial, DialFails, Command, WaitGets, WaitTimesOut, Send, ListReturns,
         DownloadReturns
<1>3. Key(s) \in Keys /\ Key(s) \in Conns
  BY <1>2, KeyFacts DEF Conns
<1>4. dc' \in [Sess -> Conns \cup {Nil}] /\ box' \in [Keys -> Conns \cup {Nil}]
  BY <1>3 DEF DecoyType, Dial, DialFails, Command, WaitGets, WaitTimesOut, Send, ListReturns,
              DownloadReturns
<1>5. backlog' \in [Pools -> Seq(Conns)]
  <2>1. backlog' = backlog \/ \E p \in Pools : backlog' = [backlog EXCEPT ![p] = Append(@, Key(s))]
    BY DEF Dial, DialFails, Command, WaitGets, WaitTimesOut, Send, ListReturns, DownloadReturns,
           DialsPool
  <2>2. \A p \in Pools : Append(backlog[p], Key(s)) \in Seq(Conns)
    BY <1>3 DEF DecoyType
  <2> QED
    BY <2>1, <2>2 DEF DecoyType
<1>6. DecoyType'
  BY <1>0, <1>1, <1>4, <1>5 DEF DecoyType
<1>7. InStep'
  BY <1>0 DEF InStep, DecoyType, Dial, DialFails, Command, WaitGets, WaitTimesOut, Send,
              ListReturns, DownloadReturns
<1>8. \A k \in Keys : Owned(k) => Owned(k)'
  <2>1. TAKE k \in Keys
  <2>2. k[1] # s => srv'[k[1]] = srv[k[1]] /\ (k[1] \in cancel => k[1] \in cancel')
    BY KeyFacts DEF DecoyType, Dial, DialFails, Command, WaitGets, WaitTimesOut, Send,
                    ListReturns, DownloadReturns
  <2>3. s \in cancel => s \in cancel' \/ srv'[s] = "wait"
    BY DEF DecoyType, Dial, DialFails, Command, WaitGets, WaitTimesOut, Send, ListReturns,
           DownloadReturns
  <2>4. srv[s] \in {"arm", "wait", "clear"} => srv'[s] \in {"arm", "wait", "clear"}
    BY DEF DecoyType, InStep, Dial, DialFails, Command, WaitGets, WaitTimesOut, Send, ListReturns,
           DownloadReturns
  <2>5. k[1] = s \/ k[1] # s
    OBVIOUS
  <2> QED
    BY <1>0, <2>2, <2>3, <2>4 DEF Owned, Key
<1>9. ArmedHasOwner'
  BY <1>0, <1>8 DEF DecoyType, ArmedHasOwner
<1> QED
  BY <1>6, <1>7, <1>9

\* The steps that arm and disarm.
LEMMA Control_Arm ==
    ASSUME DecoyControl, NEW s \in Sess, ArmDown(s)
    PROVE  DecoyControl'
<1> USE DEF DecoyControl, ArmDown, connVars
<1>1. Key(s) \in Keys
  BY KeyFacts DEF InStep
<1>2. DecoyType'
  BY <1>1 DEF DecoyType
<1>3. InStep'
  BY DEF DecoyType, InStep
<1>4. \A k \in Keys : Owned(k) => Owned(k)'
  BY KeyFacts DEF DecoyType, Owned, Key
<1>5. \A k \in Keys : k = Key(s) => Owned(k)'
  BY DEF DecoyType, Owned, Key
<1>6. ArmedHasOwner'
  BY <1>1, <1>4, <1>5 DEF DecoyType, ArmedHasOwner
<1> QED
  BY <1>2, <1>3, <1>6

\* The end of a wait and of serve take the session's channel out of both pools.
LEMMA Control_Disarm ==
    ASSUME DecoyControl, NEW s \in Sess, WaitClears(s) \/ ServeEnds(s)
    PROVE  DecoyControl'
<1> USE DEF DecoyControl, connVars, Cancel, ClearDecoy
<1>1. s \in cancel => Key(s) \in Keys
  BY KeyFacts DEF InStep
<1>2. pend' \in [Pools -> Keys \cup {Nil}] /\ box' \in [Keys -> Conns \cup {Nil}]
  <2>1. CASE WaitClears(s)
    BY <2>1 DEF DecoyType, WaitClears
  <2>2. CASE ServeEnds(s) /\ s \in cancel
    BY <1>1, <2>2 DEF DecoyType, ServeEnds
  <2>3. CASE ServeEnds(s) /\ s \notin cancel
    BY <2>3 DEF DecoyType, ServeEnds
  <2> QED
    BY <2>1, <2>2, <2>3
<1>3. srv' \in [Sess -> {"idle", "arm", "wait", "clear", "send", "ended"}]
  BY DEF DecoyType, WaitClears, ServeEnds
<1>4. DecoyType'
  BY <1>2, <1>3 DEF DecoyType, WaitClears, ServeEnds
<1>5. InStep'
  BY DEF DecoyType, InStep, WaitClears, ServeEnds
<1>6. \A k \in Keys : Owned(k) /\ k[1] # s => Owned(k)'
  BY KeyFacts DEF DecoyType, Owned, Key, WaitClears, ServeEnds
<1>7. ASSUME NEW p \in Pools, pend'[p] # Nil
      PROVE  pend'[p] = pend[p] /\ pend[p] \in Keys /\ pend[p][1] # s
  <2>1. pend'[p] = pend[p] /\ pend[p] \in Keys
    BY <1>7 DEF DecoyType, WaitClears, ServeEnds
  <2>2. Owned(pend[p])
    BY <1>7, <2>1 DEF ArmedHasOwner
  <2>3. pend[p] # Key(s) \/ (s \notin cancel /\ srv[s] = "idle")
    BY <1>7 DEF DecoyType, WaitClears, ServeEnds
  <2> QED
    BY <2>1, <2>2, <2>3 DEF Owned
<1>8. ArmedHasOwner'
  BY <1>6, <1>7 DEF ArmedHasOwner
<1> QED
  BY <1>4, <1>5, <1>8

\* The pools and the tunnels leave the sessions alone.
LEMMA Control_Pools ==
    ASSUME DecoyControl,
           \/ \E p \in Pools : AcceptLoop(p) \/ Hand(p)
           \/ \E c \in Conns : HandleDataConn(c)
           \/ \E t \in Tunnels : TunnelDial(t)
    PROVE  DecoyControl'
<1> USE DEF DecoyControl, sessVars, poolVars, connVars
<1>1. UNCHANGED <<cli, srv, round, cancel, dc, pend>>
  BY DEF AcceptLoop, Hand, HandleDataConn, TunnelDial
<1>2. InStep' /\ (DecoyType => ArmedHasOwner')
  BY <1>1 DEF InStep, ArmedHasOwner, Owned, Key
<1>3. CASE \E p \in Pools : AcceptLoop(p)
  <2>1. PICK p \in Pools : AcceptLoop(p)
    BY <1>3
  <2>2. Head(backlog[p]) \in Conns /\ Tail(backlog[p]) \in Seq(Conns)
    BY <2>1 DEF AcceptLoop, DecoyType
  <2>3. DecoyType'
    BY <2>1, <2>2 DEF AcceptLoop, DecoyType
  <2> QED
    BY <1>2, <2>3
<1>4. CASE \E p \in Pools : Hand(p)
  <2>1. PICK p \in Pools : Hand(p)
    BY <1>4
  <2>2. held[p].conn \in Conns /\ held[p].pend \in Keys \cup {Nil}
    BY <2>1 DEF Hand, DecoyType
  <2>3. DecoyType'
    BY <2>1, <2>2 DEF Hand, DecoyType
  <2> QED
    BY <1>2, <2>3
<1>5. CASE \E c \in Conns : HandleDataConn(c)
  BY <1>2, <1>5 DEF HandleDataConn, DecoyType
<1>6. CASE \E t \in Tunnels : TunnelDial(t)
  <2>1. PICK t \in Tunnels : TunnelDial(t)
    BY <1>6
  <2>2. tries[t] + 1 \in 1..MaxTries
    BY <2>1, DecoyAssumption DEF TunnelDial, DecoyType
  <2>3. <<t, tries[t] + 1>> \in Conns
    BY <2>2 DEF Conns
  <2>4. tries' \in [Tunnels -> 0..MaxTries]
    BY <2>1, <2>2 DEF TunnelDial, DecoyType
  <2>5. Append(backlog[PoolOf(t)], <<t, tries[t] + 1>>) \in Seq(Conns) /\ PoolOf(t) \in Pools
    BY <2>3 DEF DecoyType, PoolOf, Pools
  <2>6. backlog' \in [Pools -> Seq(Conns)] /\ reading' \subseteq Conns
    BY <2>1, <2>3, <2>5 DEF TunnelDial, DecoyType
  <2>7. DecoyType'
    BY <2>1, <2>4, <2>6 DEF TunnelDial, DecoyType
  <2> QED
    BY <1>2, <2>7
<1> QED
  BY <1>3, <1>4, <1>5, <1>6

LEMMA Control_Next ==
    ASSUME DecoyControl, [DecoyNext]_decoyVars
    PROVE  DecoyControl'
<1>1. CASE UNCHANGED decoyVars
  BY <1>1 DEF DecoyControl, DecoyType, InStep, ArmedHasOwner, Owned, Key, decoyVars, sessVars,
              poolVars, connVars
<1>2. CASE \E s \in Sess : Client(s) \/ Server(s) \/ DialFails(s)
  BY <1>2, Control_Pasv, Control_Session, Control_Arm, Control_Disarm DEF Client, Server
<1>3. CASE DecoyNext /\ ~ \E s \in Sess : Client(s) \/ Server(s) \/ DialFails(s)
  BY <1>3, Control_Pools DEF DecoyNext, Pool
<1> QED
  BY <1>1, <1>2, <1>3 DEF DecoyNext

LEMMA PlacesInit ==
    ASSUME DecoyInit
    PROVE  PlacesOk
<1> USE DecoyAssumption DEF DecoyInit
<1>2. \A p \in Pools : backlog[p] = <<>>
  BY DEF Pools
<1>3. \A c \in Conns : Nowhere(c)
  BY <1>2 DEF Nowhere, At, Queued
<1>4. \A t \in Tunnels : tries[t] = 0
  OBVIOUS
<1>5. RedialsClosed
  BY <1>4 DEF RedialsClosed
<1> QED
  BY <1>2, <1>3, <1>5 DEF PlacesOk, OnePlace, QueuedOnce, DialedFirst, BoundIsGone, Nowhere, Conns

\* A step in which no connection gets to a new place.
LEMMA NoMove ==
    ASSUME PlacesOk,
           \A c \in Conns : \A l, x : At(c, l, x)' => At(c, l, x),
           QueuedOnce',
           \A c \in Conns : Undialed(c)' => Undialed(c),
           UNCHANGED <<bound, tries>>, closed \subseteq closed'
    PROVE  PlacesOk'
<1> USE DEF PlacesOk
<1>1. OnePlace'
  BY DEF OnePlace
<1>2. DialedFirst'
  BY DEF DialedFirst, Nowhere
<1>3. RedialsClosed'
  BY DEF RedialsClosed
<1>4. BoundIsGone'
  BY DEF BoundIsGone, Nowhere, Conns
<1> QED
  BY <1>1, <1>2, <1>3, <1>4

\* A connection leaves one place for another, and nothing else moves.
Moves(d, k0, z0, k, z) ==
    /\ At(d, k0, z0) /\ ~ At(d, k0, z0)'
    /\ \A c \in Conns : \A l, x : At(c, l, x)' => At(c, l, x) \/ (c = d /\ l = k /\ x = z)

\* The parts of the invariant after such a step.
LEMMA OneMoves ==
    ASSUME PlacesOk, NEW d \in Conns, NEW k0, NEW z0, NEW k, NEW z,
           Moves(d, k0, z0, k, z),
           QueuedOnce',
           \A c \in Conns : Undialed(c)' => Undialed(c),
           UNCHANGED <<bound, tries>>, closed \subseteq closed'
    PROVE  PlacesOk'
<1> USE DEF PlacesOk, Moves
<1>1. \A l, x : At(d, l, x)' => l = k /\ x = z
  BY DEF OnePlace
<1>2. OnePlace'
  BY <1>1 DEF OnePlace
<1>3. DialedFirst'
  BY DEF DialedFirst, Nowhere
<1>4. RedialsClosed'
  BY DEF RedialsClosed
<1>5. BoundIsGone'
  BY DEF BoundIsGone, Nowhere, Conns
<1> QED
  BY <1>2, <1>3, <1>4, <1>5

\* What the sessions do before and after they take a connection.
LEMMA Places_Talk ==
    ASSUME DecoyControl, PlacesOk, NEW s \in Sess,
           Pasv(s) \/ ArmDown(s) \/ DialFails(s) \/ Command(s) \/ WaitTimesOut(s) \/ WaitClears(s)
             \/ ListReturns(s) \/ DownloadReturns(s)
    PROVE  PlacesOk'
<1> USE DEF DecoyControl, poolVars, connVars
<1>1. UNCHANGED <<box, backlog, held, dc, reading, bound, closed, tries>>
  BY DEF Pasv, ArmDown, DialFails, Command, WaitTimesOut, WaitClears, ListReturns, DownloadReturns
<1>2. \A c \in Conns : \A l, x : At(c, l, x)' => At(c, l, x)
  BY <1>1 DEF At, Queued
<1>3. QueuedOnce'
  BY <1>1 DEF PlacesOk, QueuedOnce
<1>4. ASSUME NEW c \in Keys, NEW r \in Sess, c[1] = r, Undialed(c)'
      PROVE  Undialed(c)
  <2>1. r # s => cli'[r] = cli[r] /\ round'[r] = round[r]
    BY DEF DecoyType, Pasv, ArmDown, DialFails, Command, WaitTimesOut, WaitClears, ListReturns,
           DownloadReturns
  <2>2. round'[s] = round[s] \/ (round'[s] = round[s] + 1 /\ cli'[s] = "227")
    BY DEF DecoyType, Pasv, ArmDown, DialFails, Command, WaitTimesOut, WaitClears, ListReturns,
           DownloadReturns
  <2>3. round'[s] = round[s] /\ cli'[s] \in {"227", "dial"} => cli[s] \in {"227", "dial"}
    BY DEF DecoyType, InStep, Pasv, ArmDown, DialFails, Command, WaitTimesOut, WaitClears,
           ListReturns, DownloadReturns
  <2>4. round[s] \in Nat /\ round[r] \in Nat /\ c[2] \in Nat
    <3>1. r \in Sess /\ c[2] \in 1..2
      BY DEF Keys
    <3> QED
      BY <3>1, SMT DEF DecoyType
  <2>5. c[2] > round'[r] \/ (c[2] = round'[r] /\ cli'[r] \in {"227", "dial"})
    BY <1>1, <1>4, KeyFacts, TunnelNoKey DEF Undialed
  <2> QED
    BY <1>4, <2>1, <2>2, <2>3, <2>4, <2>5 DEF Undialed
<1>5. \A c \in Conns : Undialed(c)' => Undialed(c)
  BY <1>1, <1>4, KeyFacts DEF Undialed
<1> QED
  BY <1>1, <1>2, <1>3, <1>5, NoMove

\* The connection comes out of the channel.
LEMMA Places_WaitGets ==
    ASSUME DecoyControl, PlacesOk, NEW s \in Sess, WaitGets(s)
    PROVE  PlacesOk'
<1> USE DEF DecoyControl
<1>1. PICK k \in Keys : k = Key(s)
  BY KeyFacts DEF WaitGets
<1>2. PICK d \in Conns : d = box[k] /\ d # Nil
  BY <1>1 DEF WaitGets, DecoyType
<1>3. UNCHANGED <<backlog, held, reading, closed, bound, tries, cli, round>>
  BY DEF WaitGets, connVars
<1>4. dc' = [dc EXCEPT ![s] = d] /\ box' = [box EXCEPT ![k] = Nil]
  BY <1>1, <1>2 DEF WaitGets
<1>5. At(d, "box", k) /\ ~ At(d, "box", k)'
  BY <1>2, <1>4 DEF At, DecoyType
<1>6. ASSUME NEW c \in Conns, NEW l, NEW x, At(c, l, x)'
      PROVE  At(c, l, x) \/ (c = d /\ l = "dc" /\ x = s)
  BY <1>3, <1>4, <1>6, DecoyAssumption DEF At, Queued, DecoyType
<1>7. QueuedOnce'
  BY <1>3 DEF PlacesOk, QueuedOnce
<1>8. \A c \in Conns : Undialed(c)' => Undialed(c)
  BY <1>3 DEF Undialed
<1>9. Moves(d, "box", k, "dc", s)
  BY <1>5, <1>6 DEF Moves
<1> QED
  BY <1>3, <1>7, <1>8, <1>9, OneMoves

\* The transfer is over.
LEMMA Places_Send ==
    ASSUME DecoyControl, PlacesOk, NEW s \in Sess, Send(s)
    PROVE  PlacesOk'
<1> USE DEF DecoyControl
<1>1. CASE dc[s] = Nil
  <2>1. UNCHANGED <<box, backlog, held, reading, bound, tries, cli, round>>
    BY DEF Send, poolVars
  <2>2. dc' = [dc EXCEPT ![s] = Nil] /\ closed' = closed \cup {Nil}
    BY <1>1 DEF Send, SendCloses
  <2>3. ASSUME NEW c \in Conns, NEW l, NEW x, At(c, l, x)'
        PROVE  At(c, l, x)
    BY <2>1, <2>2, <2>3, DecoyAssumption DEF At, Queued, DecoyType
  <2>4. QueuedOnce'
    BY <2>1 DEF PlacesOk, QueuedOnce
  <2>5. \A c \in Conns : Undialed(c)' => Undialed(c)
    BY <2>1 DEF Undialed
  <2> QED
    BY <2>1, <2>2, <2>3, <2>4, <2>5, NoMove
<1>2. CASE dc[s] # Nil
  <2>1. PICK d \in Conns : d = dc[s] /\ d # Nil
    BY <1>2 DEF DecoyType
  <2>2. UNCHANGED <<box, backlog, held, reading, bound, tries, cli, round>>
    BY DEF Send, poolVars
  <2>3. dc' = [dc EXCEPT ![s] = Nil] /\ closed' = closed \cup {d}
    BY <2>1 DEF Send, SendCloses
  <2>4. At(d, "dc", s) /\ ~ At(d, "dc", s)'
    BY <2>1, <2>3 DEF At, DecoyType
  <2>5. ASSUME NEW c \in Conns, NEW l, NEW x, At(c, l, x)'
        PROVE  At(c, l, x) \/ (c = d /\ l = "closed" /\ x = d)
    BY <2>2, <2>3, <2>5, DecoyAssumption DEF At, Queued, DecoyType
  <2>6. QueuedOnce'
    BY <2>2 DEF PlacesOk, QueuedOnce
  <2>7. \A c \in Conns : Undialed(c)' => Undialed(c)
    BY <2>2 DEF Undialed
  <2>8. Moves(d, "dc", s, "closed", d)
    BY <2>4, <2>5 DEF Moves
  <2> QED
    BY <2>2, <2>3, <2>6, <2>7, <2>8, OneMoves
<1> QED
  BY <1>1, <1>2

\* serve returns: a connection in a channel that is cancelled is closed.
LEMMA Places_ServeEnds ==
    ASSUME DecoyControl, PlacesOk, NEW s \in Sess, ServeEnds(s)
    PROVE  PlacesOk'
<1> USE DEF DecoyControl
<1>0. UNCHANGED <<dc, backlog, held, reading, bound, tries, cli, round>>
  BY DEF ServeEnds
<1>1. QueuedOnce'
  BY <1>0 DEF PlacesOk, QueuedOnce
<1>2. \A c \in Conns : Undialed(c)' => Undialed(c)
  BY <1>0 DEF Undialed
<1>3. CASE s \notin cancel \/ box[Key(s)] = Nil
  <2>1. closed' = closed /\ \A k \in Keys : box'[k] = box[k]
    BY <1>3 DEF ServeEnds, Cancel, DecoyType
  <2>2. ASSUME NEW c \in Conns, NEW l, NEW x, At(c, l, x)'
        PROVE  At(c, l, x)
    BY <1>0, <2>1, <2>2 DEF At, Queued
  <2> QED
    BY <1>0, <1>1, <1>2, <2>1, <2>2, NoMove
<1>4. CASE s \in cancel /\ box[Key(s)] # Nil
  <2>1. PICK k \in Keys : k = Key(s)
    BY <1>4, KeyFacts DEF InStep
  <2>2. PICK d \in Conns : d = box[k] /\ d # Nil
    BY <1>4, <2>1 DEF DecoyType
  <2>3. box' = [box EXCEPT ![k] = Nil] /\ closed' = closed \cup {d}
    BY <1>4, <2>1, <2>2 DEF ServeEnds, Cancel
  <2>4. At(d, "box", k) /\ ~ At(d, "box", k)'
    BY <2>2, <2>3 DEF At, DecoyType
  <2>5. ASSUME NEW c \in Conns, NEW l, NEW x, At(c, l, x)'
        PROVE  At(c, l, x) \/ (c = d /\ l = "closed" /\ x = d)
    BY <1>0, <2>3, <2>5, DecoyAssumption DEF At, Queued, DecoyType
  <2>6. Moves(d, "box", k, "closed", d)
    BY <2>4, <2>5 DEF Moves
  <2> QED
    BY <1>0, <1>1, <1>2, <2>3, <2>6, OneMoves
<1> QED
  BY <1>3, <1>4

\* Accept.
LEMMA Places_AcceptLoop ==
    ASSUME DecoyControl, PlacesOk, NEW p \in Pools, AcceptLoop(p)
    PROVE  PlacesOk'
<1> USE DEF DecoyControl
<1>1. backlog[p] \in Seq(Conns) /\ Len(backlog[p]) \in Nat \ {0}
  BY DEF AcceptLoop, DecoyType
<1>2. PICK d \in Conns : d = backlog[p][1] /\ d = Head(backlog[p])
  BY <1>1
<1>3. UNCHANGED <<dc, box, reading, closed, bound, tries, cli, round>>
  BY DEF AcceptLoop, sessVars, connVars
<1>5. \A q \in Pools : q # p => held'[q] = held[q] /\ backlog'[q] = backlog[q]
  BY DEF AcceptLoop, DecoyType
<1>6. backlog'[p] = Tail(backlog[p])
  BY DEF AcceptLoop, DecoyType
<1>7. /\ Len(backlog'[p]) = Len(backlog[p]) - 1
      /\ \A i \in 1..Len(backlog'[p]) : /\ i + 1 \in 1..Len(backlog[p])
                                        /\ backlog'[p][i] = backlog[p][i + 1]
  BY <1>1, <1>6
<1>8. At(d, "backlog", p)
  BY <1>1, <1>2 DEF At, Queued
<1>9. ~ At(d, "backlog", p)'
  <2>1. \A i \in 1..Len(backlog'[p]) : backlog'[p][i] # d
    BY <1>1, <1>2, <1>7 DEF PlacesOk, QueuedOnce
  <2> QED
    BY <2>1 DEF At, Queued
<1>10. ASSUME NEW c \in Conns, NEW l, NEW x, At(c, l, x)'
       PROVE  At(c, l, x) \/ (c = d /\ l = "held" /\ x = p)
  <2>1. CASE l = "backlog"
    BY <1>5, <1>7, <1>10, <2>1 DEF At, Queued
  <2>2. CASE l = "held"
    <3>1. held'[p].conn = d
      BY <1>2 DEF AcceptLoop, DecoyType
    <3> QED
      BY <1>5, <1>10, <2>2, <3>1 DEF At
  <2>3. CASE l \notin {"backlog", "held"}
    BY <1>3, <1>10, <2>3 DEF At
  <2> QED
    BY <2>1, <2>2, <2>3
<1>11. QueuedOnce'
  <2>1. ASSUME NEW q \in Pools, NEW i \in 1..Len(backlog'[q]), NEW j \in 1..Len(backlog'[q]),
               backlog'[q][i] = backlog'[q][j]
        PROVE  i = j
    <3>1. CASE q = p
      <4>1. backlog[p][i + 1] = backlog[p][j + 1] /\ i + 1 \in 1..Len(backlog[p])
              /\ j + 1 \in 1..Len(backlog[p])
        BY <1>7, <2>1, <3>1
      <4>2. i + 1 = j + 1
        BY <4>1 DEF PlacesOk, QueuedOnce
      <4> QED
        BY <1>1, <1>7, <2>1, <3>1, <4>2
    <3>2. CASE q # p
      BY <1>5, <2>1, <3>2 DEF PlacesOk, QueuedOnce
    <3> QED
      BY <3>1, <3>2
  <2> QED
    BY <2>1 DEF QueuedOnce
<1>12. \A c \in Conns : Undialed(c)' => Undialed(c)
  BY <1>3 DEF Undialed
<1>13. Moves(d, "backlog", p, "held", p)
  BY <1>8, <1>9, <1>10 DEF Moves
<1> QED
  BY <1>3, <1>11, <1>12, <1>13, OneMoves

\* acceptLoop hands the connection on.
LEMMA Places_Hand ==
    ASSUME DecoyControl, PlacesOk, NEW p \in Pools, Hand(p)
    PROVE  PlacesOk'
<1> USE DEF DecoyControl
<1>1. PICK d \in Conns : d = held[p].conn
  BY DEF Hand, DecoyType
<1>2. /\ UNCHANGED <<dc, backlog, closed, bound, tries, cli, round>>
      /\ held' = [held EXCEPT ![p] = Nil]
  BY DEF Hand, sessVars
<1>3. At(d, "held", p) /\ ~ At(d, "held", p)'
  BY <1>1, <1>2 DEF At, DecoyType, Hand
<1>4. QueuedOnce'
  BY <1>2 DEF PlacesOk, QueuedOnce
<1>5. \A c \in Conns : Undialed(c)' => Undialed(c)
  BY <1>2 DEF Undialed
<1>6. CASE Offered(p)
  <2>1. PICK k \in Keys : k = held[p].pend
    BY <1>6 DEF Hand, DecoyType, Offered
  <2>2. box' = [box EXCEPT ![k] = d] /\ reading' = reading
    BY <1>1, <1>6, <2>1 DEF Hand
  <2>3. ASSUME NEW c \in Conns, NEW l, NEW x, At(c, l, x)'
        PROVE  At(c, l, x) \/ (c = d /\ l = "box" /\ x = k)
    BY <1>2, <2>2, <2>3 DEF At, Queued, DecoyType
  <2>4. Moves(d, "held", p, "box", k)
    BY <1>3, <2>3 DEF Moves
  <2> QED
    BY <1>2, <1>4, <1>5, <2>4, OneMoves
<1>7. CASE ~ Offered(p)
  <2>1. box' = box /\ reading' = reading \cup {d}
    BY <1>1, <1>7 DEF Hand
  <2>2. ASSUME NEW c \in Conns, NEW l, NEW x, At(c, l, x)'
        PROVE  At(c, l, x) \/ (c = d /\ l = "reading" /\ x = d)
    BY <1>2, <2>1, <2>2 DEF At, Queued, DecoyType
  <2>3. Moves(d, "held", p, "reading", d)
    BY <1>3, <2>2 DEF Moves
  <2> QED
    BY <1>2, <1>4, <1>5, <2>3, OneMoves
<1> QED
  BY <1>6, <1>7

\* A Hello binds the channel: the connection is the tunnel's last, because the
\* earlier ones are closed. Without one the connection is closed.
LEMMA Places_HandleDataConn ==
    ASSUME DecoyControl, PlacesOk, NEW d \in Conns, HandleDataConn(d)
    PROVE  PlacesOk'
<1> USE DEF DecoyControl
<1>1. UNCHANGED <<dc, box, backlog, held, tries, cli, round>> /\ reading' = reading \ {d}
  BY DEF HandleDataConn, sessVars, poolVars
<1>2. At(d, "reading", d) /\ ~ At(d, "reading", d)'
  BY <1>1 DEF At, HandleDataConn
<1>3. QueuedOnce'
  BY <1>1 DEF PlacesOk, QueuedOnce
<1>4. \A c \in Conns : Undialed(c)' => Undialed(c)
  BY <1>1 DEF Undialed
<1>5. CASE d[1] \in Tunnels
  <2>1. closed' = closed /\ bound' = bound \cup {d[1]}
    BY <1>5 DEF HandleDataConn
  <2>2. ASSUME NEW c \in Conns, NEW l, NEW x, At(c, l, x)'
        PROVE  At(c, l, x) /\ c # d
    <3>1. At(c, l, x)
      BY <1>1, <2>1, <2>2 DEF At, Queued
    <3> QED
      BY <1>2, <2>2, <3>1 DEF PlacesOk, OnePlace
  <2>3. d \in Tunnels \X (1..MaxTries)
    BY <1>5, TunnelNoKey DEF Conns
  <2>4. d[2] = tries[d[1]]
    <3>1. ~ Undialed(d)
      BY <1>2 DEF PlacesOk, DialedFirst, Nowhere
    <3>2. d[2] <= tries[d[1]]
      BY <2>3, <3>1 DEF Undialed, DecoyType
    <3>3. d \notin closed
      <4>1. ~ At(d, "closed", d)
        BY <1>2 DEF PlacesOk, OnePlace
      <4> QED
        BY <4>1 DEF At
    <3>4. d = <<d[1], d[2]>> /\ d[2] \in 1..MaxTries
      BY <2>3
    <3>5. ~ (d[2] < tries[d[1]])
      BY <1>5, <3>3, <3>4 DEF PlacesOk, RedialsClosed
    <3> QED
      BY <1>5, <3>2, <3>4, <3>5 DEF DecoyType
  <2>5. ASSUME NEW c \in Tunnels \X (1..MaxTries), c[1] \in bound', c[2] = tries'[c[1]],
               NEW l, NEW x, At(c, l, x)'
        PROVE  FALSE
    <3>1. c \in Conns /\ c # d /\ At(c, l, x)
      BY <2>2, <2>5 DEF Conns
    <3>2. c[1] \in bound \/ c[1] = d[1]
      BY <2>1, <2>5
    <3>3. c[1] = d[1] => c = d
      BY <1>1, <2>3, <2>4, <2>5
    <3> QED
      BY <1>1, <2>5, <3>1, <3>2, <3>3 DEF PlacesOk, BoundIsGone, Nowhere
  <2>6. BoundIsGone'
    BY <2>5 DEF BoundIsGone, Nowhere
  <2>7. OnePlace'
    BY <2>2 DEF PlacesOk, OnePlace
  <2>8. DialedFirst'
    BY <1>4, <2>2 DEF PlacesOk, DialedFirst, Nowhere
  <2>9. RedialsClosed'
    BY <1>1, <2>1 DEF PlacesOk, RedialsClosed
  <2> QED
    BY <1>3, <2>6, <2>7, <2>8, <2>9 DEF PlacesOk
<1>6. CASE d[1] \notin Tunnels
  <2>1. closed' = closed \cup {d} /\ bound' = bound
    BY <1>6 DEF HandleDataConn, NoHello
  <2>2. ASSUME NEW c \in Conns, NEW l, NEW x, At(c, l, x)'
        PROVE  At(c, l, x) \/ (c = d /\ l = "closed" /\ x = d)
    BY <1>1, <2>1, <2>2 DEF At, Queued
  <2>3. Moves(d, "reading", d, "closed", d)
    BY <1>2, <2>2 DEF Moves
  <2> QED
    BY <1>1, <1>3, <1>4, <2>1, <2>3, OneMoves
<1> QED
  BY <1>5, <1>6

\* A connection nobody had dialed gets to its first place.
Appears(d, k, z) ==
    /\ Undialed(d)
    /\ \A c \in Conns : \A l, x : At(c, l, x)' => At(c, l, x) \/ (c = d /\ l = k /\ x = z)
    /\ \A c \in Conns : Undialed(c)' => Undialed(c) /\ c # d

\* A connection that was nowhere is then in that place only.
LEMMA OneAppears ==
    ASSUME PlacesOk, NEW d \in Conns, NEW k, NEW z, Appears(d, k, z)
    PROVE  OnePlace' /\ DialedFirst'
<1> USE DEF PlacesOk, Appears
<1>1. \A l, x : At(d, l, x)' => l = k /\ x = z
  BY DEF DialedFirst, Nowhere
<1>2. OnePlace'
  BY <1>1 DEF OnePlace
<1>3. DialedFirst'
  BY DEF DialedFirst, Nowhere
<1> QED
  BY <1>2, <1>3

\* What a new connection does to a backlog.
LEMMA Enqueued ==
    ASSUME DecoyControl, PlacesOk, NEW p \in Pools, NEW d \in Conns, Undialed(d),
           backlog' = [backlog EXCEPT ![p] = Append(@, d)]
    PROVE  /\ QueuedOnce'
           /\ \A q \in Pools : \A c \in Conns : Queued(c, q)' => Queued(c, q) \/ (c = d /\ q = p)
<1> USE DEF DecoyControl
<1>1. backlog[p] \in Seq(Conns) /\ Len(backlog[p]) \in Nat
  BY DEF DecoyType
<1>2. backlog'[p] = Append(backlog[p], d) /\ \A q \in Pools : q # p => backlog'[q] = backlog[q]
  BY DEF DecoyType
<1>3. /\ Len(backlog'[p]) = Len(backlog[p]) + 1
      /\ \A i \in 1..Len(backlog[p]) : backlog'[p][i] = backlog[p][i]
      /\ backlog'[p][Len(backlog[p]) + 1] = d
  BY <1>1, <1>2
<1>4. \A i \in 1..Len(backlog[p]) : backlog[p][i] # d
  <2>1. ~ At(d, "backlog", p)
    BY DEF PlacesOk, DialedFirst, Nowhere
  <2> QED
    BY <2>1 DEF At, Queued
<1>5. \A i \in 1..Len(backlog'[p]) : i \in 1..Len(backlog[p]) \/ i = Len(backlog[p]) + 1
  BY <1>1, <1>3
<1>6. ASSUME NEW i \in 1..Len(backlog'[p]), NEW j \in 1..Len(backlog'[p]),
             backlog'[p][i] = backlog'[p][j]
      PROVE  i = j
  BY <1>3, <1>4, <1>5, <1>6 DEF PlacesOk, QueuedOnce
<1>7. QueuedOnce'
  BY <1>2, <1>6 DEF PlacesOk, QueuedOnce
<1>8. \A q \in Pools : \A c \in Conns : Queued(c, q)' => Queued(c, q) \/ (c = d /\ q = p)
  BY <1>2, <1>3, <1>5 DEF Queued
<1> QED
  BY <1>7, <1>8

\* The client of a decoy session dials.
LEMMA Places_Dial ==
    ASSUME DecoyControl, PlacesOk, NEW s \in Sess, Dial(s)
    PROVE  PlacesOk'
<1> USE DEF DecoyControl
<1>1. PICK d \in Keys : d = Key(s)
  BY KeyFacts DEF Dial
<1>2. d \in Conns /\ d[1] = s /\ d[2] = round[s] /\ Undialed(d)
  BY <1>1, TunnelNoKey DEF Dial, Undialed, Key
<1>3. UNCHANGED <<dc, held, reading, closed, bound, tries, round>>
  BY DEF Dial, connVars
<1>4. cli' = [cli EXCEPT ![s] = "cmd"]
  BY DEF Dial
<1>5. \A c \in Conns : Undialed(c)' => Undialed(c) /\ c # d
  <2>1. \A r \in Sess : cli'[r] \in {"227", "dial"} => cli[r] \in {"227", "dial"} /\ r # s
    BY <1>4 DEF DecoyType
  <2>2. ~ (d[2] > round[d[1]])
    <3>1. round[s] \in 0..2
      BY DEF DecoyType
    <3> QED
      BY <1>2, <3>1
  <2>3. d \notin Tunnels \X (1..MaxTries)
    BY TunnelNoKey
  <2> QED
    BY <1>2, <1>3, <2>1, <2>2, <2>3, KeyFacts DEF Undialed
<1>6. PICK l0, z0 : Appears(d, l0, z0) /\ QueuedOnce'
  <2>1. CASE single
    <3>1. PICK p \in Pools : backlog' = [backlog EXCEPT ![p] = Append(@, d)] /\ box' = box
      BY <1>1, <2>1 DEF Dial, DialsPool
    <3>2. QueuedOnce'
          /\ \A q \in Pools : \A c \in Conns : Queued(c, q)' => Queued(c, q) \/ (c = d /\ q = p)
      BY <1>2, <3>1, Enqueued
    <3>3. ASSUME NEW c \in Conns, NEW l, NEW x, At(c, l, x)'
          PROVE  At(c, l, x) \/ (c = d /\ l = "backlog" /\ x = p)
      BY <1>3, <3>1, <3>2, <3>3 DEF At
    <3>4. Appears(d, "backlog", p)
      BY <1>2, <1>5, <3>3 DEF Appears
    <3> QED
      BY <3>2, <3>4
  <2>2. CASE ~ single
    <3>1. backlog' = backlog /\ box' = [box EXCEPT ![d] = d]
      BY <1>1, <2>2 DEF Dial
    <3>2. ASSUME NEW c \in Conns, NEW l, NEW x, At(c, l, x)'
          PROVE  At(c, l, x) \/ (c = d /\ l = "box" /\ x = d)
      BY <1>3, <3>1, <3>2 DEF At, Queued, DecoyType
    <3>3. Appears(d, "box", d)
      BY <1>2, <1>5, <3>2 DEF Appears
    <3>4. QueuedOnce'
      BY <3>1 DEF PlacesOk, QueuedOnce
    <3> QED
      BY <3>3, <3>4
  <2> QED
    BY <2>1, <2>2
<1>7. OnePlace' /\ DialedFirst'
  BY <1>2, <1>6, OneAppears
<1>8. BoundIsGone'
  <2>1. \A c \in Tunnels \X (1..MaxTries) : c \in Conns /\ c # d
    BY <1>2, TunnelNoKey DEF Conns
  <2> QED
    BY <1>3, <1>6, <2>1 DEF PlacesOk, BoundIsGone, Nowhere, Appears
<1>9. RedialsClosed'
  BY <1>3 DEF PlacesOk, RedialsClosed
<1> QED
  BY <1>6, <1>7, <1>8, <1>9 DEF PlacesOk

\* A tunnel dials, when the server has closed the connection before.
LEMMA Places_TunnelDial ==
    ASSUME DecoyControl, PlacesOk, NEW t \in Tunnels, TunnelDial(t)
    PROVE  PlacesOk'
<1> USE DEF DecoyControl
<1>1. tries[t] \in Nat /\ tries[t] + 1 \in 1..MaxTries
  BY DecoyAssumption DEF TunnelDial, DecoyType
<1>2. PICK d \in Tunnels \X (1..MaxTries) : d = <<t, tries[t] + 1>>
  BY <1>1
<1>3. d \in Conns /\ d[1] = t /\ d[2] = tries[t] + 1 /\ Undialed(d)
  BY <1>1, <1>2 DEF Conns, Undialed
<1>4. UNCHANGED <<dc, held, box, closed, bound, cli, round>>
  BY DEF TunnelDial, sessVars
<1>5. tries' = [tries EXCEPT ![t] = @ + 1] /\ t \notin bound
      /\ (tries[t] > 0 => <<t, tries[t]>> \in closed)
  BY DEF TunnelDial
<1>6. \A c \in Conns : Undialed(c)' => Undialed(c) /\ c # d
  <2>1. d \notin Keys
    BY TunnelNoKey
  <2>2. \A r \in Tunnels : tries'[r] \in Nat /\ tries'[r] >= tries[r] /\ tries[r] \in Nat
    BY <1>5 DEF DecoyType
  <2>3. tries'[t] = tries[t] + 1
    BY <1>5 DEF DecoyType
  <2>4. \A c \in Tunnels \X (1..MaxTries) : c[2] > tries'[c[1]] => c[2] > tries[c[1]] /\ c # d
    BY <1>3, <2>2, <2>3
  <2> QED
    BY <1>4, <2>1, <2>4 DEF Undialed
<1>7. PICK l0, z0 : Appears(d, l0, z0) /\ QueuedOnce'
  <2>1. CASE single
    <3>1. PICK p \in Pools : backlog' = [backlog EXCEPT ![p] = Append(@, d)] /\ reading' = reading
      BY <1>2, <2>1 DEF TunnelDial, PoolOf, Pools
    <3>2. QueuedOnce'
          /\ \A q \in Pools : \A c \in Conns : Queued(c, q)' => Queued(c, q) \/ (c = d /\ q = p)
      BY <1>3, <3>1, Enqueued
    <3>3. ASSUME NEW c \in Conns, NEW l, NEW x, At(c, l, x)'
          PROVE  At(c, l, x) \/ (c = d /\ l = "backlog" /\ x = p)
      BY <1>4, <3>1, <3>2, <3>3 DEF At
    <3>4. Appears(d, "backlog", p)
      BY <1>3, <1>6, <3>3 DEF Appears
    <3> QED
      BY <3>2, <3>4
  <2>2. CASE ~ single
    <3>1. backlog' = backlog /\ reading' = reading \cup {d}
      BY <1>2, <2>2 DEF TunnelDial
    <3>2. ASSUME NEW c \in Conns, NEW l, NEW x, At(c, l, x)'
          PROVE  At(c, l, x) \/ (c = d /\ l = "reading" /\ x = d)
      BY <1>4, <3>1, <3>2 DEF At, Queued
    <3>3. Appears(d, "reading", d)
      BY <1>3, <1>6, <3>2 DEF Appears
    <3>4. QueuedOnce'
      BY <3>1 DEF PlacesOk, QueuedOnce
    <3> QED
      BY <3>3, <3>4
  <2> QED
    BY <2>1, <2>2
<1>8. OnePlace' /\ DialedFirst'
  BY <1>3, <1>7, OneAppears
<1>9. BoundIsGone'
  <2>1. \A c \in Tunnels \X (1..MaxTries) : c[1] \in bound' =>
            c \in Conns /\ c # d /\ c[1] \in bound /\ tries'[c[1]] = tries[c[1]]
    BY <1>3, <1>4, <1>5 DEF Conns, DecoyType
  <2> QED
    BY <1>7, <2>1 DEF PlacesOk, BoundIsGone, Nowhere, Appears
<1>10. RedialsClosed'
  <2>1. ASSUME NEW r \in Tunnels, NEW i \in 1..MaxTries, i < tries'[r]
        PROVE  <<r, i>> \in closed
    <3>1. i < tries[r] \/ (r = t /\ i = tries[t])
      BY <1>1, <1>5, <2>1 DEF DecoyType
    <3>2. i > 0
      OBVIOUS
    <3> QED
      BY <1>5, <3>1, <3>2 DEF PlacesOk, RedialsClosed
  <2> QED
    BY <1>4, <2>1 DEF RedialsClosed
<1> QED
  BY <1>7, <1>8, <1>9, <1>10 DEF PlacesOk

LEMMA Places_Next ==
    ASSUME DecoyControl, PlacesOk, [DecoyNext]_decoyVars
    PROVE  PlacesOk'
<1>1. CASE UNCHANGED decoyVars
  <2> USE <1>1 DEF decoyVars, sessVars, poolVars, connVars
  <2>1. \A c \in Conns : \A l, x : At(c, l, x)' => At(c, l, x)
    BY DEF At, Queued
  <2>2. QueuedOnce' /\ \A c \in Conns : Undialed(c)' => Undialed(c)
    BY DEF PlacesOk, QueuedOnce, Undialed
  <2> QED
    BY <2>1, <2>2, NoMove
<1>2. CASE \E s \in Sess : Client(s) \/ Server(s) \/ DialFails(s)
  BY <1>2, Places_Talk, Places_Dial, Places_WaitGets, Places_Send, Places_ServeEnds
     DEF Client, Server
<1>3. CASE DecoyNext /\ ~ \E s \in Sess : Client(s) \/ Server(s) \/ DialFails(s)
  BY <1>3, Places_AcceptLoop, Places_Hand, Places_HandleDataConn, Places_TunnelDial
     DEF DecoyNext, Pool
<1> QED
  BY <1>1, <1>2, <1>3 DEF DecoyNext

\* A set whose elements are all the same has at most one.
LEMMA AtMostOne ==
    ASSUME NEW S, \A x, y \in S : x = y
    PROVE  (S = {} /\ Cardinality(S) = 0) \/ (S # {} /\ Cardinality(S) = 1)
<1>1. CASE S = {}
  BY <1>1, FS_EmptySet, Zenon
<1>2. CASE S # {}
  <2>1. PICK x \in S : S = {x}
    BY <1>2
  <2> QED
    BY <1>2, <2>1, FS_Singleton
<1> QED
  BY <1>1, <1>2

\* The five sets that OneHolder counts are the places other than the backlogs.
LEMMA PlacesGiveOneHolder ==
    ASSUME DecoyControl, PlacesOk
    PROVE  OneHolder
<1>1. SUFFICES ASSUME NEW c \in Conns
      PROVE  LET H == {p \in Pools : held[p] # Nil /\ held[p].conn = c}
                 B == {k \in Keys : box[k] = c}
                 D == {s \in Sess : dc[s] = c}
                 N == Cardinality(H) + Cardinality(B) + Cardinality(D)
                        + Cardinality({c} \cap reading) + Cardinality({c} \cap closed)
             IN  N <= 1 /\ (c[1] \in bound /\ c = <<c[1], tries[c[1]]>> => N = 0)
  BY DEF OneHolder
<1> DEFINE H == {p \in Pools : held[p] # Nil /\ held[p].conn = c}
           B == {k \in Keys : box[k] = c}
           D == {s \in Sess : dc[s] = c}
           R == {c} \cap reading
           X == {c} \cap closed
<1>2. /\ \A x : x \in H <=> At(c, "held", x)
      /\ \A x : x \in B <=> At(c, "box", x)
      /\ \A x : x \in D <=> At(c, "dc", x)
      /\ \A x : x \in R <=> At(c, "reading", x)
      /\ \A x : x \in X <=> At(c, "closed", x)
  BY DEF At
<1>3. \A l, x, m, y : At(c, l, x) /\ At(c, m, y) => l = m /\ x = y
  BY DEF PlacesOk, OnePlace
<1>4. /\ \A x, y \in H : x = y
      /\ \A x, y \in B : x = y
      /\ \A x, y \in D : x = y
      /\ \A x, y \in R : x = y
      /\ \A x, y \in X : x = y
  BY <1>2, <1>3
<1>5. /\ H # {} => B = {} /\ D = {} /\ R = {} /\ X = {}
      /\ B # {} => D = {} /\ R = {} /\ X = {}
      /\ D # {} => R = {} /\ X = {}
      /\ R # {} => X = {}
  <2> HIDE DEF H, B, D, R, X
  <2> QED
    BY <1>2, <1>3
<1>6. c[1] \in bound /\ c = <<c[1], tries[c[1]]>> => H = {} /\ B = {} /\ D = {} /\ R = {} /\ X = {}
  <2>1. ASSUME c[1] \in bound, c = <<c[1], tries[c[1]]>>
        PROVE  Nowhere(c)
    <3>1. c \in Tunnels \X (1..MaxTries)
      BY <2>1, TunnelNoKey DEF Conns, DecoyControl, DecoyType
    <3> QED
      BY <2>1, <3>1 DEF PlacesOk, BoundIsGone
  <2> HIDE DEF H, B, D, R, X
  <2> QED
    BY <1>2, <2>1 DEF Nowhere
<1> HIDE DEF H, B, D, R, X
<1>7. /\ (H = {} /\ Cardinality(H) = 0) \/ (H # {} /\ Cardinality(H) = 1)
      /\ (B = {} /\ Cardinality(B) = 0) \/ (B # {} /\ Cardinality(B) = 1)
      /\ (D = {} /\ Cardinality(D) = 0) \/ (D # {} /\ Cardinality(D) = 1)
      /\ (R = {} /\ Cardinality(R) = 0) \/ (R # {} /\ Cardinality(R) = 1)
      /\ (X = {} /\ Cardinality(X) = 0) \/ (X # {} /\ Cardinality(X) = 1)
  BY <1>4, AtMostOne
<1> DEFINE N == Cardinality(H) + Cardinality(B) + Cardinality(D) + Cardinality(R) + Cardinality(X)
<1>8. N <= 1 /\ (H = {} /\ B = {} /\ D = {} /\ R = {} /\ X = {} => N = 0)
  BY <1>5, <1>7
<1> QED
  BY <1>6, <1>8 DEF H, B, D, R, X

\* The two sides of each control connection keep in step, whoever is armed can be
\* disarmed, and every connection is in one place.
THEOREM DecoyInvariant == DecoySpec => [](DecoyControl /\ PlacesOk)
<1>1. DecoyInit => DecoyControl /\ PlacesOk
  BY ControlInit, PlacesInit
<1>2. DecoyControl /\ PlacesOk /\ [DecoyNext]_decoyVars => (DecoyControl /\ PlacesOk)'
  BY Control_Next, Places_Next
<1> QED
  BY <1>1, <1>2, PTL DEF DecoySpec

\* However decoy sessions end (a failed dial, a wait that timed out, a control
\* connection that is gone), neither pool keeps a channel in decoyPend that no
\* session would take out again.
THEOREM ArmedPoolHasOwner == DecoySpec => []ArmedHasOwner
<1>1. DecoyControl => ArmedHasOwner
  BY DEF DecoyControl
<1> QED
  BY <1>1, DecoyInvariant, PTL

\* A connection that acceptLoop handed to a decoy is no tunnel channel, one that was
\* bound or closed is with nobody else, and no two sessions get the same one, however
\* many sessions and tunnels share the ports.
THEOREM ConnectionHasOneHolder == DecoySpec => []OneHolder
<1>1. DecoyControl /\ PlacesOk => OneHolder
  BY PlacesGiveOneHolder
<1> QED
  BY <1>1, DecoyInvariant, PTL
=============================================================================
