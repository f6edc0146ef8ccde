------------------------- MODULE FtpConnectProofs -------------------------
(***************************************************************************)
(* Theorems about FtpConnect for any number of channels, read loops and    *)
(* failures.                                                               *)
(*   - PoolInv: whoever is between CWD and the data connection holds       *)
(*     ftpMu, and nobody else moves the working directory meanwhile.       *)
(*   - ReadInv: openAllChannels has loops to spare for the channels it has *)
(*     still to open, and what it has opened, published or not, is read.   *)
(***************************************************************************)
EXTENDS FtpConnect, FiniteSetTheorems, SequenceTheorems, WellFoundedInduction, TLAPS

MainAt == {"login", "banner", "sleep", "lock", "redial", "cwd", "pasv", "dial", "drop",
           "publish", "up", "closing", "ended"}
LoopAt == {"none", "read", "wait", "lock", "redial", "cwd", "pasv", "dial", "install", "gone"}
Dialing == {"lock", "redial", "cwd", "pasv", "dial"}
HoldsMu == {"banner", "redial", "cwd", "pasv", "dial"}

\* got has what the place of openAllChannels says.
GotLength ==
    /\ got \in Seq(Chans)
    /\ pc[Main] \in Dialing => Len(got) < NUp + NDown
    /\ pc[Main] = "publish" => Len(got) = NUp + NDown
    /\ pc[Main] \notin Dialing \cup {"publish"} => got = <<>>

TypeOK ==
    /\ pc \in [Procs -> MainAt \cup LoopAt]
    /\ pc[Main] \in MainAt /\ \A l \in Loops : pc[l] \in LoopAt
    /\ index \in [Loops -> Indices] /\ ch \in [Loops -> Chans \cup {None}]
    /\ \A l \in Loops : pc[l] = "install" => ch[l] \in Chans
    /\ GotLength
    /\ mu \in Procs \cup {Nobody}
    /\ downloads \in Seq(Chans)
    /\ up \subseteq Chans

------------------------------------------------------------------------------
(* Operators *)

LEMMA MinIn ==
    ASSUME NEW S \in SUBSET Nat, S # {}
    PROVE  Min(S) \in S /\ \A y \in S : Min(S) <= y
<1>1. PICK x \in S : \A y \in S : ~(<<y, x>> \in OpToRel(<, Nat))
  BY WFMin, NatLessThanWellFounded
<1>2. \A y \in S : ~(y < x)
  BY <1>1, Zenon DEF OpToRel
<1>3. \A y \in S : x <= y
  BY <1>2
<1> QED
  BY <1>3 DEF Min

\* A channel that DialHello takes is one that nothing refers to.
LEMMA FreshIsFresh ==
    ASSUME Chans \ Used # {}
    PROVE  /\ Fresh \in Chans /\ Fresh \notin up
           /\ Fresh \notin Range(got) /\ Fresh \notin Range(downloads)
<1>1. Fresh \in Chans \ Used
  BY MinIn DEF Fresh, Chans
<1> QED
  BY <1>1 DEF Used

\* The loop that openAllChannels starts next.
Spare == {l \in Loops : pc[l] = "none"}

LEMMA SpareIsFinite == IsFiniteSet(Spare) /\ Cardinality(Spare) \in Nat
<1>1. IsFiniteSet(Loops)
  BY ConnectAssumption, FS_Interval DEF Loops
<1> QED
  BY <1>1, FS_Subset, FS_CardinalityType DEF Spare

\* What openAllChannels does with a channel: an upload starts nothing, a download
\* takes a spare loop if there is one.
LEMMA OpenedStarts ==
    ASSUME TypeOK, pc[Main] = "dial", NEW c \in Chans, Opened(c)
    PROVE  /\ got' \in Seq(Chans) /\ Len(got') = Len(got) + 1
           /\ \A j \in 1..Len(got) : got'[j] = got[j]
           /\ got'[Len(got) + 1] = c
           /\ pc'[Main] = IF Len(got) + 1 < NUp + NDown THEN "lock" ELSE "publish"
           /\ pc' \in [Procs -> MainAt \cup LoopAt]
           /\ Len(got) < NUp => \A l \in Loops : pc'[l] = pc[l]
           /\ Len(got) >= NUp => \A l \in Loops : pc'[l] = IF l = Min(Spare) THEN "read" ELSE pc[l]
           /\ index' = [l \in Loops |-> IF pc'[l] # pc[l] THEN Index(Main) ELSE index[l]]
           /\ ch' = [l \in Loops |-> IF pc'[l] # pc[l] THEN c ELSE ch[l]]
           /\ downloads' = downloads
<1> USE ConnectAssumption
<1>1. got \in Seq(Chans) /\ Len(got) \in Nat
  BY DEF TypeOK, GotLength
<1>2. got' = Append(got, c)
  BY DEF Opened
<1>3. /\ got' \in Seq(Chans) /\ Len(got') = Len(got) + 1
      /\ \A j \in 1..Len(got) : got'[j] = got[j]
      /\ got'[Len(got) + 1] = c
  BY <1>1, <1>2
<1>4. Main \in Procs /\ \A l \in Loops : l \in Procs /\ l # Main
  BY DEF Main, Procs, Loops
<1>5. Dir(Main) = "download" <=> Len(got) >= NUp
  BY <1>1 DEF Dir
<1>6. pc' = [p \in Procs |->
               IF p = Main THEN IF Len(got) + 1 < NUp + NDown THEN "lock" ELSE "publish"
               ELSE IF Dir(Main) = "download" /\ p = Min(Spare) THEN "read" ELSE pc[p]]
  BY DEF Opened, Spare
<1>7. pc' \in [Procs -> MainAt \cup LoopAt]
  BY <1>6 DEF TypeOK, MainAt, LoopAt
<1>8. /\ Len(got) < NUp => \A l \in Loops : pc'[l] = pc[l]
      /\ Len(got) >= NUp => \A l \in Loops : pc'[l] = IF l = Min(Spare) THEN "read" ELSE pc[l]
  BY <1>1, <1>4, <1>5, <1>6
<1>9. pc'[Main] = IF Len(got) + 1 < NUp + NDown THEN "lock" ELSE "publish"
  BY <1>4, <1>6
<1> QED
  BY <1>3, <1>7, <1>8, <1>9 DEF Opened

------------------------------------------------------------------------------
(* Types *)

LEMMA TypeInit ==
    ASSUME Init
    PROVE  TypeOK
<1> USE ConnectAssumption DEF Init, Procs, Main, Loops
<1>1. pc \in [Procs -> MainAt \cup LoopAt] /\ pc[Main] = "login" /\ \A l \in Loops : pc[l] = "none"
  BY DEF MainAt, LoopAt
<1>2. index \in [Loops -> Indices] /\ ch \in [Loops -> Chans \cup {None}]
  BY DEF Indices
<1> QED
  BY <1>1, <1>2 DEF TypeOK, GotLength, MainAt, LoopAt, Dialing

\* A step of one process that leaves the channels alone.
LEMMA TypeKept ==
    ASSUME TypeOK, NEW p \in Procs, NEW at,
           pc' = [pc EXCEPT ![p] = at],
           at \in (IF p = Main THEN MainAt ELSE LoopAt),
           UNCHANGED <<index, got, downloads>>,
           ch' \in [Loops -> Chans \cup {None}],
           at # "install", \A l \in Loops \ {p} : ch'[l] = ch[l],
           mu' \in Procs \cup {Nobody},
           up' \subseteq up,
           p = Main => (pc[Main] \in Dialing <=> at \in Dialing)
                       /\ pc[Main] # "publish" /\ at # "publish"
    PROVE  TypeOK'
<1> USE ConnectAssumption
<1>1. Main \in Procs /\ \A l \in Loops : l \in Procs /\ l # Main
  BY DEF Main, Procs, Loops
<1>2. /\ pc' \in [Procs -> MainAt \cup LoopAt] /\ pc'[p] = at
      /\ \A r \in Procs \ {p} : pc'[r] = pc[r]
  BY DEF TypeOK
<1>3. pc'[Main] \in MainAt /\ \A l \in Loops : pc'[l] \in LoopAt
  BY <1>1, <1>2 DEF TypeOK
<1>4. GotLength'
  BY <1>1, <1>2 DEF TypeOK, GotLength
<1>5. \A l \in Loops : pc'[l] = "install" => ch'[l] \in Chans
  BY <1>1, <1>2 DEF TypeOK
<1> QED
  BY <1>2, <1>3, <1>4, <1>5 DEF TypeOK

\* A step of the server or of the network.
Outside ==
    \/ ServerStep \/ CtrlBreaks \/ FallsSilent \/ ControlKeepalive \/ Cancel
    \/ \E l \in Loops : DownloadBreaks(l)

LEMMA OutsideKeeps ==
    ASSUME Outside
    PROVE  /\ UNCHANGED <<pc, index, ch, got, mu, cwd, addr, downloads>>
           /\ up' \subseteq up /\ hello' \subseteq hello
           /\ ctx' # ctx => ctx' = "done"
<1> USE DEF loopVars, mainVars, ctrlVars, serverVars
<1>1. CASE ServerStep
  BY <1>1 DEF ServerStep, Bind, HelloLost, ReaderExits
<1>2. CASE CtrlBreaks \/ FallsSilent \/ ControlKeepalive
  BY <1>2 DEF CtrlBreaks, FallsSilent, ControlKeepalive
<1>3. CASE Cancel
  BY <1>3 DEF Cancel
<1>4. ASSUME NEW l \in Loops, DownloadBreaks(l)
      PROVE  /\ UNCHANGED <<pc, index, ch, got, mu, cwd, addr, downloads>>
             /\ up' \subseteq up /\ hello' \subseteq hello
             /\ ctx' # ctx => ctx' = "done"
  BY <1>4 DEF DownloadBreaks
<1> QED
  BY <1>1, <1>2, <1>3, <1>4 DEF Outside

\* Steps of main between its attempts, and its end.
MainOnly == Wakes \/ Aborts \/ DropCtrl \/ CloseTables \/ CloseCtrl

LEMMA MainOnlyKeeps ==
    ASSUME TypeOK, MainOnly
    PROVE  /\ UNCHANGED <<index, ch, got, mu, addr, downloads, hello>>
           /\ UNCHANGED cwd
           /\ up' \subseteq up
           /\ ctx' = ctx
           /\ \E at \in MainAt : /\ pc' = [pc EXCEPT ![Main] = at]
                                 /\ pc[Main] \notin Dialing \cup {"publish"}
                                 /\ at \notin Dialing \cup {"banner", "publish", "up"}
<1> USE DEF loopVars, mainVars, ctrlVars, serverVars, MainAt, Dialing
<1>1. CASE DropCtrl
  BY <1>1 DEF DropCtrl, Backoff
<1>2. CASE Wakes \/ Aborts
  BY <1>2 DEF Wakes, Aborts
<1>3. CASE CloseTables \/ CloseCtrl
  BY <1>3 DEF CloseTables, CloseCtrl
<1> QED
  BY <1>1, <1>2, <1>3 DEF MainOnly

\* The login of connectWithRetry.
Login == LoginLock \/ LoginOk \/ LoginFails

LEMMA LoginKeeps ==
    ASSUME TypeOK, Login
    PROVE  /\ UNCHANGED <<index, ch, got, downloads, hello, up, ctx>>
           /\ got = <<>>
           /\ \/ /\ LoginLock /\ pc' = [pc EXCEPT ![Main] = "banner"]
                 /\ mu = Nobody /\ mu' = Main
                 /\ Cardinality({l \in Loops : pc[l] = "none"}) >= NDown
              \/ /\ pc[Main] = "banner" /\ mu' = Nobody
                 /\ \E at \in {"lock", "sleep"} : pc' = [pc EXCEPT ![Main] = at]
<1> USE DEF loopVars, mainVars, serverVars, TypeOK, GotLength, Dialing
<1>1. CASE LoginLock
  BY <1>1 DEF LoginLock, Lock
<1>2. CASE LoginOk
  BY <1>2 DEF LoginOk, Unlock
<1>3. CASE LoginFails
  BY <1>3 DEF LoginFails, Unlock, Backoff
<1> QED
  BY <1>1, <1>2, <1>3 DEF Login

\* The dial of a process, up to the data connection.
Command(p) == DialLock(p) \/ RedialOk(p) \/ DialCwd(p) \/ DialPasv(p)
Failing(p) == RedialFails(p) \/ DialCtrlFails(p) \/ DialFails(p)

\* Next, regrouped.
LEMMA NextGroups ==
    ASSUME Next
    PROVE  \/ Outside \/ MainOnly \/ Login \/ Publish
           \/ \E p \in Procs : Command(p) \/ Failing(p) \/ DialHello(p)
           \/ \E l \in Loops : ReadFails(l) \/ Retries(l) \/ ReadStops(l) \/ Install(l)
<1>1. Main \in Procs /\ Loops \subseteq Procs
  BY ConnectAssumption DEF Main, Procs, Loops
<1> QED
  BY <1>1 DEF Next, MainStep, Faults, LoopStep, Dial, Outside, MainOnly, Login, Command,
                  Failing

LEMMA CommandType ==
    ASSUME TypeOK, NEW p \in Procs, Command(p)
    PROVE  TypeOK'
<1> USE DEF loopVars, mainVars, Dialing, MainAt, LoopAt
<1>1. CASE DialLock(p)
  BY <1>1, TypeKept DEF DialLock, Lock, TypeOK
<1>4. CASE RedialOk(p)
  BY <1>4, TypeKept DEF RedialOk, TypeOK
<1>2. CASE DialCwd(p)
  BY <1>2, TypeKept DEF DialCwd, TypeOK
<1>3. CASE DialPasv(p)
  BY <1>3, TypeKept DEF DialPasv, TypeOK
<1> QED
  BY <1>1, <1>2, <1>3, <1>4 DEF Command

LEMMA FailingKeeps ==
    ASSUME TypeOK, NEW p \in Procs, Failing(p)
    PROVE  /\ UNCHANGED <<index, ch, downloads, hello, cwd, ctx>>
           /\ pc[p] \in Dialing
           /\ pc' = [pc EXCEPT ![p] = IF p = Main THEN "drop" ELSE "wait"]
           /\ got' = (IF p = Main THEN <<>> ELSE got)
           /\ mu' = Nobody /\ up' \subseteq up
           /\ pc[p] \in HoldsMu
<1>1. DialError(p) /\ pc[p] \in Dialing /\ UNCHANGED cwd /\ pc[p] \in HoldsMu
  BY DEF Failing, RedialFails, DialCtrlFails, DialFails, Dialing, HoldsMu
<1> QED
  BY <1>1 DEF DialError, Unlock, loopVars, serverVars

LEMMA FailingType ==
    ASSUME TypeOK, NEW p \in Procs, Failing(p)
    PROVE  TypeOK'
<1> USE FailingKeeps
<1>1. CASE p # Main
  BY <1>1, TypeKept DEF TypeOK, LoopAt
<1>2. CASE p = Main
  <2>1. /\ pc' \in [Procs -> MainAt \cup LoopAt] /\ pc'[Main] = "drop"
        /\ \A l \in Loops : pc'[l] = pc[l]
    BY <1>2, ConnectAssumption DEF TypeOK, MainAt, Main, Procs, Loops
  <2>2. got' = <<>>
    BY <1>2
  <2>3. GotLength'
    BY <2>1, <2>2 DEF GotLength, Dialing
  <2> QED
    BY <2>1, <2>3 DEF TypeOK, MainAt
<1> QED
  BY <1>1, <1>2

LEMMA InstallType ==
    ASSUME TypeOK, NEW l \in Loops, Install(l)
    PROVE  /\ TypeOK' /\ ch[l] \in Chans /\ pc' = [pc EXCEPT ![l] = "read"]
           /\ Len(downloads') = Len(downloads)
           /\ \A j \in 1..Len(downloads) : downloads'[j] \in {downloads[j], ch[l]}
<1> USE DEF loopVars, mainVars, ctrlVars
<1>0. l \in Procs /\ l # Main /\ Main \in Procs /\ \A k \in Loops : k \in Procs /\ k # Main
  BY ConnectAssumption DEF Main, Procs, Loops
<1>1. /\ pc' = [pc EXCEPT ![l] = "read"] /\ UNCHANGED <<index, ch, got, mu, up>>
      /\ downloads' = IF index[l] < Len(downloads)
                      THEN [downloads EXCEPT ![index[l] + 1] = ch[l]] ELSE downloads
      /\ ch[l] \in Chans
  BY DEF Install, TypeOK
<1>2. downloads \in Seq(Chans) /\ index[l] \in Nat
  BY ConnectAssumption DEF TypeOK, Indices
<1>3. /\ downloads' \in Seq(Chans) /\ Len(downloads') = Len(downloads)
      /\ \A j \in 1..Len(downloads) : downloads'[j] \in {downloads[j], ch[l]}
  <2>1. CASE index[l] < Len(downloads)
    BY <1>1, <1>2, <2>1, ExceptSeq
  <2> QED
    BY <1>1, <1>2, <2>1
<1>4. /\ pc' \in [Procs -> MainAt \cup LoopAt] /\ pc'[Main] = pc[Main] /\ pc'[l] = "read"
      /\ \A k \in Loops \ {l} : pc'[k] = pc[k]
  BY <1>0, <1>1 DEF TypeOK, LoopAt
<1>5. GotLength'
  BY <1>1, <1>4 DEF TypeOK, GotLength
<1> QED
  BY <1>1, <1>3, <1>4, <1>5 DEF TypeOK, LoopAt

LEMMA HelloType ==
    ASSUME TypeOK, NEW p \in Procs, DialHello(p)
    PROVE  TypeOK'
<1>1. Fresh \in Chans
  BY FreshIsFresh DEF DialHello
<1>2. mu' = Nobody /\ pc[p] = "dial" /\ up' = up \cup {Fresh}
  BY DEF DialHello, Unlock
<1>3. up' \subseteq Chans
  BY <1>1, <1>2 DEF TypeOK
<1>4. CASE p = Main
  <2>1. Opened(Fresh) /\ pc[Main] = "dial"
    BY <1>4, <1>2 DEF DialHello
  <2>2. Len(got) < NUp + NDown /\ Len(got) \in Nat
    BY <2>1 DEF TypeOK, GotLength, Dialing
  <2>3. \A l \in Loops : pc'[l] # pc[l] => Len(got) >= NUp
    BY <1>1, <2>1, <2>2, OpenedStarts, ConnectAssumption
  <2>4. Len(got) >= NUp => Index(Main) \in Indices
    BY <2>2, ConnectAssumption DEF Index, Indices
  <2>5. index' \in [Loops -> Indices] /\ ch' \in [Loops -> Chans \cup {None}]
    BY <1>1, <2>1, <2>3, <2>4, OpenedStarts DEF TypeOK
  <2>6. \A l \in Loops : pc'[l] \in LoopAt
    BY <1>1, <2>1, <2>2, OpenedStarts, ConnectAssumption DEF TypeOK, LoopAt
  <2>7. GotLength'
    BY <1>1, <2>1, <2>2, OpenedStarts, ConnectAssumption DEF GotLength, Dialing
  <2>8. \A l \in Loops : pc'[l] = "install" => pc[l] = "install" /\ ch'[l] = ch[l]
    BY <1>1, <2>1, <2>2, OpenedStarts, ConnectAssumption
  <2> QED
    BY <1>1, <1>2, <1>3, <2>1, <2>5, <2>6, <2>7, <2>8, OpenedStarts DEF TypeOK, MainAt
<1>5. CASE p # Main
  <2>1. p \in Loops /\ Redialed(p, Fresh)
    BY <1>5 DEF DialHello, Procs, Loops, Main
  <2>2. /\ pc' = [pc EXCEPT ![p] = "install"] /\ ch' = [ch EXCEPT ![p] = Fresh]
        /\ UNCHANGED <<index, got, downloads>>
    BY <2>1 DEF Redialed
  <2>4. /\ ch' \in [Loops -> Chans \cup {None}] /\ ch'[p] = Fresh
        /\ \A l \in Loops \ {p} : ch'[l] = ch[l]
    BY <1>1, <2>1, <2>2 DEF TypeOK
  <2>5. /\ pc' \in [Procs -> MainAt \cup LoopAt] /\ pc'[Main] = pc[Main]
        /\ \A l \in Loops : pc'[l] \in LoopAt
        /\ \A l \in Loops \ {p} : pc'[l] = pc[l]
    BY <1>5, <2>2, ConnectAssumption DEF TypeOK, LoopAt, Main, Procs, Loops
  <2>6. GotLength'
    BY <2>2, <2>5 DEF TypeOK, GotLength
  <2> QED
    BY <1>1, <1>2, <1>3, <2>2, <2>4, <2>5, <2>6 DEF TypeOK
<1> QED
  BY <1>4, <1>5

\* The download half of what openAllChannels has opened.
LEMMA PublishSplits ==
    ASSUME TypeOK, Publish
    PROVE  /\ downloads' \in Seq(Chans) /\ Len(downloads') = NDown
           /\ \A i \in Indices : downloads'[i + 1] = got[NUp + i + 1]
<1>1. got \in Seq(Chans) /\ Len(got) = NUp + NDown
  BY DEF Publish, TypeOK, GotLength
<1>2. downloads' = SubSeq(got, NUp + 1, NUp + NDown)
  BY DEF Publish
<1>3. NUp + 1 \in 1..(Len(got) + 1) /\ NUp + NDown \in NUp..Len(got)
  BY <1>1, ConnectAssumption
<1>4. /\ downloads' \in Seq(Chans) /\ Len(downloads') = NDown
      /\ \A j \in 1..NDown : downloads'[j] = got[NUp + j]
  BY <1>1, <1>2, <1>3, SubSeqProperties, ConnectAssumption
<1>5. \A i \in Indices : i + 1 \in 1..NDown /\ NUp + (i + 1) = NUp + i + 1
  BY ConnectAssumption DEF Indices
<1> QED
  BY <1>4, <1>5

LEMMA TypeStep ==
    ASSUME TypeOK, [Next]_vars
    PROVE  TypeOK'
<1> USE DEF loopVars, mainVars, ctrlVars
<1>0. Main \in Procs /\ \A l \in Loops : l \in Procs /\ l # Main
  BY ConnectAssumption DEF Main, Procs, Loops
<1>1. CASE UNCHANGED vars
  BY <1>1 DEF vars, TypeOK, GotLength
<1>2. CASE Outside
  <2>1. up' \subseteq Chans
    BY <1>2, OutsideKeeps DEF TypeOK
  <2> QED
    BY <1>2, <2>1, OutsideKeeps DEF TypeOK, GotLength
<1>3. CASE MainOnly
  <2>1. PICK at \in MainAt : /\ pc' = [pc EXCEPT ![Main] = at]
                             /\ pc[Main] \notin Dialing \cup {"publish"}
                             /\ at \notin Dialing \cup {"banner", "publish", "up"}
    BY <1>3, MainOnlyKeeps
  <2>2. at # "install" /\ at \notin Dialing /\ at # "publish"
    BY <2>1 DEF MainAt
  <2>3. UNCHANGED <<index, ch, got, mu, downloads>> /\ up' \subseteq up
    BY <1>3, MainOnlyKeeps
  <2>4. ch' \in [Loops -> Chans \cup {None}] /\ mu' \in Procs \cup {Nobody}
    BY <2>3 DEF TypeOK
  <2> QED
    BY <1>0, <2>1, <2>2, <2>3, <2>4, TypeKept
<1>4. CASE Login
  <2>1. /\ pc' \in [Procs -> MainAt \cup LoopAt] /\ pc'[Main] \in {"banner", "lock", "sleep"}
        /\ \A l \in Loops : pc'[l] = pc[l]
    BY <1>0, <1>4, LoginKeeps DEF TypeOK, MainAt
  <2>2. UNCHANGED <<index, ch, got, downloads, up>> /\ got = <<>> /\ mu' \in Procs \cup {Nobody}
    BY <1>0, <1>4, LoginKeeps
  <2>3. GotLength'
    BY <2>1, <2>2, ConnectAssumption DEF TypeOK, GotLength, Dialing
  <2> QED
    BY <2>1, <2>2, <2>3 DEF TypeOK, MainAt
<1>5. CASE Publish
  <2>1. /\ pc' \in [Procs -> MainAt \cup LoopAt] /\ pc'[Main] = "up"
        /\ \A l \in Loops : pc'[l] = pc[l]
    BY <1>0, <1>5 DEF Publish, TypeOK, MainAt
  <2>2. got' = <<>> /\ UNCHANGED <<index, ch, mu, up>>
    BY <1>5 DEF Publish
  <2>3. GotLength'
    BY <2>1, <2>2 DEF GotLength, Dialing
  <2> QED
    BY <1>5, <2>1, <2>2, <2>3, PublishSplits DEF TypeOK, MainAt
<1>6. ASSUME NEW l \in Loops, ReadFails(l) \/ Retries(l) \/ ReadStops(l)
      PROVE  TypeOK'
  <2>1. ch' \in [Loops -> Chans \cup {None}]
    BY <1>6 DEF ReadFails, Retries, ReadStops, TypeOK
  <2>2. \E at \in LoopAt \ {"install"} : pc' = [pc EXCEPT ![l] = at]
    BY <1>6 DEF ReadFails, Retries, ReadStops, LoopAt
  <2>3. UNCHANGED <<index, got, downloads, mu, up>> /\ \A k \in Loops \ {l} : ch'[k] = ch[k]
    BY <1>6 DEF ReadFails, Retries, ReadStops, TypeOK
  <2> QED
    BY <1>0, <2>1, <2>2, <2>3, TypeKept DEF TypeOK
<1> QED
  BY <1>1, <1>2, <1>3, <1>4, <1>5, <1>6, NextGroups, CommandType, FailingType, HelloType,
     InstallType

\* The state keeps its type: openAllChannels holds a full pool when it publishes and
\* less than one while it dials.
THEOREM ConnectType == Spec => []TypeOK
<1>1. Init => TypeOK
  BY TypeInit
<1>2. TypeOK /\ [Next]_vars => TypeOK'
  BY TypeStep
<1> QED
  BY <1>1, <1>2, PTL DEF Spec

------------------------------------------------------------------------------
(* CWD and PASV under ftpMu *)

PoolInv ==
    /\ \A p \in Procs : pc[p] \in HoldsMu => mu = p
    /\ \A p \in Procs : pc[p] = "pasv" => cwd = Dir(p)
    /\ \A p \in Procs : pc[p] = "dial" => addr = Dir(p)
    /\ DialsItsOwnPool

\* A step that takes nobody into the section that ftpMu protects, and leaves
\* who is there alone.
LEMMA PoolKept ==
    ASSUME PoolInv, hello' \subseteq hello,
           \A p \in Procs : pc'[p] \in HoldsMu =>
               pc[p] = pc'[p] /\ UNCHANGED <<mu, cwd, addr>> /\ Dir(p)' = Dir(p)
    PROVE  PoolInv'
BY DEF PoolInv, HoldsMu, DialsItsOwnPool

LEMMA PoolCommand ==
    ASSUME TypeOK, PoolInv, NEW p \in Procs, Command(p)
    PROVE  PoolInv'
<1>0. UNCHANGED <<got, hello>>
  BY DEF Command, DialLock, RedialOk, DialCwd, DialPasv, mainVars, serverVars
<1>1. Nobody \notin Procs
  BY DEF Nobody, Procs
<1>2. \A r \in Procs : Dir(r)' = Dir(r)
  BY <1>0 DEF Dir
<1>3. \A r \in Procs \ {p} : pc'[r] = pc[r] /\ pc[r] \notin HoldsMu
  BY <1>1 DEF Command, DialLock, Lock, RedialOk, DialCwd, DialPasv, PoolInv, HoldsMu, TypeOK
<1>4. CASE DialLock(p)
  BY <1>0, <1>3, <1>4 DEF DialLock, Lock, PoolInv, HoldsMu, DialsItsOwnPool, TypeOK
<1>7. CASE RedialOk(p)
  BY <1>0, <1>3, <1>7 DEF RedialOk, PoolInv, HoldsMu, DialsItsOwnPool, TypeOK
<1>5. CASE DialCwd(p)
  BY <1>0, <1>2, <1>3, <1>5 DEF DialCwd, PoolInv, HoldsMu, DialsItsOwnPool, TypeOK
<1>6. CASE DialPasv(p)
  BY <1>0, <1>2, <1>3, <1>6 DEF DialPasv, PoolInv, HoldsMu, DialsItsOwnPool, TypeOK
<1> QED
  BY <1>4, <1>5, <1>6, <1>7 DEF Command

\* The Hello goes to the pool of its direction, and ftpMu is released.
LEMMA PoolHello ==
    ASSUME TypeOK, PoolInv, NEW p \in Procs, DialHello(p)
    PROVE  PoolInv'
<1>1. pc[p] = "dial" /\ mu = p /\ addr = Dir(p)
  BY DEF DialHello, PoolInv, HoldsMu
<1>2. \A r \in Procs \ {p} : pc[r] \notin HoldsMu
  BY <1>1 DEF PoolInv
<1>3. DialsItsOwnPool'
  BY <1>1 DEF DialHello, PoolInv, DialsItsOwnPool
<1>4. \A r \in Procs : pc'[r] \in {pc[r], "read", "install", "lock", "publish"}
                       /\ (r = p => pc'[r] # "dial")
  <2>1. CASE p = Main
    <3>1. pc' = [r \in Procs |->
               IF r = Main THEN IF Len(got) + 1 < NUp + NDown THEN "lock" ELSE "publish"
               ELSE IF Dir(Main) = "download" /\ r = Min({l \in Loops : pc[l] = "none"})
                    THEN "read" ELSE pc[r]]
      BY <2>1 DEF DialHello, Opened
    <3> QED
      BY <2>1, <3>1
  <2>2. CASE p # Main
    BY <2>2 DEF DialHello, Redialed, TypeOK
  <2> QED
    BY <2>1, <2>2
<1>5. \A r \in Procs : pc'[r] \notin HoldsMu
  BY <1>1, <1>2, <1>4 DEF HoldsMu
<1> QED
  BY <1>3, <1>5 DEF PoolInv, HoldsMu

LEMMA PoolStep ==
    ASSUME TypeOK, PoolInv, [Next]_vars
    PROVE  PoolInv'
<1> USE DEF loopVars, mainVars, ctrlVars, serverVars
<1>0. /\ Main \in Procs /\ Nobody \notin Procs
      /\ \A l \in Loops : l \in Procs /\ l # Main
  BY ConnectAssumption DEF Main, Nobody, Procs, Loops
<1>1. CASE UNCHANGED vars
  BY <1>1, PoolKept DEF vars, Dir
<1>2. CASE Outside
  BY <1>2, OutsideKeeps, PoolKept DEF Dir
<1>3. CASE MainOnly
  <2>1. \A p \in Procs : pc'[p] \in HoldsMu => pc'[p] = pc[p]
    BY <1>0, <1>3, MainOnlyKeeps DEF TypeOK, HoldsMu, Dialing
  <2> QED
    BY <1>3, <2>1, MainOnlyKeeps, PoolKept DEF Dir
<1>4. CASE Login
  <2>1. \A p \in Procs \ {Main} : pc'[p] = pc[p] /\ pc[p] \notin HoldsMu
    BY <1>0, <1>4, LoginKeeps DEF PoolInv, HoldsMu, TypeOK
  <2>2. /\ pc'[Main] \in {"banner", "lock", "sleep"} /\ hello' = hello
        /\ pc'[Main] = "banner" => mu' = Main
    BY <1>0, <1>4, LoginKeeps DEF TypeOK
  <2> QED
    BY <2>1, <2>2 DEF PoolInv, HoldsMu, DialsItsOwnPool
<1>5. CASE Publish
  <2>1. /\ \A p \in Procs : pc'[p] \in HoldsMu => pc'[p] = pc[p] /\ p # Main
        /\ UNCHANGED <<mu, cwd, addr, hello>>
    BY <1>0, <1>5 DEF Publish, HoldsMu, TypeOK
  <2>2. \A p \in Procs : p # Main => Dir(p)' = Dir(p)
    BY DEF Dir
  <2> QED
    BY <2>1, <2>2, PoolKept
<1>6. ASSUME NEW l \in Loops, ReadFails(l) \/ Retries(l) \/ ReadStops(l) \/ Install(l)
      PROVE  PoolInv'
  <2>1. UNCHANGED <<mu, cwd, addr, hello, got>>
    BY <1>6 DEF ReadFails, Retries, ReadStops, Install
  <2>2. \A p \in Procs : pc'[p] \in HoldsMu => pc'[p] = pc[p]
    BY <1>0, <1>6 DEF ReadFails, Retries, ReadStops, Install, HoldsMu, TypeOK
  <2> QED
    BY <2>1, <2>2, PoolKept DEF Dir
<1>7. ASSUME NEW p \in Procs, Failing(p)
      PROVE  PoolInv'
  <2>1. \A r \in Procs : pc'[r] \notin HoldsMu
    BY <1>0, <1>7, FailingKeeps DEF PoolInv, HoldsMu, TypeOK
  <2> QED
    BY <1>7, <2>1, FailingKeeps, PoolKept
<1> QED
  BY <1>1, <1>2, <1>3, <1>4, <1>5, <1>6, <1>7, NextGroups, PoolCommand, PoolHello

\* However many dialers share the control connection, each data connection goes to
\* the pool of its own direction: ftpMu is held from CWD to the Hello.
THEOREM DialersGetTheirPool == Spec => []DialsItsOwnPool
<1>1. Init => PoolInv
  BY DEF Init, PoolInv, HoldsMu, DialsItsOwnPool
<1>2. TypeOK /\ PoolInv /\ [Next]_vars => PoolInv'
  BY PoolStep
<1>3. PoolInv => DialsItsOwnPool
  BY DEF PoolInv
<1> QED
  BY <1>1, <1>2, <1>3, ConnectType, PTL DEF Spec

------------------------------------------------------------------------------
(* Every download channel has its read loop *)

\* Some loop has the index, and the channel, if it works, has a loop in it.
IsRead(i, c) ==
    /\ \E l \in Loops : index[l] = i /\ pc[l] \notin {"none", "gone"}
    /\ c \in up => \E l \in Loops : pc[l] = "read" /\ ch[l] = c

\* LoginLock saw to it that there are loops for all the downloads of the attempt.
SpareEnough ==
    pc[Main] \in Dialing \cup {"banner"} =>
        /\ Len(got) <= NUp => Cardinality(Spare) >= NDown
        /\ Len(got) > NUp => Cardinality(Spare) + Len(got) >= NUp + NDown

OpenedIsRead ==
    ctx = "live" =>
        \A i \in Indices : NUp + i + 1 <= Len(got) => IsRead(i, got[NUp + i + 1])

ReadInv ==
    /\ SpareEnough /\ OpenedIsRead
    /\ pc[Main] = "up" => Len(downloads) = NDown
    /\ PublishedIsRead

\* What keeps a channel read: no loop is dropped, no loop leaves a channel that
\* works, and the number of a dead connection is not used again.
LoopsStay ==
    /\ \A l \in Loops : pc[l] \notin {"none", "gone"} =>
                            pc'[l] \notin {"none", "gone"} /\ index'[l] = index[l]
    /\ \A l \in Loops : pc[l] = "read" /\ ch[l] \in up' => pc'[l] = "read" /\ ch'[l] = ch[l]

LEMMA IsReadKept ==
    ASSUME LoopsStay, NEW i, NEW c, IsRead(i, c), c \notin up => c \notin up'
    PROVE  IsRead(i, c)'
BY DEF LoopsStay, IsRead

LEMMA ReadKept ==
    ASSUME TypeOK, ReadInv, UNCHANGED downloads, got' = got \/ got' = <<>>,
           up' \subseteq up, Spare' = Spare,
           pc'[Main] \in Dialing \cup {"banner"} =>
               pc[Main] \in Dialing \cup {"banner"} /\ got' = got,
           pc'[Main] = "up" => pc[Main] = "up",
           ctx' = "live" => ctx = "live" /\ LoopsStay
    PROVE  ReadInv'
<1>1. SpareEnough'
  BY DEF ReadInv, SpareEnough
<1>2. OpenedIsRead'
  <2>1. CASE got' = <<>>
    BY <2>1, ConnectAssumption DEF OpenedIsRead, Indices
  <2>2. ASSUME got' = got, ctx' = "live", NEW i \in Indices, NUp + i + 1 <= Len(got)
        PROVE  IsRead(i, got[NUp + i + 1])'
    <3>1. IsRead(i, got[NUp + i + 1])
      BY <2>2 DEF ReadInv, OpenedIsRead
    <3>2. IsRead(i, got[NUp + i + 1])'
      BY <2>2, <3>1 DEF IsRead, LoopsStay
    <3> QED
      BY <3>2
  <2> QED
    BY <2>1, <2>2 DEF OpenedIsRead
<1>3. (pc[Main] = "up" => Len(downloads) = NDown)'
  BY DEF ReadInv
<1>4. PublishedIsRead'
  BY DEF ReadInv, PublishedIsRead, LoopsStay
<1> QED
  BY <1>1, <1>2, <1>3, <1>4 DEF ReadInv

\* A read loop has dialed its channel again.
LEMMA ReadRedial ==
    ASSUME TypeOK, ReadInv, NEW p \in Loops, DialHello(p)
    PROVE  ReadInv'
<1>0. p \in Procs /\ p # Main /\ Main \in Procs /\ \A l \in Loops : l \in Procs /\ l # Main
  BY ConnectAssumption DEF Main, Procs, Loops
<1>1. /\ Fresh \in Chans /\ Fresh \notin up
      /\ Fresh \notin Range(got) /\ Fresh \notin Range(downloads)
  BY FreshIsFresh DEF DialHello
<1>2. /\ pc[p] = "dial" /\ pc' = [pc EXCEPT ![p] = "install"] /\ ch' = [ch EXCEPT ![p] = Fresh]
      /\ UNCHANGED <<index, got, ctx, downloads>> /\ up' = up \cup {Fresh}
  BY <1>0 DEF DialHello, Redialed
<1>3. /\ pc'[Main] = pc[Main] /\ pc'[p] = "install" /\ ch'[p] = Fresh
      /\ \A l \in Loops \ {p} : pc'[l] = pc[l] /\ ch'[l] = ch[l]
  BY <1>0, <1>2 DEF TypeOK
<1>4. LoopsStay
  BY <1>2, <1>3 DEF LoopsStay
<1>5. Spare' = Spare
  BY <1>2, <1>3 DEF Spare
<1>6. SpareEnough'
  BY <1>2, <1>3, <1>5 DEF ReadInv, SpareEnough
<1>7. OpenedIsRead'
  <2>1. SUFFICES ASSUME ctx = "live", NEW i \in Indices, NUp + i + 1 <= Len(got)
                 PROVE  IsRead(i, got[NUp + i + 1])'
    BY <1>2 DEF OpenedIsRead
  <2> DEFINE c == got[NUp + i + 1]
  <2>2. IsRead(i, c)
    BY <2>1 DEF ReadInv, OpenedIsRead
  <2>3. c \in Range(got)
    BY <2>1, ConnectAssumption DEF Range, TypeOK, GotLength, Indices
  <2>4. c \notin up => c \notin up'
    BY <1>1, <1>2, <2>3
  <2>5. c' = c
    BY <1>2
  <2> QED
    BY <1>2, <1>4, <2>2, <2>4, IsReadKept DEF IsRead, LoopsStay
<1>8. PublishedIsRead'
  <2>1. SUFFICES ASSUME pc[Main] = "up", ctx = "live", NEW i \in Indices
                 PROVE  /\ \E l \in Loops : index'[l] = i /\ pc'[l] \notin {"none", "gone"}
                        /\ downloads[i + 1] \in up' =>
                             \E l \in Loops : pc'[l] = "read" /\ ch'[l] = downloads[i + 1]
    BY <1>2, <1>3 DEF PublishedIsRead
  <2>2. downloads \in Seq(Chans) /\ i + 1 \in 1..Len(downloads)
    BY <2>1, ConnectAssumption DEF ReadInv, Indices, TypeOK
  <2>3. downloads[i + 1] # Fresh
    BY <1>1, <2>2 DEF Range
  <2> QED
    BY <1>2, <1>4, <2>1, <2>3 DEF ReadInv, PublishedIsRead, LoopsStay
<1> QED
  BY <1>2, <1>3, <1>6, <1>7, <1>8 DEF ReadInv

\* The new channel of a read loop takes its place in the table, and is read.
LEMMA ReadInstall ==
    ASSUME TypeOK, ReadInv, NEW p \in Loops, Install(p)
    PROVE  ReadInv'
<1>0. p \in Procs /\ p # Main /\ Main \in Procs /\ \A l \in Loops : l \in Procs /\ l # Main
  BY ConnectAssumption DEF Main, Procs, Loops
<1>1. /\ pc[p] = "install" /\ UNCHANGED <<index, ch, got, ctx, up>>
      /\ pc'[p] = "read" /\ \A r \in Procs \ {p} : pc'[r] = pc[r]
      /\ Len(downloads') = Len(downloads)
      /\ \A j \in 1..Len(downloads) : downloads'[j] \in {downloads[j], ch[p]}
  BY <1>0, InstallType DEF Install, loopVars, mainVars, TypeOK
<1>2. LoopsStay /\ Spare' = Spare
  BY <1>0, <1>1 DEF LoopsStay, Spare
<1>3. SpareEnough' /\ OpenedIsRead'
  BY <1>0, <1>1, <1>2 DEF ReadInv, SpareEnough, OpenedIsRead, IsRead, LoopsStay
<1>4. PublishedIsRead'
  <2>1. SUFFICES ASSUME pc[Main] = "up", ctx = "live", NEW i \in Indices
                 PROVE  /\ \E l \in Loops : index[l] = i /\ pc'[l] \notin {"none", "gone"}
                        /\ downloads'[i + 1] \in up =>
                             \E l \in Loops : pc'[l] = "read" /\ ch[l] = downloads'[i + 1]
    BY <1>0, <1>1 DEF PublishedIsRead
  <2>2. i + 1 \in 1..Len(downloads)
    BY <2>1, ConnectAssumption DEF ReadInv, Indices
  <2>3. downloads'[i + 1] \in {downloads[i + 1], ch[p]}
    BY <1>1, <2>2
  <2> QED
    BY <1>1, <1>2, <2>1, <2>3 DEF ReadInv, PublishedIsRead, LoopsStay
<1> QED
  BY <1>0, <1>1, <1>3, <1>4 DEF ReadInv

\* openAllChannels has dialed its next channel; a download gets a loop of its own.
LEMMA ReadOpened ==
    ASSUME TypeOK, ReadInv, DialHello(Main)
    PROVE  ReadInv'
<1>1. /\ Fresh \in Chans /\ Fresh \notin up /\ Fresh \notin Range(got)
  BY FreshIsFresh DEF DialHello
<1>2. pc[Main] = "dial" /\ Opened(Fresh) /\ up' = up \cup {Fresh} /\ UNCHANGED ctx
  BY DEF DialHello
<1>3. Len(got) \in Nat /\ Len(got) < NUp + NDown /\ got \in Seq(Chans)
  BY <1>2 DEF TypeOK, GotLength, Dialing
<1>4. Len(got) >= NUp => Cardinality(Spare) + Len(got) >= NUp + NDown
  BY <1>2, <1>3, SpareIsFinite, ConnectAssumption DEF ReadInv, SpareEnough, Dialing
<1>5. Len(got) >= NUp => Min(Spare) \in Spare
  <2>1. Len(got) >= NUp => Spare # {}
    BY <1>3, <1>4, SpareIsFinite, FS_EmptySet, ConnectAssumption
  <2>2. Spare \subseteq Nat
    BY DEF Spare, Loops
  <2> QED
    BY <2>1, <2>2, MinIn
<1>6. /\ got' \in Seq(Chans) /\ Len(got') = Len(got) + 1
      /\ \A j \in 1..Len(got) : got'[j] = got[j]
      /\ got'[Len(got) + 1] = Fresh
      /\ pc'[Main] \in {"lock", "publish"}
      /\ Len(got) < NUp => \A l \in Loops : pc'[l] = pc[l]
      /\ Len(got) >= NUp => \A l \in Loops : pc'[l] = IF l = Min(Spare) THEN "read" ELSE pc[l]
      /\ index' = [l \in Loops |-> IF pc'[l] # pc[l] THEN Index(Main) ELSE index[l]]
      /\ ch' = [l \in Loops |-> IF pc'[l] # pc[l] THEN Fresh ELSE ch[l]]
  BY <1>1, <1>2, OpenedStarts
<1>7. LoopsStay
  <2>1. \A l \in Loops : pc[l] # "none" => pc'[l] = pc[l]
    <3>1. Len(got) < NUp \/ Len(got) >= NUp
      BY <1>3, ConnectAssumption
    <3>2. CASE Len(got) < NUp
      BY <1>6, <3>2
    <3>3. CASE Len(got) >= NUp
      <4>1. pc[Min(Spare)] = "none"
        BY <1>5, <3>3 DEF Spare
      <4> QED
        BY <1>6, <3>3, <4>1
    <3> QED
      BY <3>1, <3>2, <3>3
  <2> QED
    BY <1>6, <2>1 DEF LoopsStay
<1>8. SpareEnough'
  <2>1. CASE Len(got) < NUp
    <3>1. Spare' = Spare
      BY <1>6, <2>1 DEF Spare
    <3>2. Cardinality(Spare) >= NDown
      BY <1>2, <1>3, <2>1, ConnectAssumption DEF ReadInv, SpareEnough, Dialing
    <3> QED
      BY <1>3, <1>6, <2>1, <3>1, <3>2, SpareIsFinite, ConnectAssumption DEF SpareEnough
  <2>2. CASE Len(got) >= NUp
    <3>1. Spare' = Spare \ {Min(Spare)}
      BY <1>5, <1>6, <2>2 DEF Spare
    <3>2. Cardinality(Spare') = Cardinality(Spare) - 1
      BY <1>5, <2>2, <3>1, SpareIsFinite, FS_RemoveElement
    <3> QED
      BY <1>3, <1>4, <1>6, <2>2, <3>2, SpareIsFinite, ConnectAssumption DEF SpareEnough
  <2> QED
    BY <1>3, <2>1, <2>2, ConnectAssumption
<1>9. OpenedIsRead'
  <2>1. SUFFICES ASSUME ctx = "live", NEW i \in Indices, NUp + i + 1 <= Len(got)'
                 PROVE  IsRead(i, got[NUp + i + 1])'
    BY <1>2 DEF OpenedIsRead
  <2>2. i \in Nat
    BY ConnectAssumption DEF Indices
  <2>3. CASE NUp + i + 1 <= Len(got)
    <3> DEFINE c == got[NUp + i + 1]
    <3>1. IsRead(i, c)
      BY <2>1, <2>3 DEF ReadInv, OpenedIsRead
    <3>2. c \in Range(got)
      BY <1>3, <2>2, <2>3, ConnectAssumption DEF Range
    <3>3. c \notin up => c \notin up'
      BY <1>1, <1>2, <3>2
    <3>4. got'[NUp + i + 1] = c
      BY <1>3, <1>6, <2>2, <2>3, ConnectAssumption
    <3> HIDE DEF c
    <3>5. /\ \E l \in Loops : index'[l] = i /\ pc'[l] \notin {"none", "gone"}
          /\ c \in up' => \E l \in Loops : pc'[l] = "read" /\ ch'[l] = c
      BY <1>7, <3>1, <3>3 DEF LoopsStay, IsRead
    <3> QED
      BY <3>4, <3>5 DEF IsRead
  <2>4. CASE NUp + i + 1 = Len(got) + 1
    <3>1. Len(got) >= NUp /\ Len(got) - NUp = i
      BY <1>3, <2>2, <2>4, ConnectAssumption
    <3> DEFINE m == Min(Spare)
    <3>2. m \in Loops /\ pc[m] = "none" /\ pc'[m] = "read"
      BY <1>5, <1>6, <3>1 DEF Spare
    <3>3. Index(Main) = i
      BY <1>3, <3>1, ConnectAssumption DEF Index
    <3>4. index'[m] = i /\ ch'[m] = Fresh /\ got'[NUp + i + 1] = Fresh
      BY <1>6, <2>4, <3>2, <3>3
    <3> QED
      BY <3>2, <3>4 DEF IsRead
  <2>5. NUp + i + 1 <= Len(got) + 1
    BY <1>6, <2>1
  <2>6. NUp + i + 1 <= Len(got) \/ NUp + i + 1 = Len(got) + 1
    BY <1>3, <2>2, <2>5, ConnectAssumption
  <2> QED
    BY <2>3, <2>4, <2>6
<1> QED
  BY <1>6, <1>8, <1>9 DEF ReadInv, PublishedIsRead

LEMMA ReadStep ==
    ASSUME TypeOK, ReadInv, [Next]_vars
    PROVE  ReadInv'
<1> USE DEF loopVars, mainVars, ctrlVars, serverVars
<1>0. /\ Main \in Procs /\ \A l \in Loops : l \in Procs /\ l # Main
      /\ \A p \in Procs : p = Main \/ p \in Loops
  BY ConnectAssumption DEF Main, Procs, Loops
<1>1. CASE UNCHANGED vars
  BY <1>1, ReadKept DEF vars, LoopsStay, Spare
<1>2. CASE Outside
  <2>1. Spare' = Spare /\ LoopsStay
    BY <1>2, OutsideKeeps DEF Spare, LoopsStay
  <2> QED
    BY <1>2, <2>1, OutsideKeeps, ReadKept
<1>3. CASE MainOnly
  <2>1. /\ \A l \in Loops : pc'[l] = pc[l]
        /\ pc'[Main] \notin Dialing \cup {"banner", "up"}
    BY <1>0, <1>3, MainOnlyKeeps DEF TypeOK
  <2>2. Spare' = Spare /\ LoopsStay
    BY <1>3, <2>1, MainOnlyKeeps DEF Spare, LoopsStay
  <2> QED
    BY <1>3, <2>1, <2>2, MainOnlyKeeps, ReadKept
<1>4. CASE Login
  <2>1. /\ UNCHANGED <<got, downloads, index, ch, up, ctx>> /\ got = <<>>
        /\ \A l \in Loops : pc'[l] = pc[l]
        /\ pc'[Main] \in {"banner", "lock", "sleep"}
    BY <1>0, <1>4, LoginKeeps DEF TypeOK
  <2>2. Spare' = Spare /\ LoopsStay
    BY <2>1 DEF Spare, LoopsStay
  <2>3. Cardinality(Spare) >= NDown \/ pc[Main] = "banner"
    BY <1>4, LoginKeeps DEF Spare
  <2>4. Cardinality(Spare) >= NDown
    BY <2>1, <2>3, ConnectAssumption DEF ReadInv, SpareEnough
  <2>5. SpareEnough'
    BY <2>1, <2>2, <2>4, ConnectAssumption DEF SpareEnough
  <2>6. OpenedIsRead'
    BY <2>1, ConnectAssumption DEF OpenedIsRead, Indices
  <2> QED
    BY <2>1, <2>5, <2>6 DEF ReadInv, PublishedIsRead
<1>5. CASE Publish
  <2>1. /\ pc[Main] = "publish" /\ pc'[Main] = "up" /\ got' = <<>>
        /\ UNCHANGED <<index, ch, up, ctx>>
        /\ \A l \in Loops : pc'[l] = pc[l]
    BY <1>0, <1>5 DEF Publish, TypeOK
  <2>2. /\ Len(downloads') = NDown
        /\ \A i \in Indices : downloads'[i + 1] = got[NUp + i + 1]
    BY <1>5, PublishSplits
  <2>3. \A i \in Indices : NUp + i + 1 <= Len(got)
    BY <2>1, ConnectAssumption DEF TypeOK, GotLength, Indices
  <2>4. ctx = "live" => \A i \in Indices : IsRead(i, got[NUp + i + 1])
    BY <2>3 DEF ReadInv, OpenedIsRead
  <2>5. PublishedIsRead'
    BY <2>1, <2>2, <2>4 DEF PublishedIsRead, IsRead
  <2>6. SpareEnough' /\ OpenedIsRead'
    BY <2>1, ConnectAssumption DEF SpareEnough, Dialing, OpenedIsRead, Indices
  <2> QED
    BY <2>2, <2>5, <2>6 DEF ReadInv
<1>6. ASSUME NEW l \in Loops, ReadFails(l) \/ Retries(l) \/ ReadStops(l)
      PROVE  ReadInv'
  <2>1. UNCHANGED <<index, got, downloads, up, ctx>> /\ pc[l] \in {"read", "wait"}
    BY <1>6 DEF ReadFails, Retries, ReadStops
  <2>2. /\ \A p \in Procs \ {l} : pc'[p] = pc[p]
        /\ pc'[l] \in {"wait", "lock", "gone"}
        /\ ctx = "live" => pc'[l] # "gone"
        /\ \A k \in Loops \ {l} : ch'[k] = ch[k]
        /\ pc[l] = "read" /\ ctx = "live" => ch[l] \notin up
    BY <1>0, <1>6 DEF ReadFails, Retries, ReadStops, TypeOK
  <2>3. Spare' = Spare
    BY <1>0, <2>1, <2>2 DEF Spare
  <2>4. ctx = "live" => LoopsStay
    BY <1>0, <2>1, <2>2 DEF LoopsStay
  <2> QED
    BY <1>0, <2>1, <2>2, <2>3, <2>4, ReadKept
<1>7. ASSUME NEW p \in Procs, Failing(p)
      PROVE  ReadInv'
  <2>1. /\ \A r \in Procs \ {p} : pc'[r] = pc[r]
        /\ pc[p] \in Dialing /\ pc'[p] = IF p = Main THEN "drop" ELSE "wait"
    BY <1>7, FailingKeeps DEF TypeOK
  <2>2. Spare' = Spare /\ LoopsStay
    BY <1>0, <1>7, <2>1, FailingKeeps DEF Spare, LoopsStay, Dialing
  <2>3. pc'[Main] \in Dialing \cup {"banner"} =>
            pc[Main] \in Dialing \cup {"banner"} /\ got' = got
    BY <1>0, <1>7, <2>1, FailingKeeps DEF Dialing
  <2>4. pc'[Main] = "up" => pc[Main] = "up"
    BY <1>0, <2>1
  <2> QED
    BY <1>7, <2>2, <2>3, <2>4, FailingKeeps, ReadKept
<1>8. ASSUME NEW p \in Procs, Command(p)
      PROVE  ReadInv'
  <2>1. /\ \A r \in Procs \ {p} : pc'[r] = pc[r]
        /\ pc[p] \in Dialing /\ pc'[p] \in Dialing
        /\ UNCHANGED <<index, ch, got, downloads, up, ctx>>
    BY <1>8 DEF Command, DialLock, RedialOk, DialCwd, DialPasv, TypeOK, Dialing
  <2>2. Spare' = Spare /\ LoopsStay
    BY <1>0, <2>1 DEF Spare, LoopsStay, Dialing
  <2> QED
    BY <1>0, <2>1, <2>2, ReadKept DEF Dialing
<1>9. ASSUME NEW p \in Procs, DialHello(p)
      PROVE  ReadInv'
  BY <1>0, <1>9, ReadRedial, ReadOpened
<1> QED
  BY <1>1, <1>2, <1>3, <1>4, <1>5, <1>6, <1>7, <1>8, <1>9, NextGroups, ReadInstall

\* Whatever fails and is dialed again, by whichever attempt's loops, every download
\* index that is published has a read loop, and every published channel that works
\* is read, until ctx is cancelled.
THEOREM PublishedChannelsAreRead == Spec => []PublishedIsRead
<1>1. Init => ReadInv
  BY ConnectAssumption
     DEF Init, ReadInv, SpareEnough, OpenedIsRead, PublishedIsRead, Dialing, Main, Procs, Indices
<1>2. TypeOK /\ ReadInv /\ [Next]_vars => ReadInv'
  BY ReadStep
<1>3. ReadInv => PublishedIsRead
  BY DEF ReadInv
<1> QED
  BY <1>1, <1>2, <1>3, ConnectType, PTL DEF Spec
=============================================================================
