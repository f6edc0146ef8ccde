---------------------------- MODULE DpiConnProofs ----------------------------
(***************************************************************************)
(* Theorems about DpiConn, for any bounds and capacities: what the         *)
(* application reads is a prefix of what the target sent, an end of file   *)
(* comes after all of it, and a connection in the server's table has a     *)
(* goroutine that will take it out.                                        *)
(***************************************************************************)
EXTENDS DpiConn, TLAPS

(***************************************************************************)
(* The download is a line of places, each holding the chunks that follow   *)
(* the ones in the place before it: got, readCh, pumpRead's hand, the      *)
(* body, dataCh, the hand of the goroutine that reads the target.          *)
(* A copy or a pumpRead that has ended may have dropped the chunk in its   *)
(* hand, which breaks the line behind it; nothing passes there any more.   *)
(***************************************************************************)
InHand == IF rpc = "send" THEN 1 ELSE 0
AtPut == IF spc = "put" THEN 1 ELSE 0
AtClient == Len(got) + Len(readCh) + InHand

DownTypes ==
    /\ got \in Seq(Nat) /\ readCh \in Seq(Nat) /\ body \in Seq(Nat) /\ dataCh \in Seq(Nat)
    /\ rbuf \in Nat /\ sbuf \in Nat /\ tsent \in Nat

InLine ==
    /\ \A i \in 1..Len(got) : got[i] = i
    /\ dpc # "done" =>
          /\ \A i \in 1..Len(readCh) : readCh[i] = Len(got) + i
          /\ rpc = "send" => rbuf = Len(got) + Len(readCh) + 1
    /\ dpc # "done" /\ rpc # "done" =>
          /\ \A i \in 1..Len(body) : body[i] = AtClient + i
          /\ \A i \in 1..Len(dataCh) : dataCh[i] = AtClient + Len(body) + i
          /\ spc = "put" => sbuf = AtClient + Len(body) + Len(dataCh) + 1
          /\ tsent = AtClient + Len(body) + Len(dataCh) + AtPut

\* The copies and pumpRead start once, and so does the goroutine that reads
\* the target.
StartOnce ==
    /\ hpc \in {"connect", "connected", "download"} => dpc = "off" /\ rpc = "off"
    /\ cst = "sent" => spc = "off"

Line == DownTypes /\ InLine /\ StartOnce

\* The variables the line is made of, but for the three that a step of the
\* places changes.
lineVars == <<got, readCh, body, dataCh, rbuf, sbuf, tsent, dpc, rpc, spc>>

\* The line holds at the start, when every place is empty.
LEMMA LineInit == Init => Line
BY DEF Init, Line, DownTypes, InLine, StartOnce, AtClient, InHand, AtPut, Nothing

\* A step that leaves the places alone keeps the line, if it starts nothing.
LEMMA LineSame ==
    ASSUME Line, UNCHANGED lineVars,
           hpc' \in {"connect", "connected", "download"} =>
               hpc \in {"connect", "connected", "download"},
           cst' = "sent" => cst = "sent"
    PROVE  Line'
BY DEF Line, DownTypes, InLine, StartOnce, AtClient, InHand, AtPut, lineVars

\* What Head and Tail leave of a queue.
LEMMA SeqTail ==
    ASSUME NEW s \in Seq(Nat), s # <<>>
    PROVE  /\ Head(s) = s[1] /\ Head(s) \in Nat
           /\ Tail(s) \in Seq(Nat) /\ Len(s) = Len(Tail(s)) + 1
           /\ \A i \in 1..Len(Tail(s)) : Tail(s)[i] = s[i + 1]
OBVIOUS

\* What Append adds to a queue.
LEMMA SeqAppend ==
    ASSUME NEW s \in Seq(Nat), NEW e \in Nat
    PROVE  /\ Append(s, e) \in Seq(Nat) /\ Len(Append(s, e)) = Len(s) + 1
           /\ \A i \in 1..Len(Append(s, e)) :
                 Append(s, e)[i] = IF i <= Len(s) THEN s[i] ELSE e
OBVIOUS

\* The pumps and copies start with empty hands.
LEMMA Line_DownloadReturns == Line /\ DownloadReturns => Line'
<1> SUFFICES ASSUME Line, DownloadReturns PROVE Line'
  OBVIOUS
<1> USE DEF DownloadReturns, readVars, handlerVars, pumpVars, downVars, Nothing
<1>1. DownTypes'
  BY DEF Line, DownTypes
<1>2. InLine'
  BY DEF Line, DownTypes, InLine, StartOnce, AtClient, InHand, AtPut
<1>3. StartOnce'
  BY DEF Line, StartOnce
<1> QED
  BY <1>1, <1>2, <1>3 DEF Line

\* pumpRead's hand is empty before and after the check.
LEMMA Line_ReadChecks == Line /\ ReadChecks => Line'
<1> SUFFICES ASSUME Line, ReadChecks PROVE Line'
  OBVIOUS
<1> USE DEF ReadChecks, readVars, handlerVars, pumpVars, downVars, Nothing
<1>1. DownTypes'
  BY DEF Line, DownTypes
<1>2. InLine'
  BY DEF Line, DownTypes, InLine, StartOnce, AtClient, InHand, AtPut
<1>3. StartOnce'
  BY DEF Line, StartOnce
<1> QED
  BY <1>1, <1>2, <1>3 DEF Line

\* pumpRead takes the head of the body into its hand.
LEMMA Line_ReadChunk == Line /\ ReadChunk => Line'
<1> SUFFICES ASSUME Line, ReadChunk PROVE Line'
  OBVIOUS
<1> USE DEF ReadChunk, readVars, handlerVars, pumpVars, downVars, Nothing
<1>1. body \in Seq(Nat) /\ body # <<>> /\ rpc = "read" /\ rpc' = "send"
  BY DEF Line, DownTypes
<1>2. UNCHANGED <<got, readCh, dataCh, sbuf, tsent, dpc, spc, hpc, cst>>
  OBVIOUS
<1>3. rbuf' = body[1] /\ rbuf' \in Nat /\ body' \in Seq(Nat) /\ Len(body) = Len(body') + 1
      /\ \A i \in 1..Len(body') : body'[i] = body[i + 1]
  BY <1>1, SeqTail
<1>4. DownTypes'
  BY <1>2, <1>3 DEF Line, DownTypes
<1>5. InLine'
  <2>1. AtClient \in Nat /\ AtClient' = AtClient + 1 /\ AtPut' = AtPut
    BY <1>1, <1>2 DEF Line, DownTypes, AtClient, InHand, AtPut
  <2>2. AtClient = Len(got) + Len(readCh)
    BY <1>1 DEF Line, DownTypes, AtClient, InHand
  <2>3. dpc # "done" => rbuf' = AtClient + 1
    BY <1>1, <1>3, <2>1 DEF Line, InLine
  <2>4. dpc # "done" => \A i \in 1..Len(body') : body'[i] = AtClient' + i
    BY <1>1, <1>3, <2>1 DEF Line, InLine
  <2>5. AtClient' + Len(body') = AtClient + Len(body)
    BY <1>3, <2>1
  <2> QED
    BY <1>1, <1>2, <2>1, <2>2, <2>3, <2>4, <2>5 DEF Line, DownTypes, InLine
<1>6. StartOnce'
  BY <1>1, <1>2 DEF Line, StartOnce
<1> QED
  BY <1>4, <1>5, <1>6 DEF Line

\* pumpRead ends: the line behind it is cut.
LEMMA Line_ReadEnds == Line /\ ReadEnds => Line'
<1> SUFFICES ASSUME Line, ReadEnds PROVE Line'
  OBVIOUS
<1> USE DEF ReadEnds, readVars, handlerVars, pumpVars, downVars, Nothing
<1>1. DownTypes'
  BY DEF Line, DownTypes
<1>2. InLine'
  BY DEF Line, DownTypes, InLine, StartOnce, AtClient, InHand, AtPut
<1>3. StartOnce'
  BY DEF Line, StartOnce
<1> QED
  BY <1>1, <1>2, <1>3 DEF Line

\* pumpRead puts the chunk in its hand at the end of readCh, or drops it and ends.
LEMMA Line_ReadSends == Line /\ ReadSends => Line'
<1> SUFFICES ASSUME Line, ReadSends PROVE Line'
  OBVIOUS
<1> USE DEF ReadSends, readVars, handlerVars, pumpVars, downVars, Nothing
<1>1. rpc = "send" /\ readCh \in Seq(Nat) /\ got \in Seq(Nat) /\ rbuf \in Nat
  BY DEF Line, DownTypes
<1>2. UNCHANGED <<got, body, dataCh, sbuf, tsent, dpc, spc, hpc, cst>> /\ rbuf' = 0
  OBVIOUS
<1>3. StartOnce'
  BY <1>1, <1>2 DEF Line, StartOnce
<1>4. CASE rpc' = "done" /\ UNCHANGED readCh
  BY <1>1, <1>2, <1>3, <1>4 DEF Line, DownTypes, InLine
<1>5. CASE rpc' = "check" /\ readCh' = Append(readCh, rbuf)
  <2>1. readCh' \in Seq(Nat) /\ Len(readCh') = Len(readCh) + 1
        /\ \A i \in 1..Len(readCh') : readCh'[i] = IF i <= Len(readCh) THEN readCh[i] ELSE rbuf
    BY <1>1, <1>5, SeqAppend
  <2>2. DownTypes'
    BY <1>2, <2>1 DEF Line, DownTypes
  <2>3. AtClient' = AtClient /\ AtPut' = AtPut
    BY <1>1, <1>2, <1>5, <2>1 DEF AtClient, InHand, AtPut
  <2>4. dpc # "done" => \A i \in 1..Len(readCh') : readCh'[i] = Len(got) + i
    <3> SUFFICES ASSUME dpc # "done", NEW i \in 1..Len(readCh') PROVE readCh'[i] = Len(got) + i
      OBVIOUS
    <3>1. CASE i <= Len(readCh)
      BY <1>1, <2>1, <3>1 DEF Line, InLine
    <3>2. CASE i = Len(readCh) + 1
      BY <1>1, <2>1, <3>2 DEF Line, InLine
    <3> QED
      BY <1>1, <2>1, <3>1, <3>2
  <2> QED
    BY <1>1, <1>2, <1>3, <1>5, <2>2, <2>3, <2>4 DEF Line, InLine
<1> QED
  BY <1>4, <1>5

\* The copy takes the head of readCh, or drops it and ends.
LEMMA Line_CopyDown == Line /\ CopyDown => Line'
<1> SUFFICES ASSUME Line, CopyDown PROVE Line'
  OBVIOUS
<1> USE DEF CopyDown, readVars, handlerVars, pumpVars, downVars, Nothing
<1>1. readCh \in Seq(Nat) /\ readCh # <<>> /\ got \in Seq(Nat) /\ dpc = "read"
  BY DEF Line, DownTypes
<1>2. UNCHANGED <<body, dataCh, rbuf, sbuf, tsent, rpc, spc, hpc, cst>>
  OBVIOUS
<1>3. readCh' \in Seq(Nat) /\ Len(readCh) = Len(readCh') + 1 /\ Head(readCh) = readCh[1]
      /\ Head(readCh) \in Nat /\ \A i \in 1..Len(readCh') : readCh'[i] = readCh[i + 1]
  BY <1>1, SeqTail
<1>4. CASE dpc' = "done" /\ UNCHANGED got
  BY <1>1, <1>2, <1>3, <1>4 DEF Line, DownTypes, InLine, StartOnce
<1>5. CASE got' = Append(got, Head(readCh)) /\ UNCHANGED dpc
  <2>1. got' \in Seq(Nat) /\ Len(got') = Len(got) + 1
        /\ \A i \in 1..Len(got') : got'[i] = IF i <= Len(got) THEN got[i] ELSE Head(readCh)
    BY <1>1, <1>3, <1>5, SeqAppend
  <2>2. DownTypes'
    BY <1>2, <1>3, <2>1 DEF Line, DownTypes
  <2>3. AtClient' = AtClient /\ AtPut' = AtPut
    BY <1>1, <1>2, <1>3, <2>1 DEF AtClient, InHand, AtPut
  <2>4. Head(readCh) = Len(got) + 1
    BY <1>1, <1>3 DEF Line, InLine
  <2>5. \A i \in 1..Len(got') : got'[i] = i
    <3> SUFFICES ASSUME NEW i \in 1..Len(got') PROVE got'[i] = i
      OBVIOUS
    <3>1. CASE i <= Len(got)
      BY <1>1, <2>1, <3>1 DEF Line, InLine
    <3>2. CASE i = Len(got) + 1
      BY <1>1, <2>1, <2>4, <3>2
    <3> QED
      BY <1>1, <2>1, <3>1, <3>2
  <2>6. \A i \in 1..Len(readCh') : readCh'[i] = Len(got') + i
    BY <1>1, <1>3, <2>1 DEF Line, InLine
  <2>7. Len(got') + Len(readCh') = Len(got) + Len(readCh)
    BY <1>1, <1>3, <2>1
  <2>8. StartOnce'
    BY <1>2, <1>5 DEF Line, StartOnce
  <2> QED
    BY <1>1, <1>2, <1>5, <2>2, <2>3, <2>5, <2>6, <2>7, <2>8 DEF Line, InLine
<1> QED
  BY <1>4, <1>5

\* The copy ends.
LEMMA Line_CopyEnds == Line /\ CopyEnds => Line'
<1> SUFFICES ASSUME Line, CopyEnds PROVE Line'
  OBVIOUS
<1> USE DEF CopyEnds, readVars, handlerVars, pumpVars, downVars, Nothing
<1>1. DownTypes'
  BY DEF Line, DownTypes
<1>2. InLine'
  BY DEF Line, DownTypes, InLine, StartOnce, AtClient, InHand, AtPut
<1>3. StartOnce'
  BY DEF Line, StartOnce
<1> QED
  BY <1>1, <1>2, <1>3 DEF Line

\* The goroutine that reads the target starts with an empty hand.
LEMMA Line_ServeConnect == Line /\ ServeConnect => Line'
<1> SUFFICES ASSUME Line, ServeConnect PROVE Line'
  OBVIOUS
<1> USE DEF ServeConnect, readVars, handlerVars, pumpVars, downVars, Nothing
<1>1. DownTypes'
  BY DEF Line, DownTypes
<1>2. InLine'
  BY DEF Line, DownTypes, InLine, StartOnce, AtClient, InHand, AtPut
<1>3. StartOnce'
  BY DEF Line, StartOnce
<1> QED
  BY <1>1, <1>2, <1>3 DEF Line

\* The next chunk of the target comes into the goroutine's hand.
LEMMA Line_TargetSends == Line /\ TargetSends => Line'
<1> SUFFICES ASSUME Line, TargetSends PROVE Line'
  OBVIOUS
<1> USE DEF TargetSends, readVars, handlerVars, pumpVars, downVars, Nothing
<1>1. DownTypes'
  BY DEF Line, DownTypes
<1>2. InLine'
  BY DEF Line, DownTypes, InLine, StartOnce, AtClient, InHand, AtPut
<1>3. StartOnce'
  BY DEF Line, StartOnce
<1> QED
  BY <1>1, <1>2, <1>3 DEF Line

\* It goes to the end of dataCh.
LEMMA Line_PutData == Line /\ PutData => Line'
<1> SUFFICES ASSUME Line, PutData PROVE Line'
  OBVIOUS
<1> USE DEF PutData, readVars, handlerVars, pumpVars, downVars, Nothing
<1>1. dataCh \in Seq(Nat) /\ sbuf \in Nat /\ spc = "put" /\ spc' = "read"
  BY DEF Line, DownTypes
<1>2. UNCHANGED <<got, readCh, body, rbuf, tsent, dpc, rpc, hpc, cst>> /\ sbuf' = 0
  OBVIOUS
<1>3. dataCh' \in Seq(Nat) /\ Len(dataCh') = Len(dataCh) + 1
      /\ \A i \in 1..Len(dataCh') : dataCh'[i] = IF i <= Len(dataCh) THEN dataCh[i] ELSE sbuf
  BY <1>1, SeqAppend
<1>4. DownTypes'
  BY <1>2, <1>3 DEF Line, DownTypes
<1>5. AtClient \in Nat /\ AtClient' = AtClient /\ AtPut = 1 /\ AtPut' = 0
  BY <1>1, <1>2 DEF Line, DownTypes, AtClient, InHand, AtPut
<1>6. dpc # "done" /\ rpc # "done" =>
        \A i \in 1..Len(dataCh') : dataCh'[i] = AtClient + Len(body) + i
  <2> SUFFICES ASSUME dpc # "done", rpc # "done", NEW i \in 1..Len(dataCh')
               PROVE  dataCh'[i] = AtClient + Len(body) + i
    OBVIOUS
  <2>1. CASE i <= Len(dataCh)
    BY <1>1, <1>3, <2>1 DEF Line, InLine
  <2>2. CASE i = Len(dataCh) + 1
    BY <1>1, <1>3, <1>5, <2>2 DEF Line, DownTypes, InLine
  <2> QED
    BY <1>1, <1>3, <2>1, <2>2
<1>7. InLine'
  <2>1. dpc # "done" /\ rpc # "done" => tsent = AtClient + Len(body) + Len(dataCh') + 0
    BY <1>1, <1>3, <1>5 DEF Line, DownTypes, InLine
  <2> QED
    BY <1>1, <1>2, <1>5, <1>6, <2>1 DEF Line, InLine
<1>8. StartOnce'
  BY <1>1, <1>2 DEF Line, StartOnce
<1> QED
  BY <1>4, <1>7, <1>8 DEF Line

\* The goroutine's hand is empty when it closes.
LEMMA Line_PumpCloses == Line /\ PumpCloses => Line'
<1> SUFFICES ASSUME Line, PumpCloses PROVE Line'
  OBVIOUS
<1> USE DEF PumpCloses, readVars, handlerVars, pumpVars, downVars, Nothing
<1>1. DownTypes'
  BY DEF Line, DownTypes
<1>2. InLine'
  BY DEF Line, DownTypes, InLine, StartOnce, AtClient, InHand, AtPut
<1>3. StartOnce'
  BY DEF Line, StartOnce
<1> QED
  BY <1>1, <1>2, <1>3 DEF Line

\* The goroutine's hand is empty when it ends.
LEMMA Line_PumpUnregisters == Line /\ PumpUnregisters => Line'
<1> SUFFICES ASSUME Line, PumpUnregisters PROVE Line'
  OBVIOUS
<1> USE DEF PumpUnregisters, readVars, handlerVars, pumpVars, downVars, Nothing
<1>1. DownTypes'
  BY DEF Line, DownTypes
<1>2. InLine'
  BY DEF Line, DownTypes, InLine, StartOnce, AtClient, InHand, AtPut
<1>3. StartOnce'
  BY DEF Line, StartOnce
<1> QED
  BY <1>1, <1>2, <1>3 DEF Line

\* The head of dataCh goes to the end of the body.
LEMMA Line_SendBody == Line /\ SendBody => Line'
<1> SUFFICES ASSUME Line, SendBody PROVE Line'
  OBVIOUS
<1> USE DEF SendBody, readVars, handlerVars, pumpVars, downVars, Nothing
<1>1. dataCh \in Seq(Nat) /\ dataCh # <<>> /\ body \in Seq(Nat)
  BY DEF Line, DownTypes
<1>2. UNCHANGED <<got, readCh, rbuf, sbuf, tsent, dpc, rpc, spc, hpc, cst>>
  OBVIOUS
<1>3. dataCh' \in Seq(Nat) /\ Len(dataCh) = Len(dataCh') + 1 /\ Head(dataCh) = dataCh[1]
      /\ Head(dataCh) \in Nat /\ \A i \in 1..Len(dataCh') : dataCh'[i] = dataCh[i + 1]
  BY <1>1, SeqTail
<1>4. body' \in Seq(Nat) /\ Len(body') = Len(body) + 1
      /\ \A i \in 1..Len(body') : body'[i] = IF i <= Len(body) THEN body[i] ELSE Head(dataCh)
  BY <1>1, <1>3, SeqAppend
<1>5. DownTypes'
  BY <1>2, <1>3, <1>4 DEF Line, DownTypes
<1>6. AtClient \in Nat /\ AtClient' = AtClient /\ AtPut' = AtPut
  BY <1>2 DEF Line, DownTypes, AtClient, InHand, AtPut
<1>7. dpc # "done" /\ rpc # "done" => \A i \in 1..Len(body') : body'[i] = AtClient + i
  <2> SUFFICES ASSUME dpc # "done", rpc # "done", NEW i \in 1..Len(body')
               PROVE  body'[i] = AtClient + i
    OBVIOUS
  <2>1. CASE i <= Len(body)
    BY <1>1, <1>4, <2>1 DEF Line, InLine
  <2>2. CASE i = Len(body) + 1
    BY <1>1, <1>3, <1>4, <1>6, <2>2 DEF Line, InLine
  <2> QED
    BY <1>1, <1>4, <2>1, <2>2
<1>8. dpc # "done" /\ rpc # "done" =>
        \A i \in 1..Len(dataCh') : dataCh'[i] = AtClient + Len(body') + i
  BY <1>1, <1>3, <1>4, <1>6 DEF Line, InLine
<1>9. Len(body') + Len(dataCh') = Len(body) + Len(dataCh)
  BY <1>1, <1>3, <1>4
<1>10. InLine'
  BY <1>1, <1>2, <1>3, <1>4, <1>6, <1>7, <1>8, <1>9 DEF Line, DownTypes, InLine
<1>11. StartOnce'
  BY <1>2 DEF Line, StartOnce
<1> QED
  BY <1>5, <1>10, <1>11 DEF Line

\* Every step keeps the line.
LEMMA LineStep == Line /\ [Next]_vars => Line'
<1> SUFFICES ASSUME Line, [Next]_vars PROVE Line'
  OBVIOUS
<1> USE DEF handlerVars, writeVars, readVars, closeVars, postVars, tableVars, pumpVars,
        downVars, failVars, lineVars
<1>1. CASE DownloadReturns
  BY <1>1, Line_DownloadReturns
<1>2. CASE ReadChecks
  BY <1>2, Line_ReadChecks
<1>3. CASE ReadChunk
  BY <1>3, Line_ReadChunk
<1>4. CASE ReadEnds
  BY <1>4, Line_ReadEnds
<1>5. CASE ReadSends
  BY <1>5, Line_ReadSends
<1>6. CASE CopyDown
  BY <1>6, Line_CopyDown
<1>7. CASE CopyEnds
  BY <1>7, Line_CopyEnds
<1>8. CASE ServeConnect
  BY <1>8, Line_ServeConnect
<1>9. CASE TargetSends
  BY <1>9, Line_TargetSends
<1>10. CASE PutData
  BY <1>10, Line_PutData
<1>11. CASE PumpCloses
  BY <1>11, Line_PumpCloses
<1>12. CASE PumpUnregisters
  BY <1>12, Line_PumpUnregisters
<1>13. CASE SendBody
  BY <1>13, Line_SendBody
<1>14. CASE ConnectReturns
  BY <1>14, LineSame DEF ConnectReturns
<1>15. CASE ConnectFails
  BY <1>15, LineSame DEF ConnectFails
<1>16. CASE Download
  BY <1>16, LineSame DEF Download
<1>17. CASE DownloadFails
  BY <1>17, LineSame DEF DownloadFails, GiveUp
<1>18. CASE HandlerCloses
  BY <1>18, LineSame DEF HandlerCloses
<1>19. CASE HandlerReturns
  BY <1>19, LineSame DEF HandlerReturns
<1>20. CASE CloseFires
  BY <1>20, LineSame DEF CloseFires
<1>21. CASE CloseFired
  BY <1>21, LineSame DEF CloseFired
<1>22. CASE AppSends
  BY <1>22, LineSame DEF AppSends
<1>23. CASE WriteOffers
  BY <1>23, LineSame DEF WriteOffers
<1>24. CASE WriteReturns
  BY <1>24, LineSame DEF WriteReturns
<1>25. CASE PumpTakes
  BY <1>25, LineSame DEF PumpTakes
<1>26. CASE PumpFlushes
  BY <1>26, LineSame DEF PumpFlushes
<1>27. CASE PumpFires
  BY <1>27, LineSame DEF PumpFires
<1>28. CASE PumpAcks
  BY <1>28, LineSame DEF PumpAcks
<1>29. CASE PumpFails
  BY <1>29, LineSame DEF PumpFails
<1>30. CASE ServeDownload
  BY <1>30, LineSame DEF ServeDownload
<1>31. CASE EndBody
  BY <1>31, LineSame DEF EndBody
<1>32. CASE BodyFails
  BY <1>32, LineSame DEF BodyFails
<1>33. ASSUME NEW p \in Posts, Request(p) \/ PostFails(p) PROVE Line'
  <2>1. CASE Lookup(p)
    BY <2>1, LineSame DEF Lookup
  <2>2. CASE DispatchData(p)
    BY <2>2, LineSame DEF DispatchData
  <2>3. CASE DispatchClose
    BY <2>3, LineSame DEF DispatchClose
  <2>4. CASE PostReturns(p)
    BY <2>4, LineSame DEF PostReturns
  <2>5. CASE PostFails(p)
    BY <2>5, LineSame DEF PostFails
  <2> QED
    BY <1>33, <2>1, <2>2, <2>3, <2>4, <2>5 DEF Request
<1>34. CASE UNCHANGED vars
  BY <1>34, LineSame DEF vars
<1>35. CASE TargetStalls
  BY <1>35, LineSame DEF TargetStalls
<1> QED
  BY <1>1, <1>2, <1>3, <1>4, <1>5, <1>6, <1>7, <1>8, <1>9, <1>10, <1>11, <1>12, <1>13,
     <1>14, <1>15, <1>16, <1>17, <1>18, <1>19, <1>20, <1>21, <1>22, <1>23, <1>24, <1>25,
     <1>26, <1>27, <1>28, <1>29, <1>30, <1>31, <1>32, <1>33, <1>34, <1>35
     DEF Next, Handler, Closing, Writing, PumpWrite, PumpRead, CopyDownward, ServerDownload,
         TargetPump

\* The line is an invariant of the connection: it is what makes the prefix
\* property inductive.
THEOREM LineInvariant == Spec => []Line
<1>1. Init => Line
  BY LineInit
<1>2. Line /\ [Next]_vars => Line'
  BY LineStep
<1> QED
  BY <1>1, <1>2, PTL DEF Spec

\* What the application has read is a prefix of what the target sent, for any
\* number of chunks and any capacities of dataCh and readCh.
THEOREM DownloadInOrder == Spec => []DownloadIsPrefix
<1>1. Line => DownloadIsPrefix
  BY DEF Line, InLine, DownloadIsPrefix
<1> QED
  BY <1>1, LineInvariant, PTL

-----------------------------------------------------------------------------
\* A connection in the server's table has a goroutine that will take it out.
THEOREM TableHasPumps == Spec => []EntryHasPump
<1>1. Init => EntryHasPump
  BY DEF Init, EntryHasPump
<1>2. EntryHasPump /\ [Next]_vars => EntryHasPump'
  <2> SUFFICES ASSUME EntryHasPump, [Next]_vars PROVE EntryHasPump'
    OBVIOUS
  <2> USE DEF EntryHasPump, tableVars, pumpVars
  <2>1. CASE ConnectReturns \/ ConnectFails \/ Download \/ DownloadReturns \/ DownloadFails
            \/ HandlerCloses \/ HandlerReturns
    BY <2>1 DEF ConnectReturns, ConnectFails, Download, DownloadReturns, DownloadFails,
       HandlerCloses, HandlerReturns
  <2>2. CASE CloseFires \/ CloseFired \/ AppSends \/ WriteOffers \/ WriteReturns \/
            PumpTakes \/ PumpFlushes \/ PumpFires \/ PumpAcks \/ PumpFails
    BY <2>2 DEF CloseFires, CloseFired, AppSends, WriteOffers, WriteReturns, PumpTakes,
       PumpFlushes, PumpFires, PumpAcks, PumpFails
  <2>3. CASE ReadChecks \/ ReadChunk \/ ReadEnds \/ ReadSends \/ CopyDown \/ CopyEnds \/
            ServeDownload \/ SendBody \/ EndBody \/ BodyFails
    BY <2>3 DEF ReadChecks, ReadChunk, ReadEnds, ReadSends, CopyDown, CopyEnds,
       ServeDownload, SendBody, EndBody, BodyFails
  <2>4. CASE ServeConnect
    BY <2>4 DEF ServeConnect
  <2>5. CASE TargetSends
    BY <2>5 DEF TargetSends
  <2>6. CASE PutData
    BY <2>6 DEF PutData
  <2>7. CASE PumpCloses
    BY <2>7 DEF PumpCloses
  <2>8. CASE PumpUnregisters
    BY <2>8 DEF PumpUnregisters
  <2>9. ASSUME NEW p \in Posts, Request(p) \/ PostFails(p) PROVE EntryHasPump'
    BY <2>9 DEF Request, Lookup, DispatchData, DispatchClose, PostReturns, PostFails
  <2>10. CASE UNCHANGED vars
    BY <2>10 DEF vars
  <2>11. CASE TargetStalls
    BY <2>11 DEF TargetStalls
  <2> QED
    BY <2>1, <2>2, <2>3, <2>4, <2>5, <2>6, <2>7, <2>8, <2>9, <2>10, <2>11
       DEF Next, Handler, Closing, Writing, PumpWrite, PumpRead, CopyDownward,
           ServerDownload, TargetPump
<1> QED
  BY <1>1, <1>2, PTL DEF Spec
-----------------------------------------------------------------------------
(***************************************************************************)
(* Why an end of file is not early. It starts at the target and comes down *)
(* the line: the goroutine that reads the target closes dataCh, the server *)
(* ends the body when dataCh is empty, pumpRead closes readCh when the     *)
(* body is. Anything else that ends a place is a failure, or is our own    *)
(* Close, and then closeCh is closed before pumpRead can close readCh.     *)
(***************************************************************************)
Early == {"connect", "connected", "download"}
SentClose == srv[CloseP] # "none"

UploadTypes ==
    /\ wr \in 0..MaxUp /\ batch \in 0..MaxUp /\ writeCh \in Seq(0..MaxUp)
    /\ remote \in BOOLEAN /\ targetFailed \in BOOLEAN
    /\ srv \in [Posts -> {"none", "sent", "found", "applied", "lost"}]

\* Close is the only way our own side ends a download.
OwnClose ==
    /\ hpc \in Early => ~closed /\ ~bodyFailed /\ cpc = "no" /\ rpc = "off"
    /\ readerClosed => closed
    /\ SentClose => cpc \in {"post", "done"}
    /\ cpc # "no" => closed \/ rpc = "off"
    /\ hpc = "run" \/ wpc # "off" => rpc # "off"
    /\ rpc \in {"check", "read", "send"} => hpc = "run" \/ closed

\* Why the goroutine that reads the target, and the body, have ended.
Reasons ==
    /\ cst = "sent" => spc = "off" /\ ~remote
    /\ dataDone => spc \in {"unregister", "done"}
    /\ spc \in {"read", "put"} /\ ~remote => targetFailed \/ SentClose
    /\ spc \in {"end", "unregister", "done"} => tclosed \/ targetFailed \/ SentClose
    /\ gst = "done" /\ hpc \in {"download", "run"} =>
          (dataDone /\ dataCh = <<>>) \/ closed \/ bodyFailed

\* What a closed readCh, and then the end of file, mean.
Complete ==
    /\ readDone => rpc = "done"
    /\ eof => readDone /\ dpc = "done"
    /\ readDone /\ ~bodyFailed /\ ~targetFailed =>
          /\ tclosed /\ spc \in {"unregister", "done"}
          /\ dpc # "done" => tsent = Len(got) + Len(readCh)
          /\ eof => tsent = Len(got)

Ends == UploadTypes /\ OwnClose /\ Reasons /\ Complete

\* The invariant at the start.
LEMMA EndsInit == Init => Ends
<1> SUFFICES ASSUME Init PROVE Ends
  OBVIOUS
<1>1. CloseP \in Posts
  BY DpiConnAssumption DEF CloseP, Posts
<1>2. UploadTypes
  <2>1. 0 \in 0..MaxUp /\ <<>> \in Seq(0..MaxUp)
    BY DpiConnAssumption
  <2>2. srv \in [Posts -> {"none", "sent", "found", "applied", "lost"}]
    BY DEF Init
  <2>3. remote \in BOOLEAN /\ targetFailed \in BOOLEAN
    BY DEF Init
  <2> QED
    BY <2>1, <2>2, <2>3 DEF Init, UploadTypes, Nothing
<1>3. OwnClose /\ Reasons
  BY <1>1 DEF Init, OwnClose, Reasons, Early, SentClose
<1>4. Complete
  BY DEF Init, Complete
<1> QED
  BY <1>2, <1>3, <1>4 DEF Ends

\* Every step keeps it, where the line of the download holds.
LEMMA EndsStep == Line /\ Ends /\ [Next]_vars => Ends'
<1> SUFFICES ASSUME Line, Ends, [Next]_vars PROVE Ends'
  OBVIOUS
<1> USE DpiConnAssumption
    DEF handlerVars, writeVars, readVars, closeVars, postVars, tableVars, pumpVars, downVars,
        failVars, Early, SentClose, Nothing
<1>c. CloseP \in Posts /\ CloseP \notin 0..MaxUp
  BY DEF CloseP, Posts
<1>1. CASE ConnectReturns
  BY <1>c, <1>1 DEF Ends, UploadTypes, OwnClose, Reasons, Complete, ConnectReturns
<1>2. CASE ConnectFails
  BY <1>c, <1>2 DEF Ends, UploadTypes, OwnClose, Reasons, Complete, ConnectFails, Fails
<1>3. CASE Download
  BY <1>c, <1>3 DEF Ends, UploadTypes, OwnClose, Reasons, Complete, Download
<1>4. CASE DownloadReturns
  BY <1>c, <1>4 DEF Ends, UploadTypes, OwnClose, Reasons, Complete, DownloadReturns
<1>5. CASE DownloadFails
  BY <1>c, <1>5 DEF Ends, UploadTypes, OwnClose, Reasons, Complete, DownloadFails, GiveUp, Fails
<1>6. CASE HandlerCloses
  BY <1>c, <1>6 DEF Ends, UploadTypes, OwnClose, Reasons, Complete, HandlerCloses
<1>7. CASE HandlerReturns
  BY <1>c, <1>7 DEF Ends, UploadTypes, OwnClose, Reasons, Complete, HandlerReturns
<1>8. CASE CloseFires
  BY <1>c, <1>8 DEF Ends, UploadTypes, OwnClose, Reasons, Complete, CloseFires, Fire
<1>9. CASE CloseFired
  BY <1>c, <1>9 DEF Ends, UploadTypes, OwnClose, Reasons, Complete, CloseFired
<1>10. CASE AppSends
  BY <1>c, <1>10 DEF Ends, UploadTypes, OwnClose, Reasons, Complete, AppSends
<1>11. CASE WriteOffers
  <2>1. UploadTypes'
    <3>1. wr \in 0..MaxUp /\ writeCh \in Seq(0..MaxUp)
      BY DEF Ends, UploadTypes
    <3>2. Append(writeCh, wr) \in Seq(0..MaxUp)
      BY <3>1
    <3> QED
      BY <1>11, <3>2 DEF Ends, UploadTypes, WriteOffers
  <2>2. OwnClose'
    BY <1>c, <1>11 DEF Ends, UploadTypes, OwnClose, WriteOffers
  <2>3. Reasons'
    BY <1>c, <1>11 DEF Ends, UploadTypes, OwnClose, Reasons, WriteOffers
  <2>4. Complete'
    BY <1>c, <1>11 DEF Ends, Reasons, OwnClose, Complete, WriteOffers
  <2> QED
    BY <2>1, <2>2, <2>3, <2>4 DEF Ends
<1>12. CASE WriteReturns
  BY <1>c, <1>12 DEF Ends, UploadTypes, OwnClose, Reasons, Complete, WriteReturns
<1>13. CASE PumpTakes
  BY <1>c, <1>13 DEF Ends, UploadTypes, OwnClose, Reasons, Complete, PumpTakes
<1>14. CASE PumpFlushes
  BY <1>c, <1>14 DEF Ends, UploadTypes, OwnClose, Reasons, Complete, PumpFlushes
<1>15. CASE PumpFires
  BY <1>c, <1>15 DEF Ends, UploadTypes, OwnClose, Reasons, Complete, PumpFires, Fire
<1>16. CASE PumpAcks
  BY <1>c, <1>16 DEF Ends, UploadTypes, OwnClose, Reasons, Complete, PumpAcks
<1>17. CASE PumpFails
  BY <1>c, <1>17 DEF Ends, UploadTypes, OwnClose, Reasons, Complete, PumpFails
<1>18. CASE ReadChecks
  BY <1>c, <1>18 DEF Ends, UploadTypes, OwnClose, Reasons, Complete, ReadChecks
<1>19. CASE ReadChunk
  BY <1>c, <1>19 DEF Ends, UploadTypes, OwnClose, Reasons, Complete, ReadChunk
<1>20. CASE ReadEnds
  <2>1. UploadTypes'
    BY <1>c, <1>20 DEF Ends, UploadTypes, ReadEnds
  <2>2. OwnClose'
    BY <1>c, <1>20 DEF Ends, UploadTypes, OwnClose, ReadEnds
  <2>3. Reasons'
    BY <1>c, <1>20 DEF Ends, UploadTypes, OwnClose, Reasons, ReadEnds
  <2>4. Complete'
    <3>1. CASE closed \/ bodyFailed
      BY <1>20, <3>1 DEF Ends, Complete, ReadEnds
    <3>2. CASE ~closed /\ ~bodyFailed /\ ~targetFailed
      <4>1. hpc = "run" /\ ~readerClosed /\ ~SentClose /\ gst = "done" /\ body = <<>>
        BY <1>20, <3>2 DEF Ends, OwnClose, ReadEnds
      <4>2. /\ dataDone /\ dataCh = <<>>
            /\ tclosed /\ spc \in {"unregister", "done"} /\ AtPut = 0
        BY <3>2, <4>1 DEF Ends, Reasons, AtPut
      <4>3. dpc # "done" => tsent = Len(got) + Len(readCh)
        <5>1. InHand = 0 /\ rpc # "done"
          BY <1>20 DEF ReadEnds, InHand
        <5> QED
          BY <4>1, <4>2, <5>1 DEF Line, DownTypes, InLine, AtClient
      <4>4. ~eof
        BY <1>20 DEF Ends, Complete, ReadEnds
      <4> QED
        BY <1>20, <4>2, <4>3, <4>4 DEF Ends, Complete, ReadEnds
    <3>3. CASE targetFailed /\ ~closed
      BY <1>20, <3>3 DEF Ends, Complete, ReadEnds
    <3> QED
      BY <3>1, <3>2, <3>3 DEF Ends, UploadTypes
  <2> QED
    BY <2>1, <2>2, <2>3, <2>4 DEF Ends
<1>21. CASE ReadSends
  BY <1>c, <1>21 DEF Ends, UploadTypes, OwnClose, Reasons, Complete, ReadSends
<1>22. CASE CopyDown
  <2>1. UploadTypes'
    BY <1>c, <1>22 DEF Ends, UploadTypes, CopyDown
  <2>2. OwnClose'
    BY <1>c, <1>22 DEF Ends, UploadTypes, OwnClose, CopyDown
  <2>3. Reasons'
    BY <1>c, <1>22 DEF Ends, UploadTypes, OwnClose, Reasons, CopyDown
  <2>4. Complete'
    <3>1. Len(readCh) = Len(Tail(readCh)) + 1 /\ Head(readCh) \in Nat
      BY <1>22, SeqTail DEF Line, DownTypes, CopyDown
    <3>2. Len(Append(got, Head(readCh))) = Len(got) + 1
      BY <3>1, SeqAppend DEF Line, DownTypes
    <3>3. Len(got) \in Nat /\ Len(Tail(readCh)) \in Nat
      BY <1>22, SeqTail DEF Line, DownTypes, CopyDown
    <3>4. ~eof
      BY <1>22 DEF Ends, Complete, CopyDown
    <3>5. dpc' # "done" => Len(got') + Len(readCh') = Len(got) + Len(readCh)
      BY <1>22, <3>1, <3>2, <3>3 DEF CopyDown
    <3> QED
      BY <1>22, <3>4, <3>5 DEF Ends, Complete, CopyDown
  <2> QED
    BY <2>1, <2>2, <2>3, <2>4 DEF Ends
<1>23. CASE CopyEnds
  BY <1>c, <1>23 DEF Ends, UploadTypes, OwnClose, Reasons, Complete, CopyEnds
<1>24. CASE ServeConnect
  BY <1>c, <1>24 DEF Ends, UploadTypes, OwnClose, Reasons, Complete, ServeConnect
<1>25. CASE TargetSends
  BY <1>c, <1>25 DEF Ends, UploadTypes, OwnClose, Reasons, Complete, TargetSends
<1>26. CASE PutData
  BY <1>c, <1>26 DEF Ends, UploadTypes, OwnClose, Reasons, Complete, PutData
<1>27. CASE PumpCloses
  BY <1>c, <1>27 DEF Ends, UploadTypes, OwnClose, Reasons, Complete, PumpCloses
<1>28. CASE PumpUnregisters
  BY <1>c, <1>28 DEF Ends, UploadTypes, OwnClose, Reasons, Complete, PumpUnregisters
<1>29. CASE ServeDownload
  BY <1>c, <1>29 DEF Ends, UploadTypes, OwnClose, Reasons, Complete, ServeDownload
<1>30. CASE SendBody
  BY <1>c, <1>30 DEF Ends, UploadTypes, OwnClose, Reasons, Complete, SendBody
<1>31. CASE EndBody
  BY <1>c, <1>31 DEF Ends, UploadTypes, OwnClose, Reasons, Complete, EndBody
<1>32. CASE BodyFails
  BY <1>c, <1>32 DEF Ends, UploadTypes, OwnClose, Reasons, Complete, BodyFails, Fails
<1>33. ASSUME NEW p \in Posts, Request(p) \/ PostFails(p) PROVE Ends'
  <2>1. CASE Lookup(p)
    BY <1>c, <2>1 DEF Ends, UploadTypes, OwnClose, Reasons, Complete, Lookup, Fails
  <2>2. CASE DispatchData(p)
    <3>1. UploadTypes'
      BY <1>c, <2>2 DEF Ends, UploadTypes, DispatchData, Fails
    <3>2. OwnClose'
      BY <1>c, <2>2 DEF Ends, UploadTypes, OwnClose, DispatchData, Fails
    <3>3. Reasons'
      <4>1. SentClose' = SentClose
        BY <1>c, <2>2 DEF Ends, UploadTypes, DispatchData
      <4>2. targetFailed => targetFailed'
        BY <2>2 DEF Ends, UploadTypes, DispatchData
      <4>3. ~remote' => ~remote \/ targetFailed'
        BY <2>2 DEF Ends, UploadTypes, DispatchData
      <4>4. cst' = "sent" => ~remote'
        BY <2>2 DEF Ends, Reasons, DispatchData
      <4> QED
        BY <2>2, <4>1, <4>2, <4>3, <4>4 DEF Ends, Reasons, DispatchData
    <3>4. Complete'
      <4>1. targetFailed => targetFailed'
        BY <2>2 DEF Ends, UploadTypes, DispatchData
      <4> QED
        BY <2>2, <4>1 DEF Ends, Complete, DispatchData
    <3> QED
      BY <3>1, <3>2, <3>3, <3>4 DEF Ends
  <2>3. CASE p = CloseP /\ DispatchClose
    BY <1>c, <2>3 DEF Ends, UploadTypes, OwnClose, Reasons, Complete, DispatchClose, Fails
  <2>4. CASE PostReturns(p)
    BY <1>c, <2>4 DEF Ends, UploadTypes, OwnClose, Reasons, Complete, PostReturns, Fails
  <2>5. CASE PostFails(p)
    BY <1>c, <2>5 DEF Ends, UploadTypes, OwnClose, Reasons, Complete, PostFails, Fails
  <2> QED
    BY <1>33, <2>1, <2>2, <2>3, <2>4, <2>5 DEF Request
<1>34. CASE UNCHANGED vars
  BY <1>34 DEF vars, Ends, UploadTypes, OwnClose, Reasons, Complete
<1>35. CASE TargetStalls
  BY <1>c, <1>35 DEF Ends, UploadTypes, OwnClose, Reasons, Complete, TargetStalls
<1> QED
  BY <1>1, <1>2, <1>3, <1>4, <1>5, <1>6, <1>7, <1>8, <1>9, <1>10, <1>11, <1>12, <1>13,
     <1>14, <1>15, <1>16, <1>17, <1>18, <1>19, <1>20, <1>21, <1>22, <1>23, <1>24, <1>25,
     <1>26, <1>27, <1>28, <1>29, <1>30, <1>31, <1>32, <1>33, <1>34, <1>35
     DEF Next, Handler, Closing, Writing, PumpWrite, PumpRead, CopyDownward, ServerDownload,
         TargetPump

\* The end of file is not early: unless the body or a write to the target has
\* failed, it comes when the target has closed and after all it sent.
THEOREM EofIsLast == Spec => []EofMeansAll
<1>1. Init => Ends
  BY EndsInit
<1>2. Line /\ Ends /\ [Next]_vars => Ends'
  BY EndsStep
<1>3. Ends => EofMeansAll
  BY DEF Ends, Complete, EofMeansAll
<1> QED
  BY <1>1, <1>2, <1>3, LineInvariant, PTL DEF Spec
=============================================================================
