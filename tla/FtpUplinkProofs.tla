-------------------------- MODULE FtpUplinkProofs --------------------------
(***************************************************************************)
(* Theorems about FtpUplink for any number of frames, channels and         *)
(* failures.                                                               *)
(*   - Batches: every frame is in one place of the client, the batcher's   *)
(*     queue or the load of one sendFrames.                                *)
(*   - Delivery: every batch that was written is in one place of the way   *)
(*     to the target.                                                      *)
(*   - Few, Kept: what one reconnect can do to the channels of the index,  *)
(*     and that it loses no batch written to one that works.               *)
(***************************************************************************)
EXTENDS FtpUplink, FiniteSetTheorems, SequenceTheorems, TLAPS

TypeOK ==
    /\ made \in 0..MaxData /\ rpc \in {"read", "signal", "done"}
    /\ q \in Seq(Data)
    /\ load \in [Frames -> Seq(Frames)]
    /\ spc \in [Frames -> {"none", "go", "write", "retry", "rewrite", "sent", "dropped"}]
    /\ pick \in [Frames -> Chans \cup {None}]
    /\ \A s \in Frames : spc[s] \notin {"none", "go"} => pick[s] \in Chans
    /\ uploads \in Chans /\ reconns \in Nat /\ fresh \subseteq Chans
    /\ cli \in [Chans -> {"none", "open", "closed"}]
    /\ srv \in [Chans -> {"none", "dialed", "bound", "closed"}]
    /\ broken \subseteq Chans /\ wire \in [Chans -> Seq(Seq(Frames))]
    /\ inbox \in [Chans -> Seq(Frames)] /\ sup \in Chans \cup {None}
    /\ target \in Seq(Data) /\ processed \subseteq Frames

In(x, seq) == \E i \in 1..Len(seq) : seq[i] = x
Distinct(seq) == \A i, j \in 1..Len(seq) : seq[i] = seq[j] => i = j

\* Frames the pipe has made, Open and Close included.
Made(f) == f = OpenF \/ (f \in Data /\ f <= made) \/ (f = CloseF /\ rpc = "done")

\* A frame is in the queue of the batcher or in the load of one goroutine, which
\* goes by its first frame.
Batches ==
    /\ \A s \in Frames : spc[s] = "none" <=> load[s] = <<>>
    /\ \A s \in Frames : load[s] # <<>> => load[s][1] = s
    /\ \A s \in Frames : Distinct(load[s]) /\ \A f \in Frames : In(f, load[s]) => Made(f)
    /\ \A s, t \in Frames, f \in Frames : In(f, load[s]) /\ In(f, load[t]) => s = t
    /\ Distinct(q)
    /\ \A f \in Frames : In(f, q) => f \in Data /\ f <= made /\ \A s \in Frames : ~In(f, load[s])

------------------------------------------------------------------------------
(* Sequences *)

LEMMA TypesOfConstants ==
    /\ Data \subseteq Frames /\ OpenF \in Frames /\ CloseF \in Frames
    /\ OpenF \notin Data /\ CloseF \notin Data /\ OpenF # CloseF
    /\ None \notin Chans /\ 1 \in Chans
    /\ Frames \subseteq Nat
    /\ \A f \in Frames : f \in Data \/ f = OpenF \/ f = CloseF
BY UplinkAssumption DEF Data, Frames, OpenF, CloseF, None, Chans

LEMMA DataAreFrames == Seq(Data) \subseteq Seq(Frames)
<1>1. SUFFICES ASSUME NEW seq \in Seq(Data)
               PROVE  seq \in Seq(Frames)
  OBVIOUS
<1>2. \A i \in 1..Len(seq) : seq[i] \in Data
  BY <1>1
<1>3. Len(seq) \in Nat /\ seq = [i \in 1..Len(seq) |-> seq[i]]
  OBVIOUS
<1>4. Data \subseteq Frames
  BY TypesOfConstants
<1> QED
  BY <1>2, <1>3, <1>4

LEMMA InEmpty ==
    ASSUME NEW x
    PROVE  ~In(x, <<>>)
BY DEF In

LEMMA InSingle ==
    ASSUME NEW x
    PROVE  (\A y : In(y, <<x>>) <=> y = x) /\ Distinct(<<x>>)
BY DEF In, Distinct

LEMMA InAppend ==
    ASSUME NEW S, NEW seq \in Seq(S), NEW x \in S
    PROVE  /\ \A y : In(y, Append(seq, x)) <=> In(y, seq) \/ y = x
           /\ Distinct(seq) /\ ~In(x, seq) => Distinct(Append(seq, x))
<1>1. /\ Len(Append(seq, x)) = Len(seq) + 1 /\ Len(seq) \in Nat
      /\ \A i \in 1..Len(seq) : Append(seq, x)[i] = seq[i]
      /\ Append(seq, x)[Len(seq) + 1] = x
  OBVIOUS
<1>2. \A i \in 1..(Len(seq) + 1) : i \in 1..Len(seq) \/ i = Len(seq) + 1
  BY <1>1
<1>3. \A i \in 1..Len(seq) : i \in 1..(Len(seq) + 1)
  BY <1>1
<1>4. Len(seq) + 1 \in 1..(Len(seq) + 1)
  BY <1>1
<1>5. \A y : In(y, Append(seq, x)) <=> In(y, seq) \/ y = x
  BY <1>1, <1>2, <1>3, <1>4 DEF In
<1>6. Distinct(seq) /\ ~In(x, seq) => Distinct(Append(seq, x))
  BY <1>1, <1>2 DEF In, Distinct
<1> QED
  BY <1>5, <1>6

LEMMA InTail ==
    ASSUME NEW S, NEW seq \in Seq(S), seq # <<>>
    PROVE  /\ Head(seq) \in S /\ In(Head(seq), seq) /\ Tail(seq) \in Seq(S)
           /\ \A y : In(y, Tail(seq)) => In(y, seq)
           /\ \A y : In(y, seq) => y = Head(seq) \/ In(y, Tail(seq))
           /\ Distinct(seq) => Distinct(Tail(seq)) /\ ~In(Head(seq), Tail(seq))
<1>1. /\ Len(seq) \in Nat /\ Len(seq) > 0 /\ Head(seq) = seq[1] /\ Head(seq) \in S
      /\ Tail(seq) \in Seq(S) /\ Len(Tail(seq)) = Len(seq) - 1
      /\ \A i \in 1..(Len(seq) - 1) : Tail(seq)[i] = seq[i + 1]
  BY HeadTailProperties, EmptySeq
<1>2. \A i \in 1..(Len(seq) - 1) : i + 1 \in 1..Len(seq) /\ i + 1 # 1
  BY <1>1
<1>3. \A i \in 1..Len(seq) : i = 1 \/ (i - 1 \in 1..(Len(seq) - 1) /\ (i - 1) + 1 = i)
  BY <1>1
<1>4. 1 \in 1..Len(seq)
  BY <1>1
<1>5. \A y : In(y, Tail(seq)) => In(y, seq)
  BY <1>1, <1>2 DEF In
<1>6. \A y : In(y, seq) => y = Head(seq) \/ In(y, Tail(seq))
  BY <1>1, <1>3 DEF In
<1>7. In(Head(seq), seq)
  BY <1>1, <1>4 DEF In
<1>8. Distinct(seq) => ~In(Head(seq), Tail(seq))
  BY <1>1, <1>2, <1>4 DEF In, Distinct
<1>9. Distinct(seq) => Distinct(Tail(seq))
  <2>1. SUFFICES ASSUME Distinct(seq), NEW i \in 1..(Len(seq) - 1), NEW j \in 1..(Len(seq) - 1),
                        Tail(seq)[i] = Tail(seq)[j]
                 PROVE  i = j
    BY <1>1 DEF Distinct
  <2>2. i + 1 = j + 1
    BY <1>1, <1>2, <2>1 DEF Distinct
  <2> QED
    BY <1>1, <2>2
<1> QED
  BY <1>1, <1>5, <1>6, <1>7, <1>8, <1>9

LEMMA InPrefix ==
    ASSUME NEW S, NEW seq \in Seq(S), NEW k \in 0..Len(seq)
    PROVE  /\ SubSeq(seq, 1, k) \in Seq(S)
           /\ \A y : In(y, SubSeq(seq, 1, k)) => In(y, seq)
           /\ Distinct(seq) => Distinct(SubSeq(seq, 1, k))
<1>1. \A i \in 1..k : i \in 1..Len(seq) /\ seq[i] \in S
  OBVIOUS
<1>2. /\ SubSeq(seq, 1, k) \in Seq(S) /\ Len(SubSeq(seq, 1, k)) = k
      /\ \A i \in 1..k : SubSeq(seq, 1, k)[i] = seq[i]
  BY <1>1, SubSeqProperties
<1> QED
  BY <1>1, <1>2 DEF In, Distinct

------------------------------------------------------------------------------
(* The pipe and the batcher *)

Pipe == ReadFirst \/ ReadNext \/ Signal \/ ReadEOF \/ Batcher

LEMMA SpawnType ==
    ASSUME TypeOK, NEW fs \in Seq(Frames), fs # <<>>, Spawn(fs)
    PROVE  /\ Head(fs) \in Frames
           /\ load' \in [Frames -> Seq(Frames)] /\ load'[Head(fs)] = fs
           /\ spc' \in [Frames -> {"none", "go", "write", "retry", "rewrite", "sent", "dropped"}]
           /\ spc'[Head(fs)] = "go" /\ pick' = pick
           /\ \A s \in Frames \ {Head(fs)} : load'[s] = load[s] /\ spc'[s] = spc[s]
<1>1. Head(fs) \in Frames
  OBVIOUS
<1> QED
  BY <1>1 DEF Spawn, TypeOK

LEMMA PipeType ==
    ASSUME TypeOK, Pipe
    PROVE  TypeOK'
<1> USE UplinkAssumption, TypesOfConstants
        DEF pipeVars, batcherVars, senderVars, clientVars, serverVars, netVars, flowVars
<1>1. CASE ReadFirst
  <2>1. <<1>> \in Seq(Frames) /\ <<1>> # <<>> /\ made' \in 0..MaxData
    BY <1>1 DEF ReadFirst, Frames, TypeOK
  <2> QED
    BY <1>1, <2>1, SpawnType DEF ReadFirst, TypeOK
<1>2. CASE ReadNext
  <2>1. made + 1 \in Data /\ made' \in 0..MaxData
    BY <1>2 DEF ReadNext, Data, TypeOK
  <2>2. q' \in Seq(Data)
    BY <1>2, <2>1 DEF ReadNext, TypeOK
  <2> QED
    BY <1>2, <2>1, <2>2 DEF ReadNext, TypeOK
<1>3. CASE Signal \/ LoopSignal
  BY <1>3 DEF Signal, LoopSignal, TypeOK
<1>4. CASE ReadEOF
  <2>1. <<CloseF>> \in Seq(Frames) /\ <<CloseF>> # <<>>
    OBVIOUS
  <2> QED
    BY <1>4, <2>1, SpawnType DEF ReadEOF, TypeOK
<1>5. CASE LoopTimer
  <2>1. q \in Seq(Frames) /\ q' \in Seq(Data)
    BY <1>5, DataAreFrames DEF LoopTimer, TypeOK
  <2>2. CASE q = <<>>
    BY <1>5, <2>1, <2>2 DEF LoopTimer, TypeOK
  <2>3. CASE q # <<>>
    BY <1>5, <2>1, <2>3, SpawnType DEF LoopTimer, TypeOK
  <2> QED
    BY <2>2, <2>3
<1> QED
  BY <1>1, <1>2, <1>3, <1>4, <1>5 DEF Pipe, Batcher

\* go sendFrames(fs), of frames that no other goroutine has.
LEMMA SpawnBatches ==
    ASSUME TypeOK, Batches, NEW fs \in Seq(Frames), fs # <<>>, Spawn(fs), Distinct(fs),
           \A f \in Frames : In(f, fs) => Made(f)' /\ \A s \in Frames : ~In(f, load[s]),
           \A f \in Frames : Made(f) => Made(f)',
           Distinct(q'),
           \A f \in Frames : In(f, q') => /\ f \in Data /\ f <= made' /\ ~In(f, fs)
                                          /\ \A s \in Frames : ~In(f, load[s])
    PROVE  Batches' /\ load[Head(fs)] = <<>>
<1> DEFINE h == Head(fs)
<1>1. /\ h \in Frames /\ load'[h] = fs /\ spc'[h] = "go"
      /\ \A s \in Frames \ {h} : load'[s] = load[s] /\ spc'[s] = spc[s]
  BY SpawnType
<1>2. In(h, fs) /\ fs[1] = h
  BY InTail
<1>3. load[h] = <<>>
  <2>1. ~In(h, load[h])
    BY <1>1, <1>2
  <2>2. load[h] \in Seq(Frames) /\ (load[h] # <<>> => load[h][1] = h)
    BY <1>1 DEF TypeOK, Batches
  <2> QED
    BY <2>1, <2>2, InTail
<1> HIDE DEF h
<1>4. (\A s \in Frames : spc[s] = "none" <=> load[s] = <<>>)'
  BY <1>1 DEF Batches
<1>5. (\A s \in Frames : load[s] # <<>> => load[s][1] = s)'
  BY <1>1, <1>2 DEF Batches
<1>6. (\A s \in Frames : Distinct(load[s]) /\ \A f \in Frames : In(f, load[s]) => Made(f))'
  BY <1>1 DEF Batches, Distinct, In
<1>7. (\A s, t \in Frames, f \in Frames : In(f, load[s]) /\ In(f, load[t]) => s = t)'
  BY <1>1 DEF Batches, In
<1>8. (\A f \in Frames : In(f, q) => f \in Data /\ f <= made /\ \A s \in Frames : ~In(f, load[s]))'
  BY <1>1 DEF Batches, In
<1> QED
  BY <1>3, <1>4, <1>5, <1>6, <1>7, <1>8 DEF Batches, Distinct, h

\* A goroutine that is there keeps its load, its place and its channel.
SendersStay ==
    \A s \in Frames : spc[s] # "none" => load'[s] = load[s] /\ spc'[s] = spc[s] /\ pick'[s] = pick[s]

LEMMA PipeBatches ==
    ASSUME TypeOK, Batches, Pipe
    PROVE  Batches' /\ SendersStay
<1> USE UplinkAssumption, TypesOfConstants
        DEF pipeVars, batcherVars, senderVars
<1>1. CASE ReadFirst
  <2>1. /\ <<1>> \in Seq(Frames) /\ <<1>> # <<>> /\ Head(<<1>>) = 1 /\ Spawn(<<1>>) /\ 1 \in Data
        /\ made = 0 /\ made' = 1 /\ rpc' = rpc /\ q' = q
    BY <1>1 DEF ReadFirst, Data
  <2>2. \A f \in Frames : In(f, <<1>>) => Made(f)' /\ \A s \in Frames : ~In(f, load[s])
    <3>1. 1 \in Data /\ 1 # OpenF /\ 1 # CloseF
      BY <2>1
    <3>2. ~Made(1) /\ Made(1)'
      BY <2>1, <3>1 DEF Made
    <3>3. \A s \in Frames : ~In(1, load[s])
      BY <2>1, <3>2 DEF Batches
    <3>4. \A f \in Frames : In(f, <<1>>) => f = 1
      BY InSingle
    <3> QED
      BY <3>2, <3>3, <3>4
  <2>3. \A f \in Frames : Made(f) => Made(f)'
    BY <2>1 DEF Made, Data
  <2>4. \A f \in Frames : ~In(f, q)
    BY <2>1 DEF Batches, Data
  <2>5. Distinct(<<1>>) /\ Distinct(q')
    BY <2>1, InSingle DEF Batches
  <2>6. Batches' /\ load[1] = <<>>
    BY <2>1, <2>2, <2>3, <2>4, <2>5, SpawnBatches
  <2>7. spc[1] = "none"
    BY <2>1, <2>6 DEF Batches
  <2>8. \A s \in Frames \ {1} : load'[s] = load[s] /\ spc'[s] = spc[s]
    BY <2>1, SpawnType
  <2>9. pick' = pick
    BY <2>1 DEF Spawn
  <2> QED
    BY <2>6, <2>7, <2>8, <2>9 DEF SendersStay
<1>2. CASE ReadNext
  <2>1. /\ q \in Seq(Data) /\ made + 1 \in Data /\ made' = made + 1 /\ q' = Append(q, made + 1)
        /\ rpc = "read" /\ rpc' = "signal" /\ UNCHANGED <<load, spc, pick>> /\ made \in Nat
    BY <1>2 DEF ReadNext, TypeOK, Data
  <2>2. \A f \in Frames : Made(f) => Made(f)'
    BY <2>1 DEF Made, Data
  <2>3. \A s \in Frames : ~In(made + 1, load[s])
    <3>1. ~Made(made + 1)
      BY <2>1 DEF Made
    <3> QED
      BY <2>1, <3>1 DEF Batches
  <2>4. ~In(made + 1, q)
    BY <2>1 DEF Batches
  <2>5. Distinct(q')
    BY <2>1, <2>4, InAppend DEF Batches
  <2>6. \A f \in Frames : In(f, q') => f \in Data /\ f <= made' /\ \A s \in Frames : ~In(f, load[s])
    <3>1. \A f \in Frames : In(f, q') => In(f, q) \/ f = made + 1
      BY <2>1, InAppend
    <3> QED
      BY <2>1, <2>3, <3>1 DEF Batches, Data
  <2>7. Batches'
    BY <2>1, <2>2, <2>5, <2>6 DEF Batches
  <2> QED
    BY <2>1, <2>7 DEF SendersStay
<1>3. CASE Signal \/ LoopSignal
  <2>1. UNCHANGED <<made, q, load, spc, pick>> /\ (rpc = "done" => rpc' = "done")
    BY <1>3 DEF Signal, LoopSignal
  <2>2. \A f \in Frames : Made(f) => Made(f)'
    BY <2>1 DEF Made
  <2> QED
    BY <2>1, <2>2 DEF Batches, SendersStay
<1>4. CASE ReadEOF
  <2>1. /\ <<CloseF>> \in Seq(Frames) /\ <<CloseF>> # <<>> /\ Head(<<CloseF>>) = CloseF
        /\ Spawn(<<CloseF>>) /\ rpc = "read" /\ rpc' = "done" /\ made' = made /\ q' = q
    BY <1>4 DEF ReadEOF
  <2>2. \A f \in Frames : Made(f) => Made(f)'
    BY <2>1 DEF Made
  <2>3. \A f \in Frames : In(f, <<CloseF>>) => Made(f)' /\ \A s \in Frames : ~In(f, load[s])
    <3>1. ~Made(CloseF) /\ Made(CloseF)'
      BY <2>1 DEF Made
    <3>3. \A s \in Frames : ~In(CloseF, load[s])
      BY <3>1 DEF Batches
    <3>4. \A f \in Frames : In(f, <<CloseF>>) => f = CloseF
      BY InSingle
    <3> QED
      BY <3>1, <3>3, <3>4
  <2>4. \A f \in Frames : In(f, q') => /\ f \in Data /\ f <= made' /\ ~In(f, <<CloseF>>)
                                       /\ \A s \in Frames : ~In(f, load[s])
    BY <2>1, InSingle DEF Batches
  <2>5. Distinct(<<CloseF>>) /\ Distinct(q')
    BY <2>1, InSingle DEF Batches
  <2>6. Batches' /\ load[CloseF] = <<>>
    BY <2>1, <2>2, <2>3, <2>4, <2>5, SpawnBatches
  <2>7. spc[CloseF] = "none"
    BY <2>1, <2>6 DEF Batches
  <2>8. \A s \in Frames \ {CloseF} : load'[s] = load[s] /\ spc'[s] = spc[s]
    BY <2>1, SpawnType
  <2>9. pick' = pick
    BY <2>1 DEF Spawn
  <2> QED
    BY <2>6, <2>7, <2>8, <2>9 DEF SendersStay
<1>5. CASE LoopTimer
  <2>1. q \in Seq(Frames) /\ q' = <<>> /\ UNCHANGED <<made, rpc>>
    BY <1>5, DataAreFrames DEF LoopTimer, TypeOK
  <2>2. Distinct(<<>>)
    BY DEF Distinct
  <2>3. CASE q = <<>>
    BY <1>5, <2>1, <2>3 DEF LoopTimer, Batches, Made, SendersStay
  <2>4. CASE q # <<>>
    <3>1. Spawn(q)
      BY <1>5, <2>4 DEF LoopTimer
    <3>2. \A f \in Frames : Made(f) <=> Made(f)'
      BY <2>1 DEF Made
    <3>3. \A f \in Frames : In(f, q) => Made(f)' /\ \A s \in Frames : ~In(f, load[s])
      BY <3>2 DEF Batches, Made
    <3>4. Batches' /\ load[Head(q)] = <<>>
      BY <2>1, <2>2, <2>4, <3>1, <3>2, <3>3, InEmpty, SpawnBatches DEF Batches
    <3> QED
      BY <2>1, <2>4, <3>1, <3>4, SpawnType DEF SendersStay, Batches
  <2> QED
    BY <2>3, <2>4
<1> QED
  BY <1>1, <1>2, <1>3, <1>4, <1>5 DEF Pipe, Batcher

\* A frame in the batcher's queue always has the loop's attention coming.
THEOREM QueueWatched == Spec => []QueueIsWatched
<1>1. Init => QueueIsWatched
  BY DEF Init, QueueIsWatched
<1>2. QueueIsWatched /\ [Next]_vars => QueueIsWatched'
  <2> SUFFICES ASSUME QueueIsWatched, [Next]_vars
               PROVE  QueueIsWatched'
    OBVIOUS
  <2> USE DEF QueueIsWatched, pipeVars, batcherVars
  <2>1. CASE ReadFirst \/ ReadNext \/ Signal \/ ReadEOF
    BY <2>1 DEF ReadFirst, ReadNext, Signal, ReadEOF
  <2>2. CASE Batcher
    BY <2>2 DEF Batcher, LoopSignal, LoopTimer
  <2>3. ASSUME NEW s \in Frames, Sender(s)
        PROVE  QueueIsWatched'
    BY <2>3 DEF Sender, PickChannel, WriteOk, WriteError
  <2>4. ASSUME NEW c \in Chans, Dial(c) \/ Install(c) \/ Break(c) \/ Server(c)
        PROVE  QueueIsWatched'
    BY <2>4 DEF Dial, Install, Break, Server, Bind, ReadFrames, ReaderExits, ProcessFrame
  <2>5. CASE DispatchRefusal
    BY <2>5 DEF DispatchRefusal
  <2>6. CASE UNCHANGED vars
    BY <2>6 DEF vars
  <2> QED
    BY <2>1, <2>2, <2>3, <2>4, <2>5, <2>6 DEF Next
<1> QED
  BY <1>1, <1>2, PTL DEF Spec

------------------------------------------------------------------------------
(* The way to the target *)

\* The batch of s was written to channel c; and it is no longer on the way.
Sent(s, c) == spc[s] = "sent" /\ pick[s] = c
Arrived(s, c) == Sent(s, c) /\ ~In(load[s], wire[c])

\* A batch is on the wire of the channel that its goroutine picked last, once; then
\* in the hands of the reader of that channel; then applied, frame by frame.
Delivery ==
    /\ \A c \in Chans : Distinct(wire[c]) /\ Distinct(inbox[c])
    /\ \A c \in Chans : \A i \in 1..Len(wire[c]) : \E s \in Frames : Sent(s, c) /\ load[s] = wire[c][i]
    /\ \A c \in Chans : inbox[c] # <<>> =>
          \E s \in Frames : Arrived(s, c) /\ \A f \in Frames : In(f, inbox[c]) => In(f, load[s])
    /\ \A f \in processed : /\ \E s \in Frames, c \in Chans : Arrived(s, c) /\ In(f, load[s])
                            /\ \A c \in Chans : ~In(f, inbox[c])
    /\ \A f \in Frames : In(f, target) => f \in processed
    /\ Distinct(target)

Inv == TypeOK /\ Batches /\ Delivery

LEMMA InvInit ==
    ASSUME Init
    PROVE  Inv
<1> USE UplinkAssumption, TypesOfConstants DEF Init
<1>1. load \in [Frames -> Seq(Frames)] /\ load[OpenF] = <<OpenF>>
      /\ \A s \in Frames \ {OpenF} : load[s] = <<>>
  OBVIOUS
<1>2. TypeOK
  BY <1>1 DEF TypeOK
<1>3. Batches
  <2>1. \A s \in Frames : spc[s] = "none" <=> load[s] = <<>>
    BY <1>1
  <2>2. \A s \in Frames : load[s] # <<>> => load[s][1] = s
    BY <1>1
  <2>3. \A f \in Frames, s \in Frames : In(f, load[s]) => f = OpenF /\ s = OpenF
    BY <1>1, InSingle, InEmpty
  <2>4. \A s \in Frames : Distinct(load[s])
    BY <1>1, InSingle DEF Distinct
  <2>5. Distinct(q) /\ \A f \in Frames : ~In(f, q)
    BY InEmpty DEF Distinct
  <2> QED
    BY <2>1, <2>2, <2>3, <2>4, <2>5 DEF Batches, Made
<1>4. Delivery
  BY InEmpty DEF Delivery, Distinct
<1> QED
  BY <1>2, <1>3, <1>4 DEF Inv

\* What a step must leave alone for the frames in the client's hands.
LEMMA BatchesKept ==
    ASSUME Batches, UNCHANGED <<made, rpc, q, load>>,
           \A s \in Frames : spc'[s] = "none" <=> spc[s] = "none"
    PROVE  Batches'
<1>1. \A f \in Frames : Made(f)' <=> Made(f)
  BY DEF Made
<1> QED
  BY <1>1 DEF Batches

SentStay == \A s \in Frames : spc[s] = "sent" =>
                load'[s] = load[s] /\ spc'[s] = "sent" /\ pick'[s] = pick[s]

\* A step after which less, or the same, is on the way.
LEMMA DeliveryShrinks ==
    ASSUME Delivery, SentStay, UNCHANGED <<inbox, processed, target>>,
           \A c \in Chans : Distinct(wire'[c]),
           \A c \in Chans : \A b : In(b, wire'[c]) => In(b, wire[c])
    PROVE  Delivery'
<1>1. \A s \in Frames, c \in Chans : Arrived(s, c) => Arrived(s, c)'
  BY DEF Arrived, Sent, SentStay
<1>2. ASSUME NEW c \in Chans, NEW i \in 1..Len(wire'[c])
      PROVE  \E s \in Frames : Sent(s, c)' /\ load'[s] = wire'[c][i]
  <2>1. In(wire'[c][i], wire'[c])
    BY DEF In
  <2>2. PICK j \in 1..Len(wire[c]) : wire[c][j] = wire'[c][i]
    BY <2>1 DEF In
  <2>3. PICK s \in Frames : Sent(s, c) /\ load[s] = wire[c][j]
    BY DEF Delivery
  <2> QED
    BY <2>2, <2>3 DEF Sent, SentStay
<1>3. \A s \in Frames, c \in Chans : Arrived(s, c) => load'[s] = load[s]
  BY DEF Arrived, Sent, SentStay
<1>4. (\A c \in Chans : inbox[c] # <<>> =>
          \E s \in Frames : Arrived(s, c) /\ \A f \in Frames : In(f, inbox[c]) => In(f, load[s]))'
  BY <1>1, <1>3 DEF Delivery
<1>5. (\A f \in processed : /\ \E s \in Frames, c \in Chans : Arrived(s, c) /\ In(f, load[s])
                            /\ \A c \in Chans : ~In(f, inbox[c]))'
  BY <1>1, <1>3 DEF Delivery
<1> QED
  BY <1>2, <1>4, <1>5 DEF Delivery

\* sendFrames, before its write has succeeded.
LEMMA Inv_Unsent ==
    ASSUME Inv, NEW s \in Frames, PickChannel(s) \/ WriteError(s)
    PROVE  Inv'
<1> USE DEF Inv, PickChannel, WriteError, pipeVars, batcherVars, clientVars, serverVars,
            netVars, flowVars
<1>1. TypeOK'
  <2>1. CASE PickChannel(s)
    BY <2>1 DEF TypeOK
  <2>2. CASE WriteError(s)
    <3>1. reconns' \in Nat
      BY <2>2 DEF TypeOK
    <3> QED
      BY <2>2, <3>1 DEF TypeOK
  <2> QED
    BY <2>1, <2>2
<1>2. \A t \in Frames : spc'[t] = "none" <=> spc[t] = "none"
  BY DEF TypeOK
<1>3. SentStay
  BY DEF SentStay, TypeOK
<1> QED
  BY <1>1, <1>2, <1>3, BatchesKept, DeliveryShrinks DEF Delivery

\* The channels of the client, and what the flow's frames are not touched by.
LEMMA Inv_Channels ==
    ASSUME Inv,
           \/ DispatchRefusal
           \/ \E c \in Chans : Dial(c) \/ Install(c) \/ ReaderExits(c)
    PROVE  Inv'
<1> USE DEF Inv, pipeVars, batcherVars, senderVars, clientVars, serverVars, netVars, flowVars
<1>1. CASE DispatchRefusal
  BY <1>1, BatchesKept, DeliveryShrinks DEF DispatchRefusal, TypeOK, SentStay, Delivery
<1>2. ASSUME NEW c \in Chans, Dial(c)
      PROVE  Inv'
  <2>1. TypeOK'
    BY <1>2 DEF Dial, TypeOK
  <2> QED
    BY <1>2, <2>1, BatchesKept, DeliveryShrinks DEF Dial, SentStay, Delivery
<1>3. ASSUME NEW c \in Chans, Install(c)
      PROVE  Inv'
  <2>1. TypeOK'
    BY <1>3 DEF Install, TypeOK
  <2> QED
    BY <1>3, <2>1, BatchesKept, DeliveryShrinks DEF Install, SentStay, Delivery
<1>4. ASSUME NEW c \in Chans, ReaderExits(c)
      PROVE  Inv'
  <2>1. TypeOK'
    BY <1>4 DEF ReaderExits, TypeOK
  <2> QED
    BY <1>4, <2>1, BatchesKept, DeliveryShrinks DEF ReaderExits, SentStay, Delivery
<1> QED
  BY <1>1, <1>2, <1>3, <1>4

\* A failure or a bind cuts what is on the way.
LEMMA Inv_Cut ==
    ASSUME Inv, NEW c \in Chans, Break(c) \/ Bind(c)
    PROVE  Inv'
<1> USE DEF Inv, pipeVars, batcherVars, senderVars, clientVars, serverVars, flowVars
<1>1. CASE Break(c)
  <2>1. PICK k \in 0..Len(wire[c]) : wire' = [wire EXCEPT ![c] = SubSeq(wire[c], 1, k)]
    BY <1>1 DEF Break
  <2>2. wire[c] \in Seq(Seq(Frames)) /\ Distinct(wire[c])
    BY DEF TypeOK, Delivery
  <2>3. /\ SubSeq(wire[c], 1, k) \in Seq(Seq(Frames))
        /\ \A b : In(b, SubSeq(wire[c], 1, k)) => In(b, wire[c])
        /\ Distinct(SubSeq(wire[c], 1, k))
    BY <2>2, InPrefix
  <2>4. /\ wire' \in [Chans -> Seq(Seq(Frames))] /\ wire'[c] = SubSeq(wire[c], 1, k)
        /\ \A d \in Chans \ {c} : wire'[d] = wire[d]
    BY <2>1, <2>3 DEF TypeOK
  <2>5. /\ \A d \in Chans : Distinct(wire'[d])
        /\ \A d \in Chans : \A b : In(b, wire'[d]) => In(b, wire[d])
    BY <2>3, <2>4 DEF Delivery
  <2>6. broken' \subseteq Chans
    BY <1>1 DEF Break, TypeOK
  <2>7. TypeOK'
    BY <1>1, <2>4, <2>6 DEF Break, TypeOK
  <2> QED
    BY <1>1, <2>5, <2>7, BatchesKept, DeliveryShrinks DEF Break, SentStay
<1>2. CASE Bind(c)
  <2>1. /\ wire' \in [Chans -> Seq(Seq(Frames))]
        /\ \A d \in Chans : wire'[d] = wire[d] \/ wire'[d] = <<>>
    BY <1>2 DEF Bind, TypeOK
  <2>2. /\ \A d \in Chans : Distinct(wire'[d])
        /\ \A d \in Chans : \A b : In(b, wire'[d]) => In(b, wire[d])
    <3>1. Distinct(<<>>) /\ \A b : ~In(b, <<>>)
      BY DEF Distinct, In
    <3>2. \A d \in Chans : Distinct(wire[d])
      BY DEF Delivery
    <3> QED
      BY <2>1, <3>1, <3>2
  <2>3. TypeOK'
    BY <1>2, <2>1 DEF Bind, TypeOK
  <2> QED
    BY <1>2, <2>2, <2>3, BatchesKept, DeliveryShrinks DEF Bind, SentStay
<1> QED
  BY <1>1, <1>2

\* The write succeeds; the batch is on the way, or lost with its connection.
LEMMA Inv_WriteOk ==
    ASSUME Inv, NEW s \in Frames, WriteOk(s)
    PROVE  Inv'
<1> USE DEF Inv, pipeVars, batcherVars, clientVars, serverVars, flowVars
<1> DEFINE c == pick[s]
<1>1. /\ spc[s] \in {"write", "rewrite"} /\ spc' = [spc EXCEPT ![s] = "sent"]
      /\ UNCHANGED <<load, pick, broken, pipeVars, batcherVars, clientVars, serverVars, flowVars>>
  BY DEF WriteOk
<1>2. c \in Chans /\ load[s] \in Seq(Frames) /\ wire[c] \in Seq(Seq(Frames)) /\ load[s] # <<>>
  BY <1>1 DEF TypeOK, Batches
<1>3. spc'[s] = "sent" /\ \A t \in Frames \ {s} : spc'[t] = spc[t]
  BY <1>1 DEF TypeOK
<1>4. SentStay /\ \A t \in Frames : spc'[t] = "none" <=> spc[t] = "none"
  BY <1>1, <1>3 DEF SentStay
<1>5. Batches'
  BY <1>1, <1>4, BatchesKept
<1>6. CASE wire' = wire
  <2>1. TypeOK'
    BY <1>1, <1>2, <1>6 DEF TypeOK
  <2> QED
    BY <1>1, <1>4, <1>5, <1>6, <2>1, DeliveryShrinks DEF Delivery
<1>7. CASE wire' = [wire EXCEPT ![c] = Append(wire[c], load[s])]
  <2>1. /\ wire' \in [Chans -> Seq(Seq(Frames))] /\ wire'[c] = Append(wire[c], load[s])
        /\ \A d \in Chans \ {c} : wire'[d] = wire[d]
    BY <1>2, <1>7 DEF TypeOK
  <2>2. TypeOK'
    BY <1>1, <1>2, <2>1 DEF TypeOK
  <2>3. \A t \in Frames : load[t] = load[s] => t = s
    BY <1>2 DEF Batches
  <2>4. ~In(load[s], wire[c])
    <3>1. SUFFICES ASSUME NEW i \in 1..Len(wire[c]), wire[c][i] = load[s]
                   PROVE  FALSE
      BY DEF In
    <3>2. PICK t \in Frames : Sent(t, c) /\ load[t] = wire[c][i]
      BY <1>2 DEF Delivery
    <3> QED
      BY <1>1, <2>3, <3>1, <3>2 DEF Sent
  <2>5. /\ \A b : In(b, wire'[c]) <=> In(b, wire[c]) \/ b = load[s]
        /\ Distinct(wire'[c])
    BY <1>2, <2>1, <2>4, InAppend DEF Delivery
  <2>6. \A t \in Frames, d \in Chans : Arrived(t, d) => Arrived(t, d)' /\ load'[t] = load[t]
    <3>1. SUFFICES ASSUME NEW t \in Frames, NEW d \in Chans, Arrived(t, d)
                   PROVE  Arrived(t, d)'
      BY <1>1
    <3>2. t # s /\ Sent(t, d)'
      BY <1>1, <1>3, <3>1 DEF Arrived, Sent
    <3>3. load[t] # load[s]
      BY <2>3, <3>2
    <3>4. ~In(load[t], wire'[d])
      BY <2>1, <2>5, <3>1, <3>3 DEF Arrived
    <3> QED
      BY <1>1, <3>2, <3>4 DEF Arrived
  <2>7. \A d \in Chans : Distinct(wire'[d]) /\ Distinct(inbox'[d])
    BY <1>1, <2>1, <2>5 DEF Delivery
  <2>8. ASSUME NEW d \in Chans, NEW i \in 1..Len(wire'[d])
        PROVE  \E t \in Frames : Sent(t, d)' /\ load'[t] = wire'[d][i]
    <3>1. CASE d # c
      <4>1. PICK t \in Frames : Sent(t, d) /\ load[t] = wire[d][i]
        BY <2>1, <2>8, <3>1 DEF Delivery
      <4> QED
        BY <1>1, <1>4, <2>1, <3>1, <4>1 DEF Sent, SentStay
    <3>2. CASE d = c /\ wire'[c][i] = load[s]
      BY <1>1, <1>3, <3>2 DEF Sent
    <3>3. CASE d = c /\ wire'[c][i] # load[s]
      <4>1. In(wire'[c][i], wire'[c])
        BY <2>8, <3>3 DEF In
      <4>2. PICK j \in 1..Len(wire[c]) : wire[c][j] = wire'[c][i]
        BY <2>5, <3>3, <4>1 DEF In
      <4>3. PICK t \in Frames : Sent(t, c) /\ load[t] = wire[c][j]
        BY <1>2 DEF Delivery
      <4> QED
        BY <1>1, <1>4, <3>3, <4>2, <4>3 DEF Sent, SentStay
    <3> QED
      BY <3>1, <3>2, <3>3
  <2>9. (\A d \in Chans : inbox[d] # <<>> =>
          \E t \in Frames : Arrived(t, d) /\ \A f \in Frames : In(f, inbox[d]) => In(f, load[t]))'
    BY <1>1, <2>6 DEF Delivery
  <2>10. (\A f \in processed : /\ \E t \in Frames, d \in Chans : Arrived(t, d) /\ In(f, load[t])
                               /\ \A d \in Chans : ~In(f, inbox[d]))'
    BY <1>1, <2>6 DEF Delivery
  <2>11. Delivery'
    BY <1>1, <2>7, <2>8, <2>9, <2>10 DEF Delivery
  <2> QED
    BY <1>5, <2>2, <2>11
<1> QED
  BY <1>6, <1>7 DEF WriteOk

\* A batch comes off the wire, into hands that are empty.
LEMMA Inv_ReadFrames ==
    ASSUME Inv, NEW c \in Chans, ReadFrames(c)
    PROVE  Inv'
<1> USE DEF Inv, pipeVars, batcherVars, senderVars, clientVars, flowVars
<1> DEFINE b == Head(wire[c])
<1>1. /\ inbox[c] = <<>> /\ wire[c] # <<>>
      /\ inbox' = [inbox EXCEPT ![c] = b] /\ wire' = [wire EXCEPT ![c] = Tail(wire[c])]
      /\ UNCHANGED <<srv, sup, broken, pipeVars, batcherVars, senderVars, clientVars, flowVars>>
  BY DEF ReadFrames
<1>2. wire[c] \in Seq(Seq(Frames)) /\ Distinct(wire[c])
  BY DEF TypeOK, Delivery
<1>3. /\ b \in Seq(Frames) /\ In(b, wire[c]) /\ Tail(wire[c]) \in Seq(Seq(Frames))
      /\ \A x : In(x, Tail(wire[c])) => In(x, wire[c])
      /\ Distinct(Tail(wire[c])) /\ ~In(b, Tail(wire[c]))
  BY <1>1, <1>2, InTail
<1>4. /\ wire' \in [Chans -> Seq(Seq(Frames))] /\ wire'[c] = Tail(wire[c])
      /\ inbox' \in [Chans -> Seq(Frames)] /\ inbox'[c] = b
      /\ \A d \in Chans \ {c} : wire'[d] = wire[d] /\ inbox'[d] = inbox[d]
  BY <1>1, <1>3 DEF TypeOK
<1> HIDE DEF b
<1>5. TypeOK'
  BY <1>1, <1>4 DEF TypeOK
<1>6. Batches'
  BY <1>1, BatchesKept
<1>7. PICK s \in Frames : Sent(s, c) /\ load[s] = b
  BY <1>3 DEF Delivery, In
<1>8. Arrived(s, c)' /\ Distinct(b)
  BY <1>1, <1>3, <1>4, <1>7 DEF Arrived, Sent, Batches
<1>9. \A t \in Frames, d \in Chans : Arrived(t, d) => Arrived(t, d)' /\ t # s
  BY <1>1, <1>3, <1>4, <1>7 DEF Arrived, Sent
<1>10. \A d \in Chans : Distinct(wire'[d]) /\ Distinct(inbox'[d])
  BY <1>3, <1>4, <1>8 DEF Delivery
<1>11. ASSUME NEW d \in Chans, NEW i \in 1..Len(wire'[d])
       PROVE  \E t \in Frames : Sent(t, d)' /\ load'[t] = wire'[d][i]
  <2>1. In(wire'[d][i], wire'[d])
    BY <1>11 DEF In
  <2>2. In(wire'[d][i], wire[d])
    BY <1>3, <1>4, <2>1
  <2>3. PICK j \in 1..Len(wire[d]) : wire[d][j] = wire'[d][i]
    BY <2>2 DEF In
  <2>4. PICK t \in Frames : Sent(t, d) /\ load[t] = wire[d][j]
    BY DEF Delivery
  <2> QED
    BY <1>1, <2>3, <2>4 DEF Sent
<1>12. ASSUME NEW d \in Chans, inbox'[d] # <<>>
       PROVE  \E t \in Frames : Arrived(t, d)' /\ \A f \in Frames : In(f, inbox'[d]) => In(f, load'[t])
  <2>1. CASE d = c
    BY <1>1, <1>4, <1>7, <1>8, <2>1
  <2>2. CASE d # c
    BY <1>1, <1>4, <1>9, <1>12, <2>2 DEF Delivery
  <2> QED
    BY <2>1, <2>2
<1>13. ASSUME NEW f \in processed
       PROVE  /\ \E t \in Frames, d \in Chans : Arrived(t, d)' /\ In(f, load'[t])
              /\ \A d \in Chans : ~In(f, inbox'[d])
  <2>1. PICK t \in Frames, d \in Chans : Arrived(t, d) /\ In(f, load[t])
    BY DEF Delivery
  <2>2. Arrived(t, d)' /\ t # s
    BY <1>9, <2>1
  <2>3. ~In(f, b)
    BY <1>7, <2>1, <2>2 DEF Batches, TypeOK
  <2>4. \A e \in Chans : ~In(f, inbox'[e])
    BY <1>4, <2>3 DEF Delivery
  <2> QED
    BY <1>1, <2>1, <2>2, <2>4
<1>14. Delivery'
  BY <1>1, <1>10, <1>11, <1>12, <1>13 DEF Delivery
<1> QED
  BY <1>5, <1>6, <1>14

\* A frame leaves the reader's hands for good.
LEMMA Inv_ProcessFrame ==
    ASSUME Inv, NEW c \in Chans, ProcessFrame(c)
    PROVE  Inv'
<1> USE DEF Inv, pipeVars, batcherVars, senderVars, clientVars, netVars
<1> DEFINE f == Head(inbox[c])
<1>1. /\ inbox[c] # <<>> /\ inbox' = [inbox EXCEPT ![c] = Tail(inbox[c])]
      /\ processed' = processed \cup {f}
      /\ target' = target \/ (f \in Data /\ target' = Append(target, f))
      /\ UNCHANGED <<srv, sup, pipeVars, batcherVars, senderVars, clientVars, netVars>>
  BY DEF ProcessFrame, ProcessOpen, ProcessData, ProcessClose
<1>2. inbox[c] \in Seq(Frames) /\ Distinct(inbox[c])
  BY DEF TypeOK, Delivery
<1>3. /\ f \in Frames /\ In(f, inbox[c]) /\ Tail(inbox[c]) \in Seq(Frames)
      /\ \A x : In(x, Tail(inbox[c])) => In(x, inbox[c])
      /\ Distinct(Tail(inbox[c])) /\ ~In(f, Tail(inbox[c]))
  BY <1>1, <1>2, InTail
<1>4. /\ inbox' \in [Chans -> Seq(Frames)] /\ inbox'[c] = Tail(inbox[c])
      /\ \A d \in Chans \ {c} : inbox'[d] = inbox[d]
  BY <1>1, <1>3 DEF TypeOK
<1> HIDE DEF f
<1>5. target' \in Seq(Data) /\ processed' \subseteq Frames
  <2>1. target \in Seq(Data) /\ processed \subseteq Frames
    BY DEF TypeOK
  <2>2. target' \in Seq(Data)
    BY <1>1, <2>1
  <2>3. processed' \subseteq Frames
    BY <1>1, <1>3, <2>1
  <2> QED
    BY <2>2, <2>3
<1>6. TypeOK'
  BY <1>1, <1>4, <1>5 DEF TypeOK
<1>7. Batches'
  BY <1>1, BatchesKept
<1>8. PICK s \in Frames : Arrived(s, c) /\ \A g \in Frames : In(g, inbox[c]) => In(g, load[s])
  BY <1>1 DEF Delivery
<1>9. In(f, load[s]) /\ f \notin processed
  BY <1>3, <1>8 DEF Delivery
<1>10. \A t \in Frames, d \in Chans : Arrived(t, d)' <=> Arrived(t, d)
  BY <1>1 DEF Arrived, Sent
<1>11. \A d \in Chans : ~In(f, inbox'[d])
  <2>1. SUFFICES ASSUME NEW d \in Chans, d # c, In(f, inbox[d])
                 PROVE  FALSE
    BY <1>3, <1>4
  <2>2. inbox[d] # <<>>
    BY <2>1, InEmpty
  <2>3. PICK t \in Frames : Arrived(t, d) /\ \A g \in Frames : In(g, inbox[d]) => In(g, load[t])
    BY <2>2 DEF Delivery
  <2>4. t = s
    BY <1>3, <1>9, <2>1, <2>3 DEF Batches
  <2> QED
    BY <1>8, <2>1, <2>3, <2>4 DEF Arrived, Sent
<1>12. \A d \in Chans : \A g : In(g, inbox'[d]) => In(g, inbox[d])
  BY <1>3, <1>4
<1>13. \A d \in Chans : inbox'[d] # <<>> => inbox[d] # <<>>
  BY <1>1, <1>4
<1>14. \A d \in Chans : Distinct(wire'[d]) /\ Distinct(inbox'[d])
  BY <1>1, <1>3, <1>4 DEF Delivery
<1>15. (\A d \in Chans : \A i \in 1..Len(wire[d]) : \E t \in Frames : Sent(t, d) /\ load[t] = wire[d][i])'
  BY <1>1 DEF Delivery, Sent
<1>16. (\A d \in Chans : inbox[d] # <<>> =>
          \E t \in Frames : Arrived(t, d) /\ \A g \in Frames : In(g, inbox[d]) => In(g, load[t]))'
  BY <1>1, <1>10, <1>12, <1>13 DEF Delivery
<1>17. (\A g \in processed : /\ \E t \in Frames, d \in Chans : Arrived(t, d) /\ In(g, load[t])
                             /\ \A d \in Chans : ~In(g, inbox[d]))'
  <2>1. SUFFICES ASSUME NEW g \in processed'
                 PROVE  /\ \E t \in Frames, d \in Chans : Arrived(t, d) /\ In(g, load[t])
                        /\ \A d \in Chans : ~In(g, inbox'[d])
    BY <1>1, <1>10
  <2>2. CASE g = f
    BY <1>8, <1>9, <1>11, <2>2
  <2>3. CASE g \in processed
    BY <1>12, <2>3 DEF Delivery
  <2> QED
    BY <1>1, <2>1, <2>2, <2>3
<1>18. (\A g \in Frames : In(g, target) => g \in processed)' /\ Distinct(target')
  <2>1. CASE target' = target
    BY <1>1, <2>1 DEF Delivery
  <2>2. CASE f \in Data /\ target' = Append(target, f)
    <3>1. target \in Seq(Data) /\ ~In(f, target) /\ Distinct(target)
      BY <1>3, <1>9 DEF TypeOK, Delivery
    <3>2. (\A g : In(g, target') <=> In(g, target) \/ g = f) /\ Distinct(target')
      BY <2>2, <3>1, InAppend
    <3> QED
      BY <1>1, <3>2 DEF Delivery
  <2> QED
    BY <1>1, <2>1, <2>2
<1>19. Delivery'
  BY <1>14, <1>15, <1>16, <1>17, <1>18 DEF Delivery
<1> QED
  BY <1>6, <1>7, <1>19

LEMMA InvStep ==
    ASSUME Inv, [Next]_vars
    PROVE  Inv'
<1> USE DEF pipeVars, batcherVars, senderVars, clientVars, serverVars, netVars, flowVars
<1>1. CASE Pipe
  <2>1. TypeOK' /\ Batches' /\ SendersStay
    BY <1>1, PipeType, PipeBatches DEF Inv
  <2>2. SentStay
    BY <2>1 DEF SendersStay, SentStay
  <2>3. UNCHANGED <<wire, inbox, processed, target>>
    BY <1>1 DEF Pipe, ReadFirst, ReadNext, Signal, ReadEOF, Batcher, LoopSignal, LoopTimer
  <2> QED
    BY <2>1, <2>2, <2>3, DeliveryShrinks DEF Inv, Delivery
<1>2. ASSUME NEW s \in Frames, Sender(s)
      PROVE  Inv'
  BY <1>2, Inv_Unsent, Inv_WriteOk DEF Sender
<1>3. ASSUME NEW c \in Chans, Dial(c) \/ Install(c) \/ Break(c) \/ Server(c)
      PROVE  Inv'
  BY <1>3, Inv_Channels, Inv_Cut, Inv_ReadFrames, Inv_ProcessFrame DEF Server
<1>4. CASE DispatchRefusal
  BY <1>4, Inv_Channels
<1>5. CASE UNCHANGED vars
  BY <1>5, BatchesKept, DeliveryShrinks DEF vars, Inv, TypeOK, SentStay, Delivery
<1> QED
  BY <1>1, <1>2, <1>3, <1>4, <1>5 DEF Next, Pipe

\* Every frame is in one place at a time, from the pipe that makes it to the server
\* that applies it: the queue, one goroutine's load, and for a batch whose write has
\* succeeded the wire of one channel, the hands of its reader, or the processed frames.
THEOREM UplinkInvariant == Spec => []Inv
<1>1. Init => Inv
  BY InvInit
<1>2. Inv /\ [Next]_vars => Inv'
  BY InvStep
<1> QED
  BY <1>1, <1>2, PTL DEF Spec

\* The retry of sendFrames, whatever channel it takes and whatever is replaced or
\* fails meanwhile, never writes data to the target twice.
THEOREM DataAtMostOnce == Spec => []AtMostOnce
<1>1. Inv => AtMostOnce
  BY DEF Inv, Delivery, Distinct, AtMostOnce
<1> QED
  BY <1>1, UplinkInvariant, PTL

------------------------------------------------------------------------------
(* One reconnect *)

Dialed == {c \in Chans : cli[c] # "none"}

PicksDialed ==
    /\ 1 \in Dialed /\ uploads \in Dialed /\ fresh \subseteq Dialed
    /\ \A s \in Frames : spc[s] \notin {"none", "go"} => pick[s] \in Dialed

\* Channel 1 is the only one; if a reconnect is dialing, its connection has failed.
First ==
    /\ Dialed = {1} /\ reconns \in {0, 1} /\ (reconns = 1 => 1 \in broken)
    /\ fresh = {} /\ uploads = 1 /\ cli[1] = "open"
    /\ \/ sup = 1 /\ srv[1] = "bound"
       \/ sup = None /\ srv[1] = "closed" /\ 1 \in broken
    /\ \A c \in Chans \ {1} : srv[c] = "none"

\* The reconnect has dialed d; the install in the client and the bind in the server
\* are done or to come, in any order.
Second(d) ==
    /\ d # 1 /\ Dialed = {1, d} /\ reconns = 0 /\ 1 \in broken
    /\ \/ fresh = {d} /\ uploads = 1
       \/ fresh = {} /\ uploads = d
    /\ cli[d] = "open"
    /\ \/ srv[d] = "dialed" /\ sup \in {1, None}
       \/ srv[d] = "bound" /\ sup = d
       \/ srv[d] = "closed" /\ sup = None /\ d \in broken
    /\ srv[1] \in {"bound", "closed"}
    /\ \A c \in Chans \ {1, d} : srv[c] = "none"

Few == Reconnects <= 1 => First \/ \E d \in Chans : Second(d)

LEMMA PicksDialedStep ==
    ASSUME TypeOK, PicksDialed, [Next]_vars
    PROVE  PicksDialed'
<1> USE TypesOfConstants
        DEF pipeVars, batcherVars, senderVars, clientVars, serverVars, netVars, flowVars
<1>1. CASE Pipe \/ DispatchRefusal
  <2>1. UNCHANGED <<uploads, fresh, cli, pick>>
    BY <1>1 DEF Pipe, ReadFirst, ReadNext, Signal, ReadEOF, Batcher, LoopSignal, LoopTimer, Spawn,
                DispatchRefusal
  <2>2. \A s \in Frames : spc'[s] = spc[s] \/ spc'[s] = "go"
    BY <1>1 DEF Pipe, ReadFirst, ReadNext, Signal, ReadEOF, Batcher, LoopSignal, LoopTimer, Spawn,
                DispatchRefusal, TypeOK
  <2> QED
    BY <2>1, <2>2 DEF PicksDialed, Dialed
<1>2. ASSUME NEW s \in Frames, Sender(s)
      PROVE  PicksDialed'
  <2>1. UNCHANGED <<uploads, fresh, cli>>
    BY <1>2 DEF Sender, PickChannel, WriteOk, WriteError
  <2>2. \A t \in Frames : \/ spc'[t] = spc[t] /\ pick'[t] = pick[t]
                          \/ spc[t] \notin {"none", "go"} /\ pick'[t] = pick[t]
                          \/ pick'[t] = uploads
    BY <1>2 DEF Sender, PickChannel, WriteOk, WriteError, TypeOK
  <2> QED
    BY <2>1, <2>2 DEF PicksDialed, Dialed
<1>3. ASSUME NEW c \in Chans, Dial(c) \/ Install(c)
      PROVE  PicksDialed'
  <2>1. UNCHANGED <<spc, pick>>
    BY <1>3 DEF Dial, Install
  <2>2. Dialed \subseteq Dialed' /\ (Dial(c) => c \in Dialed')
    BY <1>3 DEF Dial, Install, Dialed, TypeOK
  <2>3. uploads' \in Dialed' /\ fresh' \subseteq Dialed'
    BY <1>3, <2>2 DEF Dial, Install, PicksDialed
  <2> QED
    BY <2>1, <2>2, <2>3 DEF PicksDialed
<1>4. ASSUME NEW c \in Chans, Break(c) \/ Server(c)
      PROVE  PicksDialed'
  BY <1>4 DEF Break, Server, Bind, ReadFrames, ReaderExits, ProcessFrame, PicksDialed, Dialed
<1>5. CASE UNCHANGED vars
  BY <1>5 DEF vars, PicksDialed, Dialed
<1> QED
  BY <1>1, <1>2, <1>3, <1>4, <1>5 DEF Next, Pipe

LEMMA DialedFinite ==
    ASSUME TypeOK
    PROVE  /\ IsFiniteSet(Dialed) /\ Cardinality(Dialed) \in Nat /\ reconns \in Nat
           /\ Reconnects = reconns + Cardinality(Dialed) - 1
<1>1. IsFiniteSet(Chans)
  BY UplinkAssumption, FS_Interval DEF Chans
<1>2. IsFiniteSet(Dialed)
  BY <1>1, FS_Subset DEF Dialed
<1> QED
  BY <1>2, FS_CardinalityType DEF Dialed, Reconnects, TypeOK

LEMMA DialedCount ==
    ASSUME TypeOK
    PROVE  /\ First => Reconnects = reconns
           /\ \A d \in Chans : Second(d) => Reconnects = 1
<1>1. Cardinality({1}) = 1 /\ IsFiniteSet({1})
  BY FS_Singleton
<1>2. \A d \in Chans : d # 1 => Cardinality({1} \cup {d}) = 2
  BY <1>1, FS_AddElement
<1>3. \A d : {1} \cup {d} = {1, d}
  OBVIOUS
<1>4. First => Reconnects = reconns
  BY <1>1, DialedFinite DEF First
<1>5. ASSUME NEW d \in Chans, Second(d)
      PROVE  Reconnects = 1
  <2>1. Cardinality(Dialed) = 2 /\ reconns = 0
    BY <1>2, <1>3, <1>5 DEF Second
  <2> QED
    BY <2>1, DialedFinite
<1> QED
  BY <1>4, <1>5

\* Most steps leave the channels of the index alone.
LEMMA FewKept ==
    ASSUME TypeOK, Few, UNCHANGED <<uploads, reconns, fresh, cli, srv, sup>>, broken \subseteq broken'
    PROVE  Few'
<1>1. Reconnects' = Reconnects /\ Dialed' = Dialed
  BY DEF Reconnects, Dialed
<1>2. First => First'
  BY <1>1 DEF First
<1>3. \A d \in Chans : Second(d) => Second(d)'
  BY <1>1 DEF Second
<1> QED
  BY <1>1, <1>2, <1>3 DEF Few

LEMMA FewStep ==
    ASSUME TypeOK, TypeOK', PicksDialed, Few, [Next]_vars
    PROVE  Few'
<1> USE TypesOfConstants
        DEF pipeVars, batcherVars, senderVars, clientVars, serverVars, netVars, flowVars
<1>1. CASE Pipe \/ DispatchRefusal \/ UNCHANGED vars
  <2>1. UNCHANGED <<uploads, reconns, fresh, cli, srv, sup, broken>>
    BY <1>1 DEF Pipe, ReadFirst, ReadNext, Signal, ReadEOF, Batcher, LoopSignal, LoopTimer,
                DispatchRefusal, vars
  <2> QED
    BY <2>1, FewKept
<1>2. ASSUME NEW s \in Frames, PickChannel(s) \/ WriteOk(s)
      PROVE  Few'
  BY <1>2, FewKept DEF PickChannel, WriteOk
<1>3. ASSUME NEW c \in Chans, Break(c) \/ ReadFrames(c) \/ ProcessFrame(c)
      PROVE  Few'
  BY <1>3, FewKept DEF Break, ReadFrames, ProcessFrame
<1>4. ASSUME NEW s \in Frames, WriteError(s), Reconnects' <= 1
      PROVE  First' \/ \E d \in Chans : Second(d)'
  <2>1. UNCHANGED <<uploads, fresh, cli, srv, sup, broken>> /\ Dialed' = Dialed
        /\ reconns' \in {reconns, reconns + 1}
    BY <1>4 DEF WriteError, Dialed
  <2>2. Reconnects' = Reconnects + (reconns' - reconns) /\ Reconnects \in Int
    BY <2>1, DialedFinite DEF Reconnects, Dialed
  <2>3. reconns' # reconns => Reconnects <= 0
    BY <1>4, <2>1, <2>2, DialedFinite
  <2>4. Reconnects <= 1
    BY <1>4, <2>1, <2>2, DialedFinite
  <2>5. CASE First
    <3>1. pick[s] = 1 /\ ~Works(1)
      BY <1>4, <2>5 DEF WriteError, PicksDialed, First
    <3>2. 1 \in broken
      BY <2>5, <3>1 DEF First, Works
    <3>3. reconns' \in {0, 1}
      BY <2>1, <2>3, <2>5, DialedCount DEF First
    <3> QED
      BY <2>1, <2>5, <3>2, <3>3 DEF First
  <2>6. ASSUME NEW d \in Chans, Second(d)
        PROVE  Second(d)'
    <3>1. reconns' = reconns
      BY <2>3, <2>6, DialedCount
    <3> QED
      BY <2>1, <2>6, <3>1 DEF Second
  <2> QED
    BY <2>4, <2>5, <2>6 DEF Few
<1>5. ASSUME NEW c \in Chans, Dial(c), Reconnects' <= 1
      PROVE  First' \/ \E d \in Chans : Second(d)'
  <2>1. /\ reconns > 0 /\ cli[c] = "none" /\ reconns' = reconns - 1 /\ fresh' = fresh \cup {c}
        /\ cli' = [cli EXCEPT ![c] = "open"] /\ srv' = [srv EXCEPT ![c] = "dialed"]
        /\ UNCHANGED <<uploads, sup, broken>>
    BY <1>5 DEF Dial
  <2>2. Dialed' = Dialed \cup {c} /\ c \notin Dialed
    <3>1. cli'[c] = "open" /\ \A d \in Chans \ {c} : cli'[d] = cli[d]
      BY <2>1 DEF TypeOK
    <3>2. \A d \in Chans : cli'[d] # "none" <=> cli[d] # "none" \/ d = c
      BY <2>1, <3>1
    <3> QED
      BY <2>1, <3>2 DEF Dialed
  <2>3. Cardinality(Dialed') = Cardinality(Dialed) + 1
    BY <2>2, DialedFinite, FS_AddElement
  <2>4. Reconnects' = Reconnects
    <3>1. Reconnects' = reconns' + Cardinality(Dialed') - 1
      BY DEF Reconnects, Dialed
    <3> QED
      BY <2>1, <2>3, <3>1, DialedFinite
  <2>5. CASE First
    <3>1. c # 1 /\ Dialed' = {1, c} /\ reconns' = 0 /\ 1 \in broken /\ fresh' = {c}
      BY <2>1, <2>2, <2>5 DEF First
    <3>2. cli'[c] = "open" /\ srv'[c] = "dialed" /\ \A d \in Chans \ {c} : srv'[d] = srv[d]
      BY <2>1 DEF TypeOK
    <3>3. Second(c)'
      BY <2>1, <2>5, <3>1, <3>2 DEF First, Second
    <3> QED
      BY <3>3
  <2>6. ASSUME NEW d \in Chans, Second(d)
        PROVE  FALSE
    BY <2>1, <2>6 DEF Second
  <2> QED
    BY <1>5, <2>4, <2>5, <2>6 DEF Few
<1>6. ASSUME NEW c \in Chans, Install(c), Reconnects' <= 1
      PROVE  First' \/ \E d \in Chans : Second(d)'
  <2>1. /\ c \in fresh /\ fresh' = fresh \ {c} /\ uploads' = c
        /\ cli' = [cli EXCEPT ![uploads] = "closed"] /\ UNCHANGED <<reconns, srv, sup, broken>>
    BY <1>6 DEF Install
  <2>2. Dialed' = Dialed
    BY <2>1 DEF Dialed, TypeOK, PicksDialed
  <2>3. Reconnects' = Reconnects
    BY <2>1, <2>2 DEF Reconnects, Dialed
  <2>4. ~First
    BY <2>1 DEF First
  <2>5. ASSUME NEW d \in Chans, Second(d)
        PROVE  Second(d)'
    <3>1. c = d /\ uploads = 1 /\ fresh' = {}
      BY <2>1, <2>5 DEF Second
    <3>2. cli'[d] = "open"
      BY <2>1, <2>5, <3>1 DEF Second, TypeOK
    <3> QED
      BY <2>1, <2>2, <2>5, <3>1, <3>2 DEF Second
  <2> QED
    BY <1>6, <2>3, <2>4, <2>5 DEF Few
<1>7. ASSUME NEW c \in Chans, Bind(c) \/ ReaderExits(c), Reconnects' <= 1
      PROVE  First' \/ \E d \in Chans : Second(d)'
  <2>1. UNCHANGED <<uploads, reconns, fresh, cli, broken>>
    BY <1>7 DEF Bind, ReaderExits
  <2>2. Dialed' = Dialed /\ Reconnects' = Reconnects
    BY <2>1 DEF Reconnects, Dialed
  <2>3. CASE First
    <3>1. ReaderExits(c) /\ c = 1 /\ 1 \in broken
      BY <1>7, <2>3 DEF First, Bind, ReaderExits
    <3>2. sup' = None /\ srv' = [srv EXCEPT ![1] = "closed"]
      BY <3>1 DEF ReaderExits
    <3> QED
      BY <2>1, <2>2, <2>3, <3>1, <3>2 DEF First, TypeOK
  <2>4. ASSUME NEW d \in Chans, Second(d)
        PROVE  Second(d)'
    <3>1. CASE Bind(c)
      <4>1. c = d /\ sup' = d /\ sup \in {1, None} /\ d # 1
        BY <2>4, <3>1 DEF Bind, Second
      <4>2. srv' = [e \in Chans |-> IF e = d THEN "bound" ELSE IF e = sup THEN "closed" ELSE srv[e]]
        BY <3>1, <4>1 DEF Bind
      <4>3. srv'[d] = "bound" /\ srv'[1] \in {"bound", "closed"}
            /\ \A e \in Chans \ {1, d} : srv'[e] = "none"
        BY <2>4, <4>1, <4>2 DEF Second
      <4> QED
        BY <2>1, <2>2, <2>4, <4>1, <4>3 DEF Second
    <3>2. CASE ReaderExits(c) /\ c = d
      <4>1. sup' = None /\ srv' = [srv EXCEPT ![d] = "closed"] /\ d \in broken
        BY <2>4, <3>2 DEF ReaderExits, Second
      <4>2. srv'[d] = "closed" /\ srv'[1] = srv[1] /\ \A e \in Chans \ {1, d} : srv'[e] = srv[e]
        BY <2>4, <4>1 DEF Second, TypeOK
      <4> QED
        BY <2>1, <2>2, <2>4, <4>1, <4>2 DEF Second
    <3>3. CASE ReaderExits(c) /\ c # d
      <4>1. c = 1 /\ sup = 1 /\ sup' = None /\ srv' = [srv EXCEPT ![1] = "closed"]
        BY <2>4, <3>3 DEF ReaderExits, Second
      <4>2. srv'[1] = "closed" /\ srv'[d] = srv[d] /\ \A e \in Chans \ {1, d} : srv'[e] = srv[e]
        BY <2>4, <4>1 DEF Second, TypeOK
      <4> QED
        BY <2>1, <2>2, <2>4, <4>1, <4>2 DEF Second
    <3> QED
      BY <1>7, <3>1, <3>2, <3>3
  <2> QED
    BY <1>7, <2>2, <2>3, <2>4 DEF Few
<1>8. ASSUME NEW s \in Frames, Sender(s)
      PROVE  Few'
  BY <1>2, <1>4, <1>8 DEF Sender, Few
<1>9. ASSUME NEW c \in Chans, Dial(c) \/ Install(c) \/ Break(c) \/ Server(c)
      PROVE  Few'
  BY <1>3, <1>5, <1>6, <1>7, <1>9 DEF Server, Few
<1> QED
  BY <1>1, <1>8, <1>9 DEF Next, Pipe

LEMMA FewInit ==
    ASSUME Init
    PROVE  PicksDialed /\ Few
<1> USE UplinkAssumption, TypesOfConstants DEF Init
<1>1. Dialed = {1}
  BY DEF Dialed
<1>2. PicksDialed
  BY <1>1 DEF PicksDialed
<1>3. First
  BY <1>1 DEF First
<1> QED
  BY <1>2, <1>3 DEF Few

\* A channel the client has dialed, whose connection has not failed, works at both ends.
LEMMA FewWorks ==
    ASSUME TypeOK, PicksDialed, Few, Reconnects <= 1, NEW c \in Dialed, c \notin broken
    PROVE  Works(c)
<1>1. CASE First
  BY <1>1 DEF First, Works
<1>2. ASSUME NEW d \in Chans, Second(d)
      PROVE  Works(c)
  BY <1>2 DEF Second, Works
<1> QED
  BY <1>1, <1>2 DEF Few

\* The batch of s is on its way or applied.
KeptBatch(s) ==
    \/ In(load[s], wire[pick[s]])
    \/ \A f \in Frames : In(f, load[s]) => f \in processed \/ In(f, inbox[pick[s]])

Kept == \A s \in Frames : spc[s] = "sent" /\ pick[s] \notin broken => KeptBatch(s)

\* A step that loses nothing of a channel that works.
LEMMA KeptStays ==
    ASSUME TypeOK, Kept, broken \subseteq broken', processed \subseteq processed',
           \A s \in Frames : spc'[s] = "sent" =>
               spc[s] = "sent" /\ load'[s] = load[s] /\ pick'[s] = pick[s],
           \A c \in Chans \ broken' : \A b : In(b, wire[c]) => In(b, wire'[c]),
           \A c \in Chans : \A f : In(f, inbox[c]) => In(f, inbox'[c])
    PROVE  Kept'
<1>1. SUFFICES ASSUME NEW s \in Frames, spc'[s] = "sent", pick'[s] \notin broken'
               PROVE  KeptBatch(s)'
  BY DEF Kept
<1>2. spc[s] = "sent" /\ load'[s] = load[s] /\ pick'[s] = pick[s] /\ pick[s] \in Chans \ broken'
  BY <1>1 DEF TypeOK
<1>3. KeptBatch(s)
  BY <1>1, <1>2 DEF Kept
<1> QED
  BY <1>2, <1>3 DEF KeptBatch

LEMMA KeptStep ==
    ASSUME Inv, PicksDialed, Few, Kept, Reconnects <= 1, [Next]_vars
    PROVE  Kept'
<1> USE TypesOfConstants
        DEF Inv, pipeVars, batcherVars, senderVars, clientVars, serverVars, netVars, flowVars
<1>1. CASE Pipe \/ DispatchRefusal \/ UNCHANGED vars
  <2>1. UNCHANGED <<broken, wire, inbox, processed, pick>>
    BY <1>1 DEF Pipe, ReadFirst, ReadNext, Signal, ReadEOF, Batcher, LoopSignal, LoopTimer, Spawn,
                DispatchRefusal, vars
  <2>2. \A s \in Frames : spc'[s] = spc[s] \/ spc'[s] = "go"
    BY <1>1 DEF Pipe, ReadFirst, ReadNext, Signal, ReadEOF, Batcher, LoopSignal, LoopTimer, Spawn,
                DispatchRefusal, vars, TypeOK
  <2>3. \A s \in Frames : spc[s] = "sent" => load'[s] = load[s]
    <3>1. CASE Pipe
      BY <3>1, PipeBatches DEF SendersStay
    <3>2. CASE DispatchRefusal \/ UNCHANGED vars
      BY <3>2 DEF DispatchRefusal, vars
    <3> QED
      BY <1>1, <3>1, <3>2
  <2> QED
    BY <2>1, <2>2, <2>3, KeptStays
<1>2. ASSUME NEW s \in Frames, PickChannel(s) \/ WriteError(s)
      PROVE  Kept'
  <2>1. UNCHANGED <<broken, wire, inbox, processed, load>>
    BY <1>2 DEF PickChannel, WriteError
  <2>2. \A t \in Frames : spc'[t] = "sent" => spc[t] = "sent" /\ pick'[t] = pick[t]
    BY <1>2 DEF PickChannel, WriteError, TypeOK
  <2> QED
    BY <2>1, <2>2, KeptStays
<1>3. ASSUME NEW s \in Frames, WriteOk(s)
      PROVE  Kept'
  <2>1. /\ spc[s] \in {"write", "rewrite"} /\ spc' = [spc EXCEPT ![s] = "sent"]
        /\ UNCHANGED <<load, pick, broken, inbox, processed>>
        /\ pick[s] \in Dialed /\ pick[s] \in Chans
    BY <1>3 DEF WriteOk, PicksDialed, TypeOK
  <2>2. load[s] \in Seq(Frames) /\ wire[pick[s]] \in Seq(Seq(Frames))
    BY <2>1 DEF TypeOK
  <2>3. wire' = wire \/ wire' = [wire EXCEPT ![pick[s]] = Append(wire[pick[s]], load[s])]
    BY <1>3 DEF WriteOk
  <2>4. \A b : In(b, Append(wire[pick[s]], load[s])) <=> In(b, wire[pick[s]]) \/ b = load[s]
    BY <2>2, InAppend
  <2>5. \A c \in Chans : \A b : In(b, wire[c]) => In(b, wire'[c])
    <3>1. \A c \in Chans : \/ wire'[c] = wire[c]
                           \/ c = pick[s] /\ wire'[c] = Append(wire[c], load[s])
      BY <2>1, <2>3 DEF TypeOK
    <3> QED
      BY <2>4, <3>1
  <2>6. pick[s] \notin broken => In(load[s], wire'[pick[s]])
    <3>1. SUFFICES ASSUME pick[s] \notin broken
                   PROVE  In(load[s], wire'[pick[s]])
      OBVIOUS
    <3>2. wire'[pick[s]] = Append(wire[pick[s]], load[s])
      BY <1>3, <2>1, <3>1, FewWorks DEF WriteOk, TypeOK
    <3> QED
      BY <2>4, <3>2
  <2>7. ASSUME NEW t \in Frames, spc'[t] = "sent", pick'[t] \notin broken'
        PROVE  KeptBatch(t)'
    <3>1. CASE t = s
      BY <2>1, <2>6, <2>7, <3>1 DEF KeptBatch
    <3>2. CASE t # s
      <4>1. spc[t] = "sent" /\ pick[t] \in Chans
        BY <2>1, <2>7, <3>2 DEF TypeOK
      <4>2. KeptBatch(t)
        BY <2>1, <2>7, <4>1 DEF Kept
      <4> QED
        BY <2>1, <2>5, <4>1, <4>2 DEF KeptBatch
    <3> QED
      BY <3>1, <3>2
  <2> QED
    BY <2>7 DEF Kept
<1>4. ASSUME NEW c \in Chans, Dial(c) \/ Install(c) \/ ReaderExits(c)
      PROVE  Kept'
  <2>1. UNCHANGED <<broken, wire, inbox, processed, load, spc, pick>>
    BY <1>4 DEF Dial, Install, ReaderExits
  <2> QED
    BY <2>1, KeptStays
<1>5. ASSUME NEW c \in Chans, Break(c)
      PROVE  Kept'
  <2>1. UNCHANGED <<inbox, processed, load, spc, pick>> /\ broken' = broken \cup {c}
        /\ \A d \in Chans \ {c} : wire'[d] = wire[d]
    BY <1>5 DEF Break, TypeOK
  <2> QED
    BY <2>1, KeptStays
<1>6. ASSUME NEW c \in Chans, Bind(c)
      PROVE  Kept'
  <2>1. UNCHANGED <<broken, inbox, processed, load, spc, pick>> /\ srv[c] = "dialed"
        /\ \A d \in Chans : wire'[d] = wire[d] \/ d = sup
    BY <1>6 DEF Bind, TypeOK
  <2>2. Second(c)
    BY <2>1 DEF Few, First, Second
  <2>3. \A d \in Chans \ broken : wire'[d] = wire[d]
    BY <2>1, <2>2 DEF Second
  <2> QED
    BY <2>1, <2>3, KeptStays
<1>7. ASSUME NEW c \in Chans, ReadFrames(c)
      PROVE  Kept'
  <2>1. /\ inbox[c] = <<>> /\ wire[c] # <<>> /\ wire[c] \in Seq(Seq(Frames))
        /\ inbox'[c] = Head(wire[c]) /\ wire'[c] = Tail(wire[c])
        /\ \A d \in Chans \ {c} : inbox'[d] = inbox[d] /\ wire'[d] = wire[d]
        /\ UNCHANGED <<broken, processed, load, spc, pick>>
    BY <1>7 DEF ReadFrames, TypeOK
  <2>2. \A b : In(b, wire[c]) => b = Head(wire[c]) \/ In(b, wire'[c])
    BY <2>1, InTail
  <2>3. \A f : ~In(f, inbox[c])
    BY <2>1, InEmpty
  <2>4. ASSUME NEW t \in Frames, spc'[t] = "sent", pick'[t] \notin broken'
        PROVE  KeptBatch(t)'
    <3>1. KeptBatch(t) /\ pick[t] \in Chans
      BY <2>1, <2>4 DEF Kept, TypeOK
    <3>2. CASE pick[t] # c
      BY <2>1, <3>1, <3>2 DEF KeptBatch
    <3>3. CASE pick[t] = c /\ In(load[t], wire[c])
      BY <2>1, <2>2, <3>3 DEF KeptBatch
    <3>4. CASE pick[t] = c /\ ~In(load[t], wire[c])
      BY <2>1, <2>3, <3>1, <3>4 DEF KeptBatch
    <3> QED
      BY <3>2, <3>3, <3>4
  <2> QED
    BY <2>4 DEF Kept
<1>8. ASSUME NEW c \in Chans, ProcessFrame(c)
      PROVE  Kept'
  <2>1. /\ inbox[c] # <<>> /\ inbox[c] \in Seq(Frames)
        /\ inbox'[c] = Tail(inbox[c]) /\ processed' = processed \cup {Head(inbox[c])}
        /\ \A d \in Chans \ {c} : inbox'[d] = inbox[d]
        /\ UNCHANGED <<broken, wire, load, spc, pick>>
    BY <1>8 DEF ProcessFrame, TypeOK
  <2>2. \A f : In(f, inbox[c]) => f \in processed' \/ In(f, inbox'[c])
    BY <2>1, InTail
  <2>3. ASSUME NEW t \in Frames, spc'[t] = "sent", pick'[t] \notin broken'
        PROVE  KeptBatch(t)'
    <3>1. KeptBatch(t) /\ pick[t] \in Chans
      BY <2>1, <2>3 DEF Kept, TypeOK
    <3>2. \A f \in Frames : f \in processed \/ In(f, inbox[pick[t]])
                            => f \in processed' \/ In(f, inbox'[pick[t]])
      BY <2>1, <2>2, <3>1
    <3> QED
      BY <2>1, <3>1, <3>2 DEF KeptBatch
  <2> QED
    BY <2>3 DEF Kept
<1> QED
  BY <1>1, <1>2, <1>3, <1>4, <1>5, <1>6, <1>7, <1>8 DEF Next, Pipe, Sender, Server

\* The reconnects started so far are never fewer.
LEMMA ReconnectsGrow ==
    ASSUME TypeOK, TypeOK', PicksDialed, [Next]_vars
    PROVE  Reconnects' <= 1 => Reconnects <= 1
<1> USE DEF pipeVars, batcherVars, senderVars, clientVars, serverVars, netVars, flowVars
<1>1. \/ UNCHANGED <<reconns, cli>>
      \/ \E s \in Frames : WriteError(s)
      \/ \E c \in Chans : Dial(c) \/ Install(c)
  BY DEF Next, vars, ReadFirst, ReadNext, Signal, ReadEOF, Batcher, LoopSignal, LoopTimer, Sender,
         PickChannel, WriteOk, Break, Server, Bind, ReadFrames, ReaderExits, ProcessFrame,
         DispatchRefusal
<1>2. Reconnects' = reconns' + Cardinality(Dialed') - 1 /\ reconns' \in Nat
  BY DEF Reconnects, Dialed, TypeOK
<1>3. CASE UNCHANGED <<reconns, cli>>
  BY <1>3 DEF Reconnects
<1>4. ASSUME NEW s \in Frames, WriteError(s)
      PROVE  Reconnects' <= 1 => Reconnects <= 1
  <2>1. Dialed' = Dialed /\ reconns' \in {reconns, reconns + 1}
    BY <1>4 DEF WriteError, Dialed
  <2> QED
    BY <1>2, <2>1, DialedFinite
<1>5. ASSUME NEW c \in Chans, Dial(c)
      PROVE  Reconnects' <= 1 => Reconnects <= 1
  <2>1. cli[c] = "none" /\ reconns > 0 /\ reconns' = reconns - 1 /\ cli' = [cli EXCEPT ![c] = "open"]
    BY <1>5 DEF Dial
  <2>2. \A d \in Chans : cli'[d] # "none" <=> cli[d] # "none" \/ d = c
    BY <2>1 DEF TypeOK
  <2>3. Dialed' = Dialed \cup {c} /\ c \notin Dialed
    BY <2>1, <2>2 DEF Dialed
  <2>4. Cardinality(Dialed') = Cardinality(Dialed) + 1
    BY <2>3, DialedFinite, FS_AddElement
  <2> QED
    BY <1>2, <2>1, <2>4, DialedFinite
<1>6. ASSUME NEW c \in Chans, Install(c)
      PROVE  Reconnects' <= 1 => Reconnects <= 1
  <2>1. reconns' = reconns /\ cli' = [cli EXCEPT ![uploads] = "closed"] /\ cli[uploads] # "none"
    BY <1>6 DEF Install, PicksDialed, Dialed
  <2>2. Dialed' = Dialed
    BY <2>1 DEF TypeOK, Dialed
  <2> QED
    BY <1>2, <2>1, <2>2, DialedFinite
<1> QED
  BY <1>1, <1>3, <1>4, <1>5, <1>6

OneInv == Inv /\ PicksDialed /\ Few /\ (Reconnects <= 1 => Kept)

LEMMA OneInvariant == Spec => []OneInv
<1>1. Init => OneInv
  <2>1. SUFFICES ASSUME Init
                 PROVE  OneInv
    OBVIOUS
  <2>2. Kept
    BY <2>1 DEF Init, Kept
  <2> QED
    BY <2>1, <2>2, InvInit, FewInit DEF OneInv
<1>2. OneInv /\ [Next]_vars => OneInv'
  <2>1. SUFFICES ASSUME OneInv, [Next]_vars
                 PROVE  OneInv'
    OBVIOUS
  <2>2. Inv' /\ PicksDialed' /\ Few'
    BY <2>1, InvStep, PicksDialedStep, FewStep DEF OneInv, Inv
  <2>3. (Reconnects <= 1 => Kept)'
    BY <2>1, <2>2, KeptStep, ReconnectsGrow DEF OneInv, Inv
  <2> QED
    BY <2>2, <2>3 DEF OneInv
<1> QED
  BY <1>1, <1>2, PTL DEF Spec

\* After one reconnect that is over on both sides, the client has an open channel for
\* the index and the server has the same one bound, unless its connection has failed:
\* whichever of reconnectUpload's install and the server's bind came first.
THEOREM OneReconnectEndsAgreed == Spec => []OneReconnectAgrees
<1>1. OneInv => OneReconnectAgrees
  <2>1. SUFFICES ASSUME OneInv, Reconnects <= 1, reconns = 0, fresh = {},
                        \A c \in Chans : srv[c] # "dialed"
                 PROVE  cli[uploads] = "open" /\ (sup = uploads \/ uploads \in broken)
    BY DEF OneReconnectAgrees
  <2>2. CASE First
    BY <2>2 DEF First
  <2>3. ASSUME NEW d \in Chans, Second(d)
        PROVE  cli[uploads] = "open" /\ (sup = uploads \/ uploads \in broken)
    BY <2>1, <2>3 DEF Second
  <2> QED
    BY <2>1, <2>2, <2>3 DEF OneInv, Few
<1> QED
  BY <1>1, OneInvariant, PTL

\* With one reconnect, a batch whose write succeeded on a connection that has not failed
\* is on the wire, in the reader's hands or applied: neither the install that closes the
\* old channel nor the bind that drops what it had not read loses it.
THEOREM OneReconnectLosesNothing == Spec => []OneReconnectKeepsBatches
<1>1. OneInv => OneReconnectKeepsBatches
  <2>1. SUFFICES ASSUME OneInv, Reconnects <= 1, NEW s \in Frames, spc[s] = "sent",
                        pick[s] \notin broken
                 PROVE  \/ \E i \in 1..Len(wire[pick[s]]) : wire[pick[s]][i] = load[s]
                        \/ \A i \in 1..Len(load[s]) :
                              \/ load[s][i] \in processed
                              \/ \E j \in 1..Len(inbox[pick[s]]) : inbox[pick[s]][j] = load[s][i]
    BY DEF OneReconnectKeepsBatches
  <2>2. KeptBatch(s) /\ load[s] \in Seq(Frames)
    BY <2>1 DEF OneInv, Kept, Inv, TypeOK
  <2>3. \A i \in 1..Len(load[s]) : load[s][i] \in Frames /\ In(load[s][i], load[s])
    BY <2>2 DEF In
  <2> QED
    BY <2>2, <2>3 DEF KeptBatch, In
<1> QED
  BY <1>1, OneInvariant, PTL
=============================================================================
