---------------------------- MODULE ReorderBuffer ----------------------------
(***************************************************************************)
(* The reorder buffer of one TCP flow of the FTP tunnel                    *)
(* (ftp/common/reorder.go) with the threads that meet in it:               *)
(*   - the download read loops, which dispatch frames to Push              *)
(*     (ftp/client/client.go, downloadReadLoop and dispatch);              *)
(*   - the gap timers, each of which runs timeoutFlush in a goroutine of   *)
(*     its own;                                                            *)
(*   - the flow's pipe goroutine, which drains the bounded channel out     *)
(*     (pipeExisting) until the flow ends.                                 *)
(* The server numbers the frames 1, 2, 3, ... (pumpTCP); a frame is its    *)
(* number. The transport loses frames and brings them in any order, never  *)
(* twice: writeDown does not retry.                                        *)
(*                                                                         *)
(* A critical section of r.mu is one or more actions of the thread that    *)
(* holds lock; deliver gives the lock up while it waits for room in out,   *)
(* so everything that can happen in that window happens in the model.      *)
(***************************************************************************)
EXTENDS Naturals, Sequences

CONSTANTS Readers,      \* download read loops that carry frames of this flow
          MaxSeq,       \* bound on the frames the server numbers
          OutCap        \* capacity of the channel out (1024 in the code)

Seqs == 1..MaxSeq
\* A gap timer is named after the frame whose Push armed it.
Timers == Seqs
Threads == Readers \cup Timers
Free == 0               \* r.mu is not held
NoTimer == 0            \* r.timer is nil

ASSUME ReorderAssumption ==
    /\ MaxSeq \in Nat
    /\ OutCap \in Nat \ {0}
    /\ Readers \cap Nat = {}

VARIABLES
    sent,       \* frames numbered by the server
    net,        \* frames on their way to the client
    next,       \* nextExpected
    held,       \* held: a slice sorted by Seq without duplicates, as a set
    timer,      \* the timer r.timer points to, or NoTimer
    pending,    \* timers that are running: neither fired nor stopped
    log,        \* every frame sent on out, oldest first
    nread,      \* how many of them the pipe goroutine has taken
    quit,       \* the pipe goroutine has returned
    lock,       \* the thread that holds r.mu, or Free
    pc,         \* where each thread is
    caller,     \* the function that called deliver
    cur,        \* the frame each thread works on
    accepted,   \* history: frames Push did not drop
    filled,     \* history: deliver has found out full
    crashed     \* held[1:] of an empty slice: the process is gone

envVars == <<sent, net, nread, quit>>
bufVars == <<next, held, timer, pending, log, lock, accepted, crashed, filled>>
thrVars == <<pc, caller, cur>>
vars == <<envVars, bufVars, thrVars>>

\* Messages in the channel out, and whether a send would block.
Buffered == Len(log) - nread
Full == Buffered >= OutCap

\* The slice operations held[0] and held[1:] on the set of numbers.
IsFirst(n, S) == n \in S /\ \A m \in S : n <= m
Rest(S) == {n \in S : \E m \in S : m < n}

Init ==
    /\ sent = 0 /\ net = {} /\ nread = 0 /\ quit = FALSE
    /\ next = 1 /\ held = {} /\ timer = NoTimer /\ pending = {}
    /\ log = <<>> /\ lock = Free /\ accepted = {} /\ crashed = FALSE
    /\ filled = FALSE
    /\ pc = [t \in Threads |-> "idle"]
    /\ caller = [t \in Threads |-> "Push"]
    /\ cur = [t \in Threads |-> 0]
-----------------------------------------------------------------------------
(* The peers *)

\* pumpTCP numbers a chunk and writeDown writes it, or fails and drops it.
SendFrame ==
    /\ sent < MaxSeq
    /\ sent' = sent + 1
    /\ net' \in {net, net \cup {sent + 1}}
    /\ UNCHANGED <<nread, quit, bufVars, thrVars>>

\* dispatch: look the flow up and call Push, or drop the frame of an ended
\* flow.
Dispatch(t, n) ==
    /\ pc[t] = "idle"
    /\ n \in net
    /\ net' = net \ {n}
    /\ \/ /\ ~quit
          /\ pc' = [pc EXCEPT ![t] = "push"]
          /\ cur' = [cur EXCEPT ![t] = n]
       \/ /\ quit
          /\ UNCHANGED <<pc, cur>>
    /\ UNCHANGED <<sent, nread, quit, bufVars, caller>>

\* pipeExisting takes a frame from out.
Consume ==
    /\ ~quit
    /\ Buffered > 0
    /\ nread' = nread + 1
    /\ UNCHANGED <<sent, net, quit, bufVars, thrVars>>

\* pipeExisting returns: a Close frame, a failed write to the application, or
\* the application's end of file. unregisterTCP drops the flow from tcpMap.
PipeReturns ==
    /\ ~quit
    /\ quit' = TRUE
    /\ UNCHANGED <<sent, net, nread, bufVars, thrVars>>
-----------------------------------------------------------------------------
(* Push *)

Enter(t, n, fn) ==
    /\ lock' = t
    /\ pc' = [pc EXCEPT ![t] = "deliver"]
    /\ cur' = [cur EXCEPT ![t] = n]
    /\ caller' = [caller EXCEPT ![t] = fn]

PushDuplicate(t) ==
    /\ pc[t] = "push" /\ lock = Free
    /\ cur[t] < next
    /\ pc' = [pc EXCEPT ![t] = "idle"]
    /\ UNCHANGED <<envVars, bufVars, caller, cur>>

\* Fault: <= for == lets a frame through that the gap timer has skipped.
PushLate(t) ==
    /\ pc[t] = "push" /\ lock = Free
    /\ cur[t] <= next
    /\ accepted' = accepted \cup {cur[t]}
    /\ Enter(t, cur[t], "Push")
    /\ UNCHANGED <<envVars, next, held, timer, pending, log, crashed, filled>>

PushInOrder(t) ==
    /\ pc[t] = "push" /\ lock = Free
    /\ cur[t] = next
    /\ accepted' = accepted \cup {cur[t]}
    /\ Enter(t, cur[t], "Push")
    /\ UNCHANGED <<envVars, next, held, timer, pending, log, crashed, filled>>

PushOutOfOrder(t) ==
    /\ pc[t] = "push" /\ lock = Free
    /\ cur[t] > next
    /\ held' = held \cup {cur[t]}
    /\ accepted' = accepted \cup {cur[t]}
    /\ \/ /\ timer = NoTimer
          /\ timer' = cur[t]
          /\ pending' = pending \cup {cur[t]}
       \/ /\ timer # NoTimer
          /\ UNCHANGED <<timer, pending>>
    /\ pc' = [pc EXCEPT ![t] = "idle"]
    /\ UNCHANGED <<envVars, next, log, lock, crashed, filled, caller, cur>>

\* Fault: Push stops the gap timer without a look at held.
StopAlways(t, rest) ==
    /\ lock' = Free
    /\ pc' = [pc EXCEPT ![t] = "idle"]
    /\ timer' = NoTimer
    /\ pending' = pending \ {timer}
    /\ UNCHANGED <<caller, cur>>

\* The end of Push after an in-order frame: with nothing left to wait for the
\* gap timer is stopped, which does nothing to a timer that has fired.
ReturnFromPush(t, rest) ==
    /\ lock' = Free
    /\ pc' = [pc EXCEPT ![t] = "idle"]
    /\ \/ /\ rest = {}
          /\ timer' = NoTimer
          /\ pending' = pending \ {timer}
       \/ /\ rest # {}
          /\ UNCHANGED <<timer, pending>>
    /\ UNCHANGED <<caller, cur>>
-----------------------------------------------------------------------------
(* deliver *)

Deliver(t) ==
    /\ pc[t] = "deliver"
    /\ next' = cur[t] + 1
    /\ \/ /\ ~Full
          /\ log' = Append(log, cur[t])
          /\ pc' = [pc EXCEPT ![t] = "delivered"]
          /\ UNCHANGED lock
       \/ /\ Full
          /\ lock' = Free
          /\ pc' = [pc EXCEPT ![t] = "blocked"]
          /\ UNCHANGED log
    /\ filled' = (filled \/ Full)
    /\ UNCHANGED <<envVars, held, timer, pending, accepted, crashed, caller, cur>>

\* r.out <- f outside the lock. Which of several blocked threads sends first
\* is open: one that has unlocked may not be waiting on the channel yet.
SendBlocked(t) ==
    /\ pc[t] = "blocked"
    /\ ~Full
    /\ log' = Append(log, cur[t])
    /\ pc' = [pc EXCEPT ![t] = "relock"]
    /\ UNCHANGED <<envVars, next, held, timer, pending, lock, accepted, crashed, filled,
                   caller, cur>>

Relock(t) ==
    /\ pc[t] = "relock" /\ lock = Free
    /\ lock' = t
    /\ pc' = [pc EXCEPT ![t] = "delivered"]
    /\ UNCHANGED <<envVars, next, held, timer, pending, log, accepted, crashed, filled,
                   caller, cur>>

\* r.held = r.held[1:] in the loops of flushContiguous and timeoutFlush.
SlicePanic(t) ==
    /\ pc[t] = "delivered" /\ caller[t] # "Push"
    /\ held = {}
    /\ crashed' = TRUE
    /\ UNCHANGED <<envVars, next, held, timer, pending, log, lock, accepted, filled, thrVars>>
-----------------------------------------------------------------------------
(* flushContiguous and timeoutFlush, from the return of one deliver to the *)
(* next, or to the end of the function                                     *)

\* Fault: the loop drops held[0] before it has delivered it.
FlushPopsFirst(t) ==
    /\ pc[t] = "delivered" /\ caller[t] # "timeoutFlush"
    /\ held' = Rest(held)
    /\ \/ /\ IsFirst(next, held')
          /\ Enter(t, next, "flushContiguous")
          /\ UNCHANGED <<timer, pending>>
       \/ /\ ~IsFirst(next, held')
          /\ ReturnFromPush(t, held')
    /\ UNCHANGED <<envVars, next, log, accepted, crashed, filled>>

FlushContiguous(t) ==
    /\ pc[t] = "delivered"
    /\ \/ caller[t] = "Push" /\ held' = held
       \/ caller[t] = "flushContiguous" /\ held # {} /\ held' = Rest(held)
    /\ \/ /\ IsFirst(next, held')
          /\ Enter(t, next, "flushContiguous")
          /\ UNCHANGED <<timer, pending>>
       \/ /\ ~IsFirst(next, held')
          /\ ReturnFromPush(t, held')
    /\ UNCHANGED <<envVars, next, log, accepted, crashed, filled>>

TimerFires(n) ==
    /\ n \in pending
    /\ pending' = pending \ {n}
    /\ pc' = [pc EXCEPT ![n] = "fired"]
    /\ UNCHANGED <<envVars, next, held, timer, log, lock, accepted, crashed, filled,
                   caller, cur>>

\* Fault: timeoutFlush delivers one frame where it should loop.
TimeoutFlushOnce(n) ==
    /\ \/ /\ pc[n] = "fired" /\ lock = Free
          /\ timer' = NoTimer
          /\ held' = held
          /\ \E h \in held : IsFirst(h, held) /\ Enter(n, h, "timeoutFlush")
       \/ /\ pc[n] = "delivered"
          /\ held' = Rest(held)
          /\ lock' = Free
          /\ pc' = [pc EXCEPT ![n] = "idle"]
          /\ UNCHANGED <<timer, caller, cur>>
    /\ UNCHANGED <<envVars, next, pending, log, accepted, crashed, filled>>

TimeoutFlush(n) ==
    /\ \/ /\ pc[n] = "fired" /\ lock = Free
          /\ timer' = NoTimer
          /\ held' = held
       \/ /\ pc[n] = "delivered" /\ caller[n] = "timeoutFlush" /\ held # {}
          /\ held' = Rest(held)
          /\ UNCHANGED timer
    /\ \/ \E h \in held' : IsFirst(h, held') /\ Enter(n, h, "timeoutFlush")
       \/ /\ held' = {}
          /\ lock' = Free
          /\ pc' = [pc EXCEPT ![n] = "idle"]
          /\ UNCHANGED <<caller, cur>>
    /\ UNCHANGED <<envVars, next, pending, log, accepted, crashed, filled>>
-----------------------------------------------------------------------------
Push(t) ==
    PushDuplicate(t) \/ PushInOrder(t) \/ PushOutOfOrder(t)

DeliverSteps(t) ==
    Deliver(t) \/ SendBlocked(t) \/ Relock(t) \/ SlicePanic(t)

ReaderStep(t) == Push(t) \/ DeliverSteps(t) \/ FlushContiguous(t)
TimerStep(n) == TimerFires(n) \/ TimeoutFlush(n) \/ DeliverSteps(n)

Next ==
    /\ ~crashed
    /\ \/ SendFrame
       \/ Consume
       \/ PipeReturns
       \/ \E t \in Readers : ReaderStep(t) \/ \E n \in Seqs : Dispatch(t, n)
       \/ \E n \in Timers : TimerStep(n)

Spec == Init /\ [][Next]_vars

(***************************************************************************)
(* Goroutines that can run do run, a running timer fires, and a pipe that  *)
(* has not returned keeps reading. Nothing makes the server send, a read   *)
(* loop pick a frame up, or the pipe return.                               *)
(***************************************************************************)
Fairness ==
    /\ \A t \in Readers : WF_vars(~crashed /\ ReaderStep(t))
    /\ \A n \in Timers : WF_vars(~crashed /\ TimerStep(n))
    /\ WF_vars(~crashed /\ Consume)

FairSpec == Spec /\ Fairness
-----------------------------------------------------------------------------
(* Properties *)

\* Every variable holds a value of its type.
TypeOK ==
    /\ sent \in 0..MaxSeq
    /\ net \subseteq Seqs
    /\ next \in 1..(MaxSeq + 1)
    /\ held \subseteq Seqs
    /\ timer \in {NoTimer} \cup Timers
    /\ pending \subseteq Timers
    /\ log \in Seq(Seqs)
    /\ nread \in 0..Len(log)
    /\ quit \in BOOLEAN
    /\ lock \in {Free} \cup Threads
    /\ pc \in [Threads -> {"idle", "push", "fired", "deliver", "blocked",
                           "relock", "delivered"}]
    /\ caller \in [Threads -> {"Push", "flushContiguous", "timeoutFlush"}]
    /\ cur \in [Threads -> {0} \cup Seqs]
    /\ accepted \subseteq Seqs
    /\ crashed \in BOOLEAN
    /\ filled \in BOOLEAN

\* r.mu protects the buffer: a thread between taking and giving up r.mu, and
\* no other, is the one that holds it, also around the Unlock and Lock that
\* deliver makes in its middle.
MutexHeld ==
    \A t \in Threads : pc[t] \in {"deliver", "delivered"} <=> lock = t

\* "delivers them in seq order": until deliver finds out full, a frame reaches
\* out only after every frame with a smaller number that reaches it, and
\* never twice, whatever Push and timeoutFlush race for.
Increasing == \A i, j \in 1..Len(log) : i < j => log[i] < log[j]
InSeqOrder == ~filled => Increasing

\* "ordered, reliable delivery": a frame that Push took in is in held, in the
\* hands of a thread that will send it, or has been sent.
ReliableDelivery ==
    \A n \in accepted :
        \/ n \in held
        \/ \E i \in 1..Len(log) : log[i] = n
        \/ \E t \in Threads : pc[t] \in {"deliver", "blocked"} /\ cur[t] = n

\* Until deliver finds out full, no interleaving of the loops drops a frame.
NoAcceptedFrameLost == ~filled => ReliableDelivery

\* The loops never slice an empty held, until deliver has given up the lock
\* in their middle.
NoSlicePanic == crashed => filled

\* No frame is stranded behind a gap: while held is not empty a gap timer is
\* running, has fired and waits for the lock, or some thread is inside
\* deliver and will look at held again. This holds whether out fills or not.
GapIsWatched ==
    held # {} =>
        \/ pending # {}
        \/ \E t \in Threads : pc[t] \in {"fired", "deliver", "blocked", "relock",
                                         "delivered"}

\* ... and so a held frame leaves the buffer, unless the flow ends first or
\* the process has panicked.
HeldIsFlushed ==
    \A n \in Seqs : (n \in held) ~> (n \notin held \/ quit \/ crashed)

\* The buffer implements ordered, at-most-once delivery to a reader that
\* keeps up.
Abstract == INSTANCE OrderedDelivery WITH overrun <- filled
ImplementsOrderedDelivery == Abstract!Spec
=============================================================================
