--------------------------- MODULE OrderedDelivery ---------------------------
(***************************************************************************)
(* What a reorder buffer promises the goroutine that reads its output      *)
(* channel: of the frames the sender has numbered 1, 2, 3, ... a subset    *)
(* reaches the reader, each at most once and in the order of the numbers.  *)
(* A frame the transport lost, or one that came after the gap timer had    *)
(* skipped it, is left out; it never comes out of place. The promise is    *)
(* given to a reader that keeps up: it ends when the channel overruns.     *)
(* (ftp/common/reorder.go, the header comment of the file.)                *)
(***************************************************************************)
EXTENDS Naturals, Sequences

CONSTANT MaxSeq         \* bound on the number of frames of one flow

VARIABLES sent,         \* frames numbered so far by the sender
          log,          \* sequence numbers handed to the reader, oldest first
          overrun       \* the reader has let its channel fill up

vars == <<sent, log, overrun>>

Init == sent = 0 /\ log = <<>> /\ overrun = FALSE

\* The sender numbers another frame.
Number ==
    /\ sent < MaxSeq
    /\ sent' = sent + 1
    /\ UNCHANGED <<log, overrun>>

\* The reader gets a frame that is newer than every frame it has.
Deliver(n) ==
    /\ overrun \/ \A i \in 1..Len(log) : log[i] < n
    /\ log' = Append(log, n)
    /\ UNCHANGED <<sent, overrun>>

\* The reader does not keep up.
Overrun ==
    /\ overrun' = TRUE
    /\ UNCHANGED <<sent, log>>

Next == Number \/ Overrun \/ \E n \in 1..sent : Deliver(n)

Spec == Init /\ [][Next]_vars
=============================================================================
