---------------------------- MODULE MCFtpSession ----------------------------
(* Instances of FtpSession for TLC. *)
EXTENDS FtpSession

CONSTANTS a1, a2, b1    \* two channels of one index, one of another
CONSTANT tcp1

TwoThenOne == [c \in Chans |-> IF c = b1 THEN 1 ELSE 0]
=============================================================================
