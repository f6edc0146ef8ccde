---------------------------- MODULE MCDpiSession ----------------------------
(***************************************************************************)
(* DpiSession for TLC. Connections differ only in being Busy or not.       *)
(***************************************************************************)
EXTENDS DpiSession, TLC

Alike == Permutations(Busy) \cup Permutations(Conns \ Busy)
=============================================================================
