--------------------------- MODULE MCReorderBuffer ---------------------------
(* Instances of ReorderBuffer for TLC. *)
EXTENDS ReorderBuffer

CONSTANTS r1, r2

OneReader == {r1}
TwoReaders == {r1, r2}
=============================================================================
