--------------------------- MODULE MCRewindBuffer ---------------------------
(* RewindBuffer on a ring of a few entries, with save states of two sizes. *)
EXTENDS RewindBuffer

CONSTANTS s1, s2, t1

\* Two save states of one PPU implementation and one of the other.
MCFrames == {s1, s2, t1}
MCSize == [f \in MCFrames |-> IF f = t1 THEN 3 ELSE 2]
=============================================================================
