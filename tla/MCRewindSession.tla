--------------------------- MODULE MCRewindSession ---------------------------
(* The values of RewindSession's constants for TLC: two PPU implementations *)
(* and two sizes of SRAM, which give save states of four lengths.           *)
EXTENDS RewindSession

CONSTANTS p1, p2, a1, a2

MCShapes == {p1, p2, a1, a2}
MCAccurate == [s \in MCShapes |-> s \in {a1, a2}]
MCSram == [s \in MCShapes |-> IF s \in {p1, a1} THEN 1 ELSE 2]
MCSize == [s \in MCShapes |-> (IF s \in {a1, a2} THEN 2 ELSE 0) + MCSram[s]]

=============================================================================
