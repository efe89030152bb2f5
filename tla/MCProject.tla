----------------------------- MODULE MCProject ------------------------------
(* Project with two ROMs, the second one byte longer than the first. *)
EXTENDS Project

CONSTANTS small, large

MCRomSize == [r \in Roms |-> IF r = small THEN 1 ELSE 2]
=============================================================================
