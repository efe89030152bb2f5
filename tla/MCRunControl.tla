---------------------------- MODULE MCRunControl ----------------------------
(* RunControl with two code addresses, one of which may be a breakpoint. *)
EXTENDS RunControl

CONSTANTS p, q

MCCpuPoints == {p, Watch}
=============================================================================
