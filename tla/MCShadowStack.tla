---------------------------- MODULE MCShadowStack ----------------------------
(* ShadowStack with tasks on small stacks that lie apart. *)
EXTENDS ShadowStack

CONSTANTS a, b, d, f, g

MCStackBase == [t \in Tasks |-> IF t = a THEN 3 ELSE IF t = b THEN 8 ELSE 13]
MCFilters == {{f}}
=============================================================================
