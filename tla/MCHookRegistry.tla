--------------------------- MODULE MCHookRegistry ---------------------------
(* The values of HookRegistry's constants for TLC. *)
EXTENDS HookRegistry

\* One range within a page and one over two pages.
MCRanges == {<<0, 0>>, <<0, 2>>}
\* A line shorter and a line longer than the ring.
MCLines == [a \in Addrs |-> IF a = 0 THEN 2 ELSE 4]

=============================================================================
