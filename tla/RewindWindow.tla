---------------------------- MODULE RewindWindow ----------------------------
(***************************************************************************)
(* What the rewind buffer promises its user: the last Capacity save states *)
(* pushed, oldest first, of which the newest can be taken back.            *)
(***************************************************************************)
EXTENDS Integers, Sequences

CONSTANTS Frames, Capacity

VARIABLE window

Init == window = << >>

Push(f) ==
    window' = Append(IF Len(window) = Capacity THEN Tail(window) ELSE window, f)

DropLast(n) == window' = SubSeq(window, 1, Len(window) - n)

Clear == window' = << >>

Next ==
    \/ \E f \in Frames : Push(f)
    \/ \E n \in 1 .. Len(window) : DropLast(n)
    \/ Clear

Spec == Init /\ [][Next]_window
=============================================================================
