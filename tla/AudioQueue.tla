----------------------------- MODULE AudioQueue -----------------------------
(***************************************************************************)
(* What the audio ring promises: a bounded queue of sample frames that     *)
(* refuses the newest frame when it is full, hands out the oldest ones in  *)
(* order, and can be emptied.                                              *)
(***************************************************************************)
EXTENDS Integers, Sequences

CONSTANTS Samples, Capacity

VARIABLES queue, delivered

Init == queue = << >> /\ delivered = << >>

Push(x) ==
    /\ Len(queue) < Capacity
    /\ queue' = Append(queue, x)
    /\ UNCHANGED delivered

Deliver(n) ==
    /\ delivered' = SubSeq(queue, 1, n)
    /\ queue' = SubSeq(queue, n + 1, Len(queue))

Flush == queue' = << >> /\ UNCHANGED delivered

Next ==
    \/ \E x \in Samples : Push(x)
    \/ \E n \in 0 .. Len(queue) : Deliver(n)
    \/ Flush

Spec == Init /\ [][Next]_<<queue, delivered>>
=============================================================================
