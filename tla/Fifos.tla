------------------------------- MODULE Fifos -------------------------------
(***************************************************************************)
(* What a fragment manager promises: its blocks are in two queues; a block *)
(* is taken from the front of one and goes to the back of the other.       *)
(***************************************************************************)
EXTENDS Sequences

VARIABLES idle, busy

Take == /\ idle # <<>>
        /\ idle' = Tail(idle)
        /\ busy' = Append(busy, Head(idle))

Give == /\ busy # <<>>
        /\ busy' = Tail(busy)
        /\ idle' = Append(idle, Head(busy))

Init == busy = <<>>

Spec == Init /\ [][Take \/ Give]_<<idle, busy>>
=============================================================================
