------------------------------- MODULE Stream -------------------------------
(***************************************************************************)
(* What a connection promises its two programs: each end posts numbered    *)
(* messages; its peer receives exactly those, in order, each once.  A post *)
(* may be refused (the number is then skipped).  An end that has shut      *)
(* posts and receives nothing more.                                        *)
(***************************************************************************)
EXTENDS Integers, Sequences

CONSTANTS Server, Client
VARIABLES posted, received, shut

Ends == {Server, Client}
Other(e) == IF e = Server THEN Client ELSE Server
vars == <<posted, received, shut>>

Extends(new, old) == Len(new) = Len(old) + 1 /\ SubSeq(new, 1, Len(old)) = old
Last(s) == IF s = <<>> THEN 0 ELSE s[Len(s)]

Init == /\ posted = [e \in Ends |-> <<>>]
        /\ received = [e \in Ends |-> <<>>]
        /\ shut = {}

Post(e) == /\ e \notin shut
           /\ Extends(posted'[e], posted[e])
           /\ Last(posted'[e]) > Last(posted[e])
           /\ posted' = [posted EXCEPT ![e] = posted'[e]]
           /\ UNCHANGED <<received, shut>>

Receive(e) == /\ e \notin shut
              /\ Len(received[e]) < Len(posted[Other(e)])
              /\ received' = [received EXCEPT ![e] =
                     Append(@, posted[Other(e)][Len(@) + 1])]
              /\ UNCHANGED <<posted, shut>>

Shut(e) == e \notin shut /\ shut' = shut \cup {e} /\ UNCHANGED <<posted, received>>

Next == \E e \in Ends : Post(e) \/ Receive(e) \/ Shut(e)

Spec == Init /\ [][Next]_vars
=============================================================================
