----------------------------- MODULE MCChannel -----------------------------
(* Budgets of the two programs for the runs of Channel. *)
EXTENDS Channel

Sends(server, client) ==
    [e \in {Server, Client} |-> IF e = Server THEN server ELSE client]
ThreeTwo == Sends(3, 2)
TwoOne == Sends(2, 1)
=============================================================================
