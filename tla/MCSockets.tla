----------------------------- MODULE MCSockets -----------------------------
(* Programs and their ports for the runs of Sockets. *)
EXTENDS Sockets

CONSTANTS s1, s2, c1, c2, x

Ports(one, two) == [p \in Programs |-> CASE p \in one -> 1
                                          [] p \in two -> 2
                                          [] OTHER -> 0]

BindOne == Ports({s1}, {})
\* c2 asks for the port of s1 before it connects to s2.
BindShared == Ports({s1, c2}, {s2})
ConnectOne == Ports({c1}, {})
ConnectTwo == Ports({c1}, {c2})
=============================================================================
