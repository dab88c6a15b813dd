---------------------------- MODULE MCPingPong ----------------------------
(* The two programs for the runs of PingPong. *)
EXTENDS PingPong

CONSTANTS s, c
=============================================================================
