----------------------------- MODULE MCSession -----------------------------
(* Programs for the runs of Session: a hooked one and a stand-alone one. *)
EXTENDS Session

CONSTANTS h1, p1
=============================================================================
