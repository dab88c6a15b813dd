----------------------------- MODULE MCPlugins -----------------------------
(* Plugin directories for the runs of Plugins. *)
EXTENDS Plugins

CONSTANTS a, b, v, x, u

Bad == [f \in Files |-> CASE f = v -> "version"
                          [] f = x -> "nosetup"
                          [] f = u -> "unusable"
                          [] OTHER -> "good"]
All(fn) == [f \in Files |-> fn]
SendOrListen == {All("listen"), All("send"), [All("listen") EXCEPT ![b] = "send"]}
OnlySend == {All("send")}
=============================================================================
