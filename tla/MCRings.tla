------------------------------ MODULE MCRings ------------------------------
(* Handler threads for the runs of Rings. *)
EXTENDS Rings

CONSTANTS writer, reader
=============================================================================
