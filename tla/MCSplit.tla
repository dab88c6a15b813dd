------------------------------ MODULE MCSplit ------------------------------
(* Lengths around the boundaries of one to five blocks for Split. *)
EXTENDS Split

Boundaries == {0, 1, 4095, 4096, 4097, 6143, 6144, 8192, 10239, 10240, 12288,
               16383, 16384, 18432}
Odd == {6000}
=============================================================================
