----------------------------- MODULE MC_NbdAttach -----------------------------
(* Two staging workers of different volumes on one node with two NBD      *)
(* devices: enough for both to pick the same free device.                  *)
EXTENDS NbdAttach

CONSTANTS w1, w2, d1, d2

=============================================================================
