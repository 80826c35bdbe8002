------------------------------ MODULE MC_Capacity ------------------------------
(* Instantiation of Capacity for TLC.  The minimum takes every value       *)
(* within two sectors of 0 and of the largest integer; the limit is unset, *)
(* just below, at or just above a sector boundary, or the largest integer. *)
EXTENDS Capacity

Near(n) == (n - 2 * 512)..(n + 2 * 512)

MCRequiredBytes == (0..2 * 512) \cup (Near(MaxInt) \cap 0..MaxInt)

MCLimitBytes ==
    {0, MaxInt - 1, MaxInt} \cup {k * 512 + d : k \in {1, 2}, d \in {-1, 0, 1}}
=============================================================================
