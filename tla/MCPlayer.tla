------------------------------ MODULE MCPlayer ------------------------------
(* Small instances of Player for TLC. *)
EXTENDS Player

CONSTANTS a1, a2, k1, k2, k3

=============================================================================
