---------------------------- MODULE MCMseDecoder ----------------------------
(* A small instance of MseDecoder for TLC. *)
EXTENDS MseDecoder

=============================================================================
