--------------------------- MODULE MCTokenCreation ---------------------------
(* Constants for model-checking TokenCreation. *)
EXTENDS TokenCreation, TLC
=============================================================================
