------------------------------ MODULE MCPanel ------------------------------
(* Panel for TLC: the bounds are in the configuration. *)
EXTENDS Panel
=============================================================================
