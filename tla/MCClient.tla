------------------------------ MODULE MCClient ------------------------------
(* The instance of Client for TLC: model values and small numbers. *)
EXTENDS Client
=============================================================================
