----------------------------- MODULE MCSession ------------------------------
(* The bounds are in the configuration: one press of Re-sync, a funder who pays, *)
(* and a budget of three for that and for what goes wrong.                       *)
EXTENDS Session
=============================================================================
