------------------------------ MODULE MCBtcLeg ------------------------------
(* Outputs that compete for the record, contracts that replace each other. *)
EXTENDS BtcLeg, TLC

Interchangeable == Permutations(Output) \cup Permutations(Contract)
=============================================================================
