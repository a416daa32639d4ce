------------------------------ MODULE MCStore ------------------------------
(* Calls in two tabs over one swap's record.  Calls are interchangeable, and *)
(* so are tabs, until a run asks whether every call is answered.           *)
EXTENDS Store, TLC

Interchangeable == Permutations(Call) \cup Permutations(Tab)
=============================================================================
