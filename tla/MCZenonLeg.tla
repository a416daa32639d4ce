----------------------------- MODULE MCZenonLeg -----------------------------
(* Two tabs and two entries, so that one entry may replace another, or a    *)
(* second be locked from the same tab or another; they are interchangeable. *)
(* MCZenonLegWallet.cfg takes one of each instead, two accounts of which    *)
(* one denies proxy unlock, and two changes of the wallet's settings.       *)
EXTENDS ZenonLeg, TLC
Interchangeable == Permutations(Id) \cup Permutations(Tabs)
=============================================================================
