------------------------------- MODULE Escrow -------------------------------
(***************************************************************************)
(* What this user's ZNN is promised, with no wallet, no cards and no node  *)
(* in it: it is locked once; the counterparty takes it before it runs out, *)
(* and pays for it with the preimage, or this user takes it back after;    *)
(* never both.                                                             *)
(*                                                                         *)
(* The promise lapses when a create was published and its id never reached *)
(* the record, or when two tabs had a create in hand at once (Lapse):      *)
(* nothing then keeps the user from locking more.                          *)
(***************************************************************************)
VARIABLES lot,    \* the ZNN: "none", "open", "over", "unlocked", "reclaimed", "lapsed"
          learned \* this user has the preimage, from the unlock of the lot

Init == lot = "none" /\ learned = FALSE

Lock == lot = "none" /\ lot' = "open" /\ UNCHANGED learned

RunsOut == lot = "open" /\ lot' = "over" /\ UNCHANGED learned

Unlock == lot = "open" /\ lot' = "unlocked" /\ UNCHANGED learned

Learn == lot = "unlocked" /\ learned' = TRUE /\ UNCHANGED lot

Reclaim == lot = "over" /\ lot' = "reclaimed" /\ UNCHANGED learned

Lapse == lot' = "lapsed" /\ learned' = FALSE

Next == Lock \/ RunsOut \/ Unlock \/ Learn \/ Reclaim \/ Lapse

Spec == Init /\ [][Next]_<<lot, learned>>
=============================================================================
