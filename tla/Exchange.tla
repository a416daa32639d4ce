------------------------------ MODULE Exchange ------------------------------
(***************************************************************************)
(* What a session promises the two sides of one swap, with no room, no     *)
(* relays and no messages in it: the receiver's key hash comes to the      *)
(* funder, and the contract the funder builds for it comes back.           *)
(*                                                                         *)
(*   - the user's own hand can give the funder a wrong hash, also for the  *)
(*     receiver's, until the receiver took the contract or it was paid;    *)
(*   - the receiver takes the contract only when it was built for their    *)
(*     hash, and then the funder's hash is never another;                  *)
(*   - a contract that was paid is never rebuilt.                          *)
(***************************************************************************)
CONSTANTS Funder, Receiver,
          None, Wrong, Right   \* what a side holds of the other's

VARIABLES begun,    \* the sides that have the swap
          hash,     \* what the funder holds for the receiver's key
          contract, \* what the receiver holds for the contract
          paid      \* the funder paid the contract

Init == /\ begun = {}
        /\ hash = None
        /\ contract = None
        /\ paid = FALSE

\* A side begins; the funder may do so with the hash that came in an offer.
Begin == /\ \E b \in {Funder, Receiver} \ begun : begun' = begun \cup {b}
         /\ \/ UNCHANGED hash
            \/ Receiver \in begun /\ Funder \notin begun /\ hash' = Right
         /\ UNCHANGED <<contract, paid>>

Mistype == /\ Funder \in begun /\ contract = None /\ ~paid
           /\ hash' = Wrong
           /\ UNCHANGED <<begun, contract, paid>>

HashArrives == /\ {Funder, Receiver} \subseteq begun /\ ~paid
               /\ hash' = Right
               /\ UNCHANGED <<begun, contract, paid>>

ContractArrives == /\ {Funder, Receiver} \subseteq begun
                   /\ hash = Right
                   /\ contract' = Right
                   /\ UNCHANGED <<begun, hash, paid>>

Pay == /\ Funder \in begun /\ hash # None
       /\ paid' = TRUE
       /\ UNCHANGED <<begun, hash, contract>>

Next == Begin \/ Mistype \/ HashArrives \/ ContractArrives \/ Pay

Spec == Init /\ [][Next]_<<begun, hash, contract, paid>>
=============================================================================
