---------------------------- MODULE AtomicRecord ----------------------------
(***************************************************************************)
(* What the store of swap records promises its callers, with no tabs, no   *)
(* locks and no versions in it: one record, which every call changes in    *)
(* one indivisible step.  The record is the set of the calls whose         *)
(* decisions it holds, so losing a call's decision is losing an element.   *)
(*                                                                         *)
(*   - a call adds its decision to the record as it is at that moment;     *)
(*   - it is created once, and a record that is gone comes back only as a  *)
(*     copy the user exported earlier and imported again.                  *)
(*                                                                         *)
(* The promise lapses when a context outside the program takes the lock    *)
(* away from a call that is running (Lapse).                               *)
(***************************************************************************)
CONSTANTS Call,     \* the calls that may change the record
          Absent,   \* no record under the swap's id
          Lapsed    \* the promise no longer holds

VARIABLES record,   \* the set of calls whose decisions the record holds
          exported, \* the copies of it the user took out
          created   \* there was a record at some time

Init == /\ created \in BOOLEAN
        /\ record = IF created THEN {} ELSE Absent
        /\ exported \in SUBSET (IF created THEN {{}} ELSE {})

Create == /\ ~created
          /\ created' = TRUE
          /\ \E c \in Call : record' = {c}
          /\ UNCHANGED exported

Decide == /\ record \notin {Absent, Lapsed}
          /\ \E c \in Call : record' = record \cup {c}
          /\ UNCHANGED <<exported, created>>

Delete == /\ record \notin {Absent, Lapsed}
          /\ record' = Absent
          /\ UNCHANGED <<exported, created>>

Export == /\ record \notin {Absent, Lapsed}
          /\ exported' = exported \cup {record}
          /\ UNCHANGED <<record, created>>

Import == /\ record = Absent
          /\ record' \in exported
          /\ UNCHANGED <<exported, created>>

Lapse == record' = Lapsed

Next == Create \/ Decide \/ Delete \/ Export \/ Import \/ Lapse

Spec == Init /\ [][Next]_<<record, exported, created>>
=============================================================================
