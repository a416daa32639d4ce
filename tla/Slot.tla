-------------------------------- MODULE Slot --------------------------------
(***************************************************************************)
(* What a post promises: a slot whose versions are numbered in the order   *)
(* its author made them, with no clocks, no ids and no tabs in it.         *)
(*                                                                         *)
(*   - a version is made after all that were and is then put out, or not;  *)
(*   - a relay serves a version that was put out, and changes it for a     *)
(*     later one only, or drops it;                                        *)
(*   - what a reader shows was put out, and is never followed by an        *)
(*     earlier one: an edit is not undone, nor a withdrawal, by what was   *)
(*     delivered late.                                                     *)
(*                                                                         *)
(* A version is its number, above 0; 0 is no version.                      *)
(***************************************************************************)
EXTENDS Naturals

CONSTANTS Relays, Readers, Versions

VARIABLES made,  \* the numbers of the versions made
          out,   \* those that were put out
          keeps, \* per relay: the version it serves
          shows  \* per reader: the version it shows

Init == /\ made \in SUBSET {1}
        /\ out = made
        /\ keeps \in [Relays -> out \cup {0}]
        /\ shows = [c \in Readers |-> 0]

Make == \E n \in Versions :
    /\ \A m \in made : m < n
    /\ made' = made \cup {n}
    /\ UNCHANGED <<out, keeps, shows>>

PutOut == /\ out \subseteq out' /\ out' \subseteq made
          /\ UNCHANGED <<made, keeps, shows>>

Keep == \E r \in Relays, n \in out :
    /\ keeps[r] < n
    /\ keeps' = [keeps EXCEPT ![r] = n]
    /\ UNCHANGED <<made, out, shows>>

Drop == \E r \in Relays :
    /\ keeps' = [keeps EXCEPT ![r] = 0]
    /\ UNCHANGED <<made, out, shows>>

Show == \E c \in Readers, n \in out :
    /\ shows[c] < n
    /\ shows' = [shows EXCEPT ![c] = n]
    /\ UNCHANGED <<made, out, keeps>>

Next == Make \/ PutOut \/ Keep \/ Drop \/ Show

Spec == Init /\ [][Next]_<<made, out, keeps, shows>>
=============================================================================
