------------------------------ MODULE MCBoard -------------------------------
(* Two tabs of the author's, one relay and one reader, which may be given   *)
(* any version at any time, as if by another relay.                         *)
EXTENDS Board
=============================================================================
