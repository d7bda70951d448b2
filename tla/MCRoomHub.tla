------------------------------ MODULE MCRoomHub ------------------------------
(* Small instances of RoomHub: one tab of bob's, the others are alice's.   *)
EXTENDS RoomHub, TLC

CONSTANTS alice, bob, b1

Owners == [k \in Conn |-> IF k = b1 THEN bob ELSE alice]

Symmetry == Permutations(Conn \ {b1})
=============================================================================
