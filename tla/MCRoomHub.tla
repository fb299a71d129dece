------------------------------ MODULE MCRoomHub ------------------------------
(* Three codes, three rooms in turn, two sockets of one client and another's. *)
EXTENDS RoomHub, TLC

CONSTANTS x, k1, k2, k3, a, b, c

MCaddress == [n \in Conn |-> IF n = c THEN NoAddress ELSE x]
HubSymmetry == Permutations(Code) \cup Permutations({a, b})
=============================================================================
