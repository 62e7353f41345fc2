----------------------------- MODULE MCChatRooms ------------------------------
(* ChatRooms for TLC: connections are alike, and so are the roles. *)
EXTENDS ChatRooms, TLC

Symmetry == Permutations(Conn) \union Permutations(Role)
===============================================================================
