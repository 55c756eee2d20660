------------------------------ MODULE MCTools ------------------------------
(* Tools with a group of both Residents, a room of the first and its       *)
(* incognito one.                                                           *)
EXTENDS Tools

CONSTANTS a, b, group, solo, secret, c

MCMembersOf == [r \in Rooms |-> IF r = group THEN {a, b} ELSE {a}]
MCRoomOf == [i \in Messages |-> CASE i = 2 -> solo [] i = 3 -> secret [] OTHER -> group]
=============================================================================
