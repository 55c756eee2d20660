------------------------------ MODULE MCMemory ------------------------------
(* Memory with one ordinary room both Residents belong to and one incognito. *)
EXTENDS Memory, TLC

CONSTANTS a, b, open, secret, x, y

MCMembersOf == [r \in Rooms |-> Residents]
\* The third message is one of the incognito room, whether the first two were
\* processed before the start or not.
MCRoomOf == [i \in Messages |-> IF i = 3 THEN secret ELSE open]

\* Nothing distinguishes the two Residents.
ResidentSymmetry == Permutations(Residents)
=============================================================================
