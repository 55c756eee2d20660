---------------------------- MODULE MCChatRounds ----------------------------
(***************************************************************************)
(* ChatRounds on small instances: rooms that share a member.                *)
(***************************************************************************)
EXTENDS ChatRounds

CONSTANTS group, solo, secret, m1, m2, done, ping, plain

\* A group of both members, and m1's direct and incognito rooms.
MCMembersOf == [r \in Rooms |-> IF r = group THEN {m1, m2} ELSE {m1}]

\* plain mentions nobody; ping mentions both members, one of them twice; done
\* mentions a member but addresses the user.
MCMentionsOf == [t \in Texts |-> CASE t = plain -> <<>>
                                   [] t = ping -> <<m2, m1, m2>>
                                   [] OTHER -> <<m2>>]
=============================================================================
