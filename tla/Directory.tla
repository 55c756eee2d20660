------------------------------ MODULE Directory ------------------------------
(***************************************************************************)
(* What registration promises, without the channel, the lock, the three    *)
(* maps or the broadcast: a set of registrations, each with its own id,     *)
(* whose names and objects are distinct, and a counter of issued ids.       *)
(***************************************************************************)
EXTENDS Naturals

CONSTANTS Residents, Keys, KeyOf, IdLimit

VARIABLES
    issued,  \* the last id given out
    live     \* the current registrations

dvars == <<issued, live>>

Registrations == [id : 1..IdLimit, resident : Residents]

DirectoryInit == issued = 0 /\ live = {}

NameTaken(r) == \E e \in live : KeyOf[e.resident] = KeyOf[r]

Enter(r) ==
    /\ issued < IdLimit
    /\ ~NameTaken(r)
    /\ issued' = issued + 1
    /\ live' = live \cup {[id |-> issued + 1, resident |-> r]}

\* A name that is taken costs the loser an id.
Burn(r) ==
    /\ issued < IdLimit
    /\ NameTaken(r)
    /\ issued' = issued + 1
    /\ UNCHANGED live

Leave(e) ==
    /\ live' = live \ {e}
    /\ UNCHANGED issued

DirectoryNext ==
    \/ \E r \in Residents : Enter(r) \/ Burn(r)
    \/ \E e \in live : Leave(e)

DirectorySpec == DirectoryInit /\ [][DirectoryNext]_dvars
=============================================================================
