--------------------------- MODULE MCCodexWorker ---------------------------
(***************************************************************************)
(* Instances of CodexWorker: a chat request of an ordinary room, one of an  *)
(* incognito room, one of a caller that names a thread and no room, and a   *)
(* memory trigger of the ordinary room.                                     *)
(***************************************************************************)
EXTENDS CodexWorker

CONSTANTS chat, secret, direct, memory, lobby, hidden, zero

RoomOfEach ==
    [r \in Requests |-> CASE r = secret -> hidden [] r = direct -> zero [] OTHER -> lobby]
NoneAsked == [r \in Requests |-> None]
DirectAsksFirst == [r \in Requests |-> IF r = direct THEN 1 ELSE None]
============================================================================
