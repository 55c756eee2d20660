------------------------------ MODULE MCMedia ------------------------------
(* Media with an upload, an answer with an attachment, and an upload in an *)
(* incognito room.                                                          *)
EXTENDS Media

CONSTANTS upload, answer, secret

MCSnapshots == [messages : SUBSET (Senders \ Incognito)]
=============================================================================
