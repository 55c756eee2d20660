------------------------------ MODULE MCRtdf ------------------------------
(***************************************************************************)
(* Rtdf on small instances.                                                 *)
(***************************************************************************)
EXTENDS Rtdf

CONSTANTS b, keyA, keyB

\* Every object but b competes for one name.
MCKeyOf == [r \in Residents |-> IF r = b THEN keyB ELSE keyA]
============================================================================
