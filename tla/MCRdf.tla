------------------------------- MODULE MCRdf -------------------------------
(***************************************************************************)
(* Rdf on small instances.                                                  *)
(***************************************************************************)
EXTENDS Rdf

CONSTANTS b, keyA, keyB

\* Every object but b competes for one name.
MCKeyOf == [r \in Residents |-> IF r = b THEN keyB ELSE keyA]
=============================================================================
