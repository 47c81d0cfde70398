------------------------ MODULE MCRdmaOperationOwner ------------------------
(***************************************************************************)
(* Two operations of one session, in every interleaving of their           *)
(* submitters, completions and deadlines.                                  *)
(***************************************************************************)
EXTENDS RdmaOperationOwner
=============================================================================
