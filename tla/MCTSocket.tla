------------------------------ MODULE MCTSocket ------------------------------
(***************************************************************************)
(* TSocket on small instances.                                             *)
(***************************************************************************)
EXTENDS TSocket

MCUp == <<3, 3>>
MCDown == <<2, 4, 3>>
=============================================================================
