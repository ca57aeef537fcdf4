---------------------------- MODULE MCConnector ----------------------------
(***************************************************************************)
(* Connector on small instances.                                           *)
(***************************************************************************)
EXTENDS Connector

MCFirst == {1}       \* every client is new
MCResumed == {1, 3}  \* some clients resume an earlier session
=============================================================================
