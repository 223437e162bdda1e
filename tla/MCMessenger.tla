---------------------------- MODULE MCMessenger ----------------------------
(***************************************************************************)
(* Messenger on small instances.                                           *)
(***************************************************************************)
EXTENDS Messenger

CONSTANTS u, v, p1
=============================================================================
