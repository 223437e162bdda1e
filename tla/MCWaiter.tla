------------------------------ MODULE MCWaiter ------------------------------
(***************************************************************************)
(* Waiter on small instances.                                              *)
(***************************************************************************)
EXTENDS Waiter

CONSTANTS s1, s2
=============================================================================
