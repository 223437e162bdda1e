------------------------------ MODULE MCServer ------------------------------
(***************************************************************************)
(* Server on small instances: what the clients send in each of its runs.   *)
(***************************************************************************)
EXTENDS Server, TLC

(* Everything a well-behaved client may send, under any name.              *)
WellFormed ==
  { LoginRequest(n) : n \in Names }
    \cup { MessageRequest(n, p) : n \in Names, p \in Contents \ Oversize }

AnyRequest == Request

Symmetry == Permutations(Conns) \cup Permutations(Names)

-----------------------------------------------------------------------------
(* What comments in the headers say and the code does not do.              *)

(* socket.hpp:118: write() returns -1 for an error and 0 when the peer has *)
(* disconnected; so a write to a client that has gone does not end the     *)
(* process.                                                                *)
WriteReportsErrors == proc # "killed"
=============================================================================
