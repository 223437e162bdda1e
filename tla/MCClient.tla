------------------------------ MODULE MCClient ------------------------------
(***************************************************************************)
(* Client on small instances: what the other clients provoke.              *)
(***************************************************************************)
EXTENDS Client

CONSTANT Stranger   \* the name of somebody else

(* A stranger logs in and talks; somebody may want the user's own name; an *)
(* error that concerns another client is broadcast to this one too.        *)
AnyOther ==
  { LoginResponse(n) : n \in Names } \cup {NameInUse}
    \cup { MessageResponse(Stranger, p) : p \in Contents }

Chatter ==
  { LoginResponse(Stranger) } \cup { MessageResponse(Stranger, p) : p \in Contents }

-----------------------------------------------------------------------------
(* What comments say and the code does not do.                             *)

(* MainActivity.java:195: "show the chat room, logged in!"; so a room that *)
(* is on the screen belongs to a user who is logged in.                    *)
RoomMeansLoggedIn == fragment = "room" => state = "ISLOGGEDIN"

(* INetworkingConnection.java:41: the error handler is called if an error  *)
(* occurs; so a task, which calls it when it finishes, does finish.        *)
EverySendEnds == tasks # <<>> ~> tasks = <<>> \/ ~Running
=============================================================================
