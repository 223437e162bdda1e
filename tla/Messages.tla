------------------------------ MODULE Messages ------------------------------
(***************************************************************************)
(* The vocabulary of the wire: the request and response classes of the     *)
(* server's msg library (and of the client's network package), reduced to  *)
(* the fields the program's decisions depend on.  Every instance also      *)
(* carries a datetime, which nothing ever compares, and a sender, which    *)
(* for a response is always SERVER_SENDER; both are left out.              *)
(***************************************************************************)

CONSTANTS
  Names,     \* the usernames clients use
  Contents,  \* the payloads of chat messages
  Oversize   \* the payloads whose request exceeds MAX_BUFFER_SIZE bytes

ASSUME OversizeAssumption == Oversize \subseteq Contents

SERVER_SENDER  == "@server"
UNKNOWN_SENDER == "@unknown"

ErrorCode ==
  { "INVALID_REQUEST_FROM_CLIENT", "USER_NAME_IN_USE", "INVALID_USER_NAME",
    "MALFORMED_REQUEST_UNKNWN", "MALFORMED_REQUEST_NO_TYPE",
    "MALFORMED_REQUEST_UNKNOWN_TYPE", "MALFORMED_REQUEST_BAD_OBJECT_DEF",
    "MALFORMED_REQUEST_NO_OBJ" }

-----------------------------------------------------------------------------
(* Requests.  A login names its user as the sender of the instance.        *)

LoginRequest(name) == [type |-> "LoginRequest", sender |-> name]

MessageRequest(name, content) ==
  [type |-> "MessageRequest", sender |-> name, content |-> content]

(* JSON that parses but is not a request: without a type or an object tag, *)
(* with a type no visitor is registered for, or of a known type whose      *)
(* object lacks a property that fromJson reads.                            *)
Untagged   == [type |-> "untagged"]
UnknownTag == [type |-> "unknown"]
Incomplete == [type |-> "incomplete"]

Malformed == {Untagged, UnknownTag, Incomplete}

Request ==
  { LoginRequest(n) : n \in Names }
    \cup { MessageRequest(n, p) : n \in Names, p \in Contents }
    \cup Malformed

(* A request that one recv() into a MAX_BUFFER_SIZE buffer can hold, with  *)
(* a byte to spare for the zero that ends the string made of it.           *)
FitsBuffer(r) == r.type = "MessageRequest" => r.content \notin Oversize

-----------------------------------------------------------------------------
(* Responses.                                                              *)

LoginResponse(name) == [type |-> "LoginResponse", joiningUsername |-> name]

MessageResponse(name, content) ==
  [type |-> "MessageResponse", originator |-> name, content |-> content]

ServerError(originator, code) ==
  [type |-> "ServerError", originator |-> originator, code |-> code]

Response ==
  { LoginResponse(n) : n \in Names }
    \cup { MessageResponse(n, p) : n \in Names, p \in Contents }
    \cup { ServerError(o, code) : o \in {SERVER_SENDER, UNKNOWN_SENDER},
                                  code \in ErrorCode }

(* server::visitLogin refuses a name with this error, whose originator is  *)
(* the server and which does not say which name was refused.               *)
NameInUse == ServerError(SERVER_SENDER, "USER_NAME_IN_USE")

(* abstract_message_visitor::visit answers a request it cannot dispatch,   *)
(* whether a tag is missing or its type is unknown, with the same code.    *)
BadRequest == ServerError(UNKNOWN_SENDER, "MALFORMED_REQUEST_NO_TYPE")
=============================================================================
