-------------------------------- MODULE Wire --------------------------------
(***************************************************************************)
(* The JSON that carries the messages: what the client's classes write     *)
(* through Gson and the server's library reads (fromJson and the request   *)
(* visitor), and what the library writes (toJson) and the two response     *)
(* visitors read, the client's and the library's own.  A tree is a record  *)
(* whose fields are the properties that are there; a datetime is "now".    *)
(***************************************************************************)
EXTENDS Naturals, Messages

(* Java's qualified class names, which the client writes as the type tag,  *)
(* and the TYPE constants of the library's classes.                        *)
ClassName ==
  [LoginRequest   |-> "network.request.LoginRequest",
   MessageRequest |-> "network.request.MessageRequest",
   LoginResponse  |-> "network.response.LoginResponse",
   MessageResponse |-> "network.response.MessageResponse",
   ServerError    |-> "network.response.ServerError"]

TYPE ==
  [LoginRequest   |-> "network.request.LoginRequest",
   MessageRequest |-> "network.request.MessageRequest",
   LoginResponse  |-> "network.response.LoginResponse",
   MessageResponse |-> "network.response.MessageResponse",
   ServerError    |-> "network.response.ServerError"]

(* A conversion that ends in an exception.                                 *)
Thrown == [type |-> "thrown"]

Has(json, properties) == properties \subseteq DOMAIN json

Without(json, property) == [p \in DOMAIN json \ {property} |-> json[p]]

-----------------------------------------------------------------------------
(* The client writes a request: AbstractNetworkInstance.toJson.            *)
JavaFields(request) ==
  IF request.type = "LoginRequest"
  THEN [datetime |-> "now", sender |-> request.sender]
  ELSE [datetime |-> "now", sender |-> request.sender, content |-> request.content]

JavaJson(request) == [type |-> ClassName[request.type], object |-> JavaFields(request)]

-----------------------------------------------------------------------------
(* The server reads a request.                                             *)

(* instance::extractFrom: both tags must be there.                         *)
Tagged(json) == Has(json, {"type", "object"})

(* extractCommonParams throws unless both are there; what the datetime     *)
(* says is not looked at.                                                  *)
HasCommonParams(object) == Has(object, {"datetime", "sender"})

ReadMessageRequest(json) ==
  IF HasCommonParams(json.object) /\ Has(json.object, {"content"})
  THEN MessageRequest(json.object.sender, json.object.content)
  ELSE Incomplete

ReadLoginRequest(json) ==
  IF HasCommonParams(json.object) THEN LoginRequest(json.object.sender) ELSE Incomplete

(* request::abstract_message_visitor::visit.  fromJson throws or returns   *)
(* an instance, never null, so that onError is never called.               *)
VisitRequest(json) ==
  CASE ~Tagged(json) -> Untagged
    [] Tagged(json) /\ json.type = TYPE.LoginRequest -> ReadLoginRequest(json)
    [] Tagged(json) /\ json.type = TYPE.MessageRequest -> ReadMessageRequest(json)
    [] OTHER -> UnknownTag

-----------------------------------------------------------------------------
(* The server writes a response: subToJson of each class and toJson.       *)
CODE ==
  [NONE                             |-> 0,
   USER_NAME_IN_USE                 |-> 1,
   INVALID_USER_NAME                |-> 2,
   INVALID_REQUEST_FROM_CLIENT      |-> 50,
   MALFORMED_REQUEST_UNKNWN         |-> 200,
   MALFORMED_REQUEST_NO_TYPE        |-> 201,
   MALFORMED_REQUEST_UNKNOWN_TYPE   |-> 202,
   MALFORMED_REQUEST_BAD_OBJECT_DEF |-> 203,
   MALFORMED_REQUEST_NO_OBJ         |-> 210]

LoginFields(response) ==
  [datetime |-> "now", sender |-> SERVER_SENDER, joiningUsername |-> response.joiningUsername]

(* Mutant: the property is not what the client's class calls it.           *)
MessageFieldsRenamed(response) ==
  [datetime |-> "now", sender |-> SERVER_SENDER,
   origin |-> response.originator, content |-> response.content]

MessageFields(response) ==
  [datetime |-> "now", sender |-> SERVER_SENDER,
   originator |-> response.originator, content |-> response.content]

ErrorFields(response) ==
  [datetime |-> "now", sender |-> SERVER_SENDER,
   code |-> CODE[response.code], message |-> "text", originator |-> response.originator]

ToJson(response) ==
  [type   |-> TYPE[response.type],
   object |-> CASE response.type = "LoginResponse"   -> LoginFields(response)
                [] response.type = "MessageResponse" -> MessageFields(response)
                [] response.type = "ServerError"     -> ErrorFields(response)]

-----------------------------------------------------------------------------
(* The library reads a response back.                                      *)
ReadLoginResponse(object) ==
  IF HasCommonParams(object) /\ Has(object, {"joiningUsername"})
  THEN LoginResponse(object.joiningUsername)
  ELSE Thrown

ReadMessageResponse(object) ==
  IF HasCommonParams(object) /\ Has(object, {"content", "originator"})
  THEN MessageResponse(object.originator, object.content)
  ELSE Thrown

ReadError(object) ==
  IF HasCommonParams(object) /\ Has(object, {"code", "message", "originator"})
  THEN ServerError(object.originator, CHOOSE code \in DOMAIN CODE : CODE[code] = object.code)
  ELSE Thrown

(* response::abstract_message_visitor::visit.  No reader is registered for *)
(* an error, which is reported as a response with no type.                 *)
VisitResponse(json) ==
  CASE Tagged(json) /\ json.type = TYPE.LoginResponse -> ReadLoginResponse(json.object)
    [] Tagged(json) /\ json.type = TYPE.MessageResponse -> ReadMessageResponse(json.object)
    [] OTHER -> BadRequest

-----------------------------------------------------------------------------
(* The client reads a response: AbstractResponseVisitor.visit.  A property *)
(* that is not there is null to Gson; a class that is no response, and the *)
(* class of errors, end in an exception.                                   *)
Property(json, property) == IF Has(json, {property}) THEN json[property] ELSE "null"

JavaVisit(json) ==
  CASE Tagged(json) /\ json.type = ClassName.LoginResponse ->
         LoginResponse(Property(json.object, "joiningUsername"))
    [] Tagged(json) /\ json.type = ClassName.MessageResponse ->
         MessageResponse(Property(json.object, "originator"), Property(json.object, "content"))
    [] OTHER -> Thrown
=============================================================================
