------------------------------ MODULE MCFraming -----------------------------
(***************************************************************************)
(* Framing with requests of 3 to 7 bytes, each with an object nested in it *)
(* unless it has none, and a buffer of 6.                                  *)
(***************************************************************************)
EXTENDS Framing

CONSTANTS n1, p1, p5, p6, p7

Whatever ==
  { LoginRequest(n1), MessageRequest(n1, p1), MessageRequest(n1, p5), MessageRequest(n1, p6),
    MessageRequest(n1, p7) } \cup Malformed

(* Of what is no request, one tree for each of the ways to be none.        *)
WrittenAs(request) ==
  LET login   == JavaJson(LoginRequest(n1))
      message == JavaJson(MessageRequest(n1, p1))
  IN  CASE request = Untagged   -> { Without(login, "type"), Without(login, "object") }
        [] request = UnknownTag -> { [login EXCEPT !.type = ClassName.LoginResponse] }
        [] request = Incomplete ->
             { [message EXCEPT !.object = Without(@, property)] :
                 property \in {"datetime", "sender", "content"} }
        [] OTHER -> { JavaJson(request) }

(* A byte stands for a run of them: in front of the nested object, of the  *)
(* object, of what somebody typed into it.                                 *)
Typed(tree) ==
  IF Has(tree, {"object"}) /\ Has(tree.object, {"content"}) THEN tree.object.content ELSE "none"

SizeOf(tree) ==
  CASE ~Has(tree, {"object"}) -> 3
    [] Typed(tree) = p5       -> 5
    [] Typed(tree) = p6       -> 6
    [] Typed(tree) = p7       -> 7
    [] OTHER                  -> 4

(* The nested object is what lies between the first byte and the last two; *)
(* p6 and p7 are texts with an empty object in them.                       *)
TypedBraces(tree) == IF Typed(tree) \in {p6, p7} THEN {3} ELSE {}

BracesOf(tree) == IF Has(tree, {"object"}) THEN {SizeOf(tree) - 2} \cup TypedBraces(tree) ELSE {}

PartsOf(tree) ==
  IF ~Has(tree, {"object"}) THEN {}
  ELSE { [first |-> 2, last |-> SizeOf(tree) - 2, tree |-> tree.object] }
         \cup { [first |-> at, last |-> at, tree |-> <<>>] : at \in TypedBraces(tree) }

-----------------------------------------------------------------------------
(* ResponseVisitor.java:39: visitError is called if the server returns an  *)
(* error.                                                                  *)
ErrorsAreVisited ==
  \A i \in DOMAIN answered :
    answered[i].response.type = "ServerError" =>
      JavaVisit(ToJson(answered[i].response)) = answered[i].response
=============================================================================
