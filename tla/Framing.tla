------------------------------ MODULE Framing -------------------------------
(***************************************************************************)
(* One connection, byte by byte: a client writes requests as lines of JSON *)
(* (Wire), they arrive whole or in pieces, and socket::read, json::from    *)
(* and the request visitor make requests of whatever one recv() returns.   *)
(* Nothing marks where a request begins; the server trusts that one read   *)
(* is one request.                                                         *)
(***************************************************************************)
EXTENDS Naturals, Sequences, FiniteSets, SequencesExt, Frames, Wire

CONSTANTS
  Sends,            \* the requests clients mean to send
  Trees(_),         \* the JSON a client may write for one of them
  Size(_),          \* bytes of such a tree and its newline
  Braces(_),        \* the places of the closing braces within its text
  Parts(_),         \* the objects and arrays within it: where, and their tree
  MAX_BUFFER_SIZE,  \* bytes one recv() takes at most
  MaxRequests       \* bound: requests written on the connection

VARIABLES
  trouble,   \* what may go wrong: "pipeline", "split", "stale"
  sent,      \* the requests written: what was meant, and the tree
  stream,    \* their bytes
  arrived,   \* how many of the bytes have arrived
  taken,     \* how many of those recv() has taken
  buffer,    \* what raw_buff was last filled with
  answered,  \* the requests answered, each with its response
  up         \* whether the process still runs

vars == <<trouble, sent, stream, arrived, taken, buffer, answered, up>>

(* What a tree must be to be written for a request: for a login or a       *)
(* message what the client's Gson writes, and for what is no request JSON  *)
(* that lacks a tag, has another type, or lacks a property.                *)
WrittenFor(request, tree) ==
  CASE request = Untagged   -> ~Tagged(tree)
    [] request = UnknownTag ->
         Tagged(tree) /\ tree.type \notin {ClassName.LoginRequest, ClassName.MessageRequest}
    [] request = Incomplete ->
         /\ Tagged(tree)
         /\ \/ /\ tree.type = ClassName.MessageRequest
               /\ ~Has(tree.object, {"datetime", "sender", "content"})
            \/ /\ tree.type = ClassName.LoginRequest
               /\ ~Has(tree.object, {"datetime", "sender"})
    [] OTHER -> tree = JavaJson(request)

ASSUME SendsAssumption == Sends \subseteq Request
ASSUME TreesAssumption ==
  \A request \in Sends : \A tree \in Trees(request) : WrittenFor(request, tree)
ASSUME BoundAssumption == MAX_BUFFER_SIZE \in Nat \ {0} /\ MaxRequests \in Nat
ASSUME SizeAssumption ==
  \A request \in Sends : \A tree \in Trees(request) :
    /\ Size(tree) \in Nat /\ Size(tree) > 2
    /\ FitsBuffer(request) <=> Size(tree) < MAX_BUFFER_SIZE

(* The text of a tree is one object: it begins and ends with a brace of    *)
(* its own, and what is within it (the nested object, an empty object      *)
(* somebody typed) lies between these.  None of it has both tags.          *)
ASSUME BracesAssumption ==
  \A request \in Sends : \A tree \in Trees(request) : Braces(tree) \subseteq 2..(Size(tree) - 2)
ASSUME PartsAssumption ==
  \A request \in Sends : \A tree \in Trees(request) : \A part \in Parts(tree) :
    /\ part.first \in 2..part.last /\ part.last \in 2..(Size(tree) - 2)
    /\ ~Tagged(part.tree)

-----------------------------------------------------------------------------
(* A byte is known by its place in its request, whose last two bytes are   *)
(* its closing brace and the newline.  Request 0 is none.                  *)
IsNewline(byte) == byte.at = byte.size
IsLast(byte)    == byte.at = byte.size - 1
IsBrace(byte)   == IsLast(byte) \/ (byte.of > 0 /\ byte.at \in Braces(sent[byte.of].tree))

Bytes(k, tree) == [i \in 1..Size(tree) |-> [of |-> k, at |-> i, size |-> Size(tree)]]

(* What uninitialized bytes may hold, up to the first zero: text that is   *)
(* cut off again, or the end of some other object.                         *)
Garbage ==
  { << [of |-> 0, at |-> 1, size |-> 3] >>,
    << [of |-> 0, at |-> 2, size |-> 3], [of |-> 0, at |-> 3, size |-> 3] >> }

-----------------------------------------------------------------------------
(* json::from drops what follows the last newline, then what follows the   *)
(* last brace.  Mutant: it keeps what follows the last newline.            *)
CutAfter(text, last) == IF last = 0 THEN text ELSE SubSeq(text, 1, last)

CutAtBrace(text) == CutAfter(text, SelectLastInSeq(text, IsBrace))

Clean(text) == CutAtBrace(CutAfter(text, SelectLastInSeq(text, IsNewline)))

(* read_json skips white space in front and accepts exactly one value: all *)
(* of a request but its newline, or a value that is part of one.  (A bare  *)
(* number or string onSocket's write_json refuses, which throws as well.)  *)
IsWhole(bytes) ==
  /\ bytes # <<>>
  /\ \A i \in DOMAIN bytes :
       bytes[i].of > 0 /\ bytes[i].at = i /\ bytes[i].size = Len(bytes) + 1

IsPart(bytes, part) ==
  /\ Len(bytes) = part.last - part.first + 1
  /\ \A i \in DOMAIN bytes :
       bytes[i].of = bytes[1].of /\ bytes[i].at = part.first + i - 1

PartsIn(bytes) ==
  IF bytes = <<>> \/ bytes[1].of = 0 THEN {}
  ELSE { part \in Parts(sent[bytes[1].of].tree) : IsPart(bytes, part) }

From(text) ==
  LET cut   == Clean(text)
      start == SelectInSeq(cut, LAMBDA byte : ~IsNewline(byte))
  IN  IF start = 0 THEN <<>> ELSE SubSeq(cut, start, Len(cut))

(* A value that is made of two requests is neither of them.                *)
Mixture == [type |-> "mixture"]

Visited(value) ==
  IF \E i \in DOMAIN value : value[i].of # value[1].of
  THEN Mixture
  ELSE VisitRequest(sent[value[1].of].tree)

(* What the server's visitor takes a value for.                            *)
Asked(value) ==
  IF IsWhole(value)
  THEN { [whole |-> TRUE, request |-> Visited(value)] }
  ELSE { [whole |-> FALSE, request |-> VisitRequest(part.tree)] : part \in PartsIn(value) }

(* What server's visitor may return for a request.                         *)
Replies(request) ==
  CASE request.type = "LoginRequest"   -> { LoginResponse(request.sender), NameInUse }
    [] request.type = "MessageRequest" -> { MessageResponse(request.sender, request.content) }
    [] OTHER                           -> { BadRequest }

-----------------------------------------------------------------------------
(* socket::read.  memset's arguments are swapped, so that raw_buff is not  *)
(* cleared: behind what recv() took there are zeros, or what an earlier    *)
(* call left there, or anything; and always anything behind a full buffer. *)
(* Mutant: what the last call left is always there.                        *)
ResidueShows(n) == { SubSeq(buffer, n + 1, Len(buffer)) }

Beyond(n) ==
  { <<>> }
    \cup (IF "stale" \in trouble THEN { SubSeq(buffer, n + 1, Len(buffer)) } ELSE {})
    \cup (IF "stale" \in trouble \/ n = MAX_BUFFER_SIZE THEN Garbage ELSE {})

(* Mutant: recv() is told of a byte more than there is room for.           *)
ReceivedOneMore ==
  SubSeq(stream, taken + 1,
         IF arrived - taken <= MAX_BUFFER_SIZE THEN arrived ELSE taken + MAX_BUFFER_SIZE + 1)

Received == SubSeq(stream, taken + 1,
                   IF arrived - taken < MAX_BUFFER_SIZE THEN arrived ELSE taken + MAX_BUFFER_SIZE)

Receive ==
  /\ up /\ Received # <<>>
  /\ taken' = taken + Len(Received)
  /\ buffer' = Received \o SubSeq(buffer, Len(Received) + 1, Len(buffer))
  /\ UNCHANGED <<trouble, sent, stream, arrived>>

Answer ==
  /\ Receive
  /\ \E beyond \in Beyond(Len(Received)) :
       LET value == From(Received \o beyond)
       IN  \E asked \in Asked(value) :
             /\ asked.request # Incomplete
             /\ \E response \in Replies(asked.request) :
                  answered' = Append(answered, [of       |-> value[1].of,
                                                whole    |-> asked.whole,
                                                request  |-> asked.request,
                                                response |-> response])
  /\ UNCHANGED up

(* read_json or fromJson throws, and nothing catches it.                   *)
Throw ==
  /\ Receive
  /\ \E beyond \in Beyond(Len(Received)) :
       \A asked \in Asked(From(Received \o beyond)) : asked.request = Incomplete
  /\ up' = FALSE
  /\ UNCHANGED answered

-----------------------------------------------------------------------------
(* How many requests recv() has taken a byte of, and what it has not       *)
(* taken: the rest of the last of them, and the requests behind it.        *)
Begun == IF taken = 0 THEN 0 ELSE stream[taken].of

Unread ==
  (IF taken = 0 \/ IsNewline(stream[taken]) THEN <<>>
   ELSE IF IsLast(stream[taken]) THEN <<Newline>>
   ELSE <<Fragment>>)
  \o [i \in 1..(Len(sent) - Begun) |-> VisitRequest(sent[Begun + i].tree)]

Write(request, tree) ==
  /\ up /\ Len(sent) < MaxRequests
  /\ MayFollow(Unread, trouble)
  /\ sent' = Append(sent, [request |-> request, tree |-> tree])
  /\ stream' = stream \o Bytes(Len(sent) + 1, tree)
  /\ arrived' = IF "split" \in trouble THEN arrived ELSE arrived + Size(tree)
  /\ UNCHANGED <<trouble, taken, buffer, answered, up>>

Deliver ==
  /\ up /\ "split" \in trouble
  /\ arrived' \in (arrived + 1)..Len(stream)
  /\ UNCHANGED <<trouble, sent, stream, taken, buffer, answered, up>>

-----------------------------------------------------------------------------
Init ==
  /\ trouble \in SUBSET {"pipeline", "split", "stale"}
  /\ Foreseen(trouble)
  /\ sent = <<>> /\ stream = <<>> /\ arrived = 0 /\ taken = 0 /\ buffer = <<>>
  /\ answered = <<>> /\ up = TRUE

Finished ==
  /\ ~up \/ (Len(sent) = MaxRequests /\ taken = Len(stream))
  /\ UNCHANGED vars

Next ==
  \/ \E request \in Sends : \E tree \in Trees(request) : Write(request, tree)
  \/ Deliver \/ Answer \/ Throw
  \/ Finished

Spec == Init /\ [][Next]_vars
-----------------------------------------------------------------------------
(* Properties.                                                             *)

ResponseTo ==
  [of : 1..MaxRequests, whole : BOOLEAN, request : Request, response : Response]

TypeOK ==
  /\ trouble \subseteq {"pipeline", "split", "stale"}
  /\ arrived \in 0..Len(stream) /\ taken \in 0..arrived
  /\ Len(buffer) <= MAX_BUFFER_SIZE
  /\ up \in BOOLEAN
  /\ \A i \in DOMAIN answered : answered[i] \in ResponseTo

(* Whatever pieces the requests arrive in, however many of them, whatever  *)
(* of them does not fit the buffer or was there before: a request that is  *)
(* answered whole is answered as it was meant, in the order of the sending *)
(* and once.  All else the server answers are parts of a request that was  *)
(* torn: each is refused for want of tags, that request is never answered, *)
(* and it comes about only when somebody sends without waiting.            *)
AnsweredAsMeant ==
  /\ \A i \in DOMAIN answered :
       answered[i].request =
         IF answered[i].whole THEN sent[answered[i].of].request ELSE Untagged
  /\ \A i, j \in DOMAIN answered :
       i < j => \/ answered[i].of < answered[j].of
                \/ /\ answered[i].of = answered[j].of
                   /\ ~answered[i].whole /\ ~answered[j].whole
  /\ "pipeline" \notin trouble => \A i \in DOMAIN answered : answered[i].whole

(* The JSON of the server's answer means to the app what it means to the   *)
(* server, and the library's own client would be called the same way.  The *)
(* object of an error is read back as that error, and neither client takes *)
(* an error for somebody's login or message.                               *)
ClientsAgree ==
  \A i \in DOMAIN answered :
    LET response == answered[i].response
        json     == ToJson(response)
    IN  IF response.type = "ServerError"
        THEN /\ ReadError(json.object) = response
             /\ JavaVisit(json) \in {response, Thrown}
             /\ VisitResponse(json).type = "ServerError"
        ELSE JavaVisit(json) = response /\ VisitResponse(json) = response

(* The bytes behave as Server's queue of requests does; what was begun and *)
(* never answered whole was torn.                                          *)
AnsweredWhole == { i \in DOMAIN answered : answered[i].whole }

Abstract ==
  INSTANCE Inbox WITH
    inbox    <- IF up THEN Unread ELSE <<>>,
    answered <- [i \in DOMAIN answered |-> answered[i].request],
    torn     <- IF up THEN Begun - Cardinality(AnsweredWhole) ELSE 0

InboxSpec == Abstract!InboxSpec
=============================================================================
