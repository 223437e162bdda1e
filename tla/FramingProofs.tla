--------------------------- MODULE FramingProofs ---------------------------
(***************************************************************************)
(* Theorems about Framing, for any requests, any trees and sizes, any      *)
(* buffer, and every way in which the bytes may arrive.                    *)
(***************************************************************************)
EXTENDS Framing, FiniteSetTheorems, SequenceTheorems, WellFoundedInduction, TLAPS

-----------------------------------------------------------------------------
(* Sets of numbers have a least element, and a greatest when bounded.      *)
Less == { pair \in Nat \X Nat : pair[1] < pair[2] }

LEMMA LeastNumber ==
  ASSUME NEW S \in SUBSET Nat, S # {}
  PROVE  \E x \in S : \A y \in S : x <= y
<1>1. OpToRel(<, Nat) = Less
  BY Zenon DEF OpToRel, Less
<1>2. IsWellFoundedOn(Less, Nat)
  BY Zenon, <1>1, NatLessThanWellFounded
<1>3. PICK x \in S : \A y \in S : <<y, x>> \notin Less
  BY <1>2, WFMin
<1>4. \A y \in S : ~(y < x)
  BY <1>3 DEF Less
<1> QED BY <1>4

LEMMA GreatestNumber ==
  ASSUME NEW n \in Nat, NEW S \in SUBSET (1..n), S # {}
  PROVE  \E x \in S : \A y \in S : x >= y
<1> DEFINE T == { n - x : x \in S }
<1>1. T \in SUBSET Nat /\ T # {}
  <2>1. \A x \in S : n - x \in Nat
    OBVIOUS
  <2> QED BY <2>1
<1>2. PICK t \in T : \A u \in T : t <= u
  BY <1>1, LeastNumber
<1>3. PICK x \in S : t = n - x
  BY <1>2
<1>4. ASSUME NEW y \in S PROVE x >= y
  <2>1. n - y \in T
    OBVIOUS
  <2>2. n - x <= n - y
    BY <1>2, <1>3, <2>1
  <2> QED BY <2>2
<1> QED BY <1>4

-----------------------------------------------------------------------------
(* What the two searches of the library find.                              *)
LEMMA LastBrace ==
  ASSUME NEW text, Len(text) \in Nat
  PROVE  LET at == SelectLastInSeq(text, IsBrace)
         IN  \/ at = 0 /\ \A i \in 1..Len(text) : ~IsBrace(text[i])
             \/ /\ at \in 1..Len(text) /\ IsBrace(text[at])
                /\ \A i \in 1..Len(text) : IsBrace(text[i]) => i <= at
<1> DEFINE I == { i \in 1..Len(text) : IsBrace(text[i]) }
<1>1. SelectLastInSeq(text, IsBrace) = IF I # {} THEN Max(I) ELSE 0
  BY DEF SelectLastInSeq
<1>2. I # {} => Max(I) \in I /\ \A i \in I : i <= Max(I)
  BY GreatestNumber DEF Max
<1> QED BY <1>1, <1>2

LEMMA LastNewline ==
  ASSUME NEW text, Len(text) \in Nat
  PROVE  LET at == SelectLastInSeq(text, IsNewline)
         IN  \/ at = 0 /\ \A i \in 1..Len(text) : ~IsNewline(text[i])
             \/ /\ at \in 1..Len(text) /\ IsNewline(text[at])
                /\ \A i \in 1..Len(text) : IsNewline(text[i]) => i <= at
<1> DEFINE I == { i \in 1..Len(text) : IsNewline(text[i]) }
<1>1. SelectLastInSeq(text, IsNewline) = IF I # {} THEN Max(I) ELSE 0
  BY DEF SelectLastInSeq
<1>2. I # {} => Max(I) \in I /\ \A i \in I : i <= Max(I)
  BY GreatestNumber DEF Max
<1> QED BY <1>1, <1>2

LEMMA FirstOther ==
  ASSUME NEW text, Len(text) \in Nat
  PROVE  LET at == SelectInSeq(text, LAMBDA byte : ~IsNewline(byte))
         IN  \/ at = 0 /\ \A i \in 1..Len(text) : IsNewline(text[i])
             \/ /\ at \in 1..Len(text) /\ ~IsNewline(text[at])
                /\ \A i \in 1..(at - 1) : IsNewline(text[i])
<1> DEFINE I == { i \in 1..Len(text) : ~IsNewline(text[i]) }
           at == SelectInSeq(text, LAMBDA byte : ~IsNewline(byte))
<1>1. at = IF I # {} THEN Min(I) ELSE 0
  BY DEF SelectInSeq
<1>2. I # {} => Min(I) \in I /\ \A i \in I : Min(I) <= i
  <2>1. I \in SUBSET Nat
    OBVIOUS
  <2>2. I # {} => \E x \in I : \A y \in I : x <= y
    BY <2>1, LeastNumber
  <2> QED BY <2>2 DEF Min
<1> HIDE DEF at
<1>3. CASE I = {}
  BY <1>1, <1>3 DEF at
<1>4. CASE I # {}
  <2>1. at \in I /\ \A i \in I : at <= i
    BY <1>1, <1>2, <1>4
  <2>2. \A i \in 1..(at - 1) : i \in 1..Len(text) /\ ~(at <= i)
    BY <2>1
  <2> QED BY <2>1, <2>2 DEF at
<1> QED BY <1>3, <1>4

-----------------------------------------------------------------------------
(* json::from keeps what is in front of some place: the last brace that    *)
(* has a newline behind it, or, without a newline, the last brace.         *)
Byte == [of : Nat, at : Nat, size : Nat]

KeptUpTo(text, end) ==
  /\ \A m \in 1..Len(text), b \in 1..Len(text) :
       IsNewline(text[m]) /\ IsBrace(text[b]) /\ b <= m => b <= end
  /\ (\E m \in 1..Len(text) : IsNewline(text[m])) =>
       \E m \in end..Len(text) : IsNewline(text[m])
  /\ (\A m \in 1..Len(text) : ~IsNewline(text[m])) =>
       \A b \in 1..Len(text) : IsBrace(text[b]) => b <= end
  /\ IsBrace(text[end]) \/ \A b \in 1..end : ~IsBrace(text[b])

LEMMA FromKeeps ==
  ASSUME NEW text \in Seq(Byte), text # <<>>
  PROVE  \E end \in 1..Len(text) :
           /\ KeptUpTo(text, end)
           /\ \/ From(text) = <<>> /\ \A i \in 1..end : IsNewline(text[i])
              \/ \E start \in 1..end :
                   /\ From(text) = SubSeq(text, start, end)
                   /\ ~IsNewline(text[start])
                   /\ \A i \in 1..(start - 1) : IsNewline(text[i])
<1> DEFINE line  == SelectLastInSeq(text, IsNewline)
           kept  == CutAfter(text, line)
           brace == SelectLastInSeq(kept, IsBrace)
           cut   == CutAfter(kept, brace)
           start == SelectInSeq(cut, LAMBDA byte : ~IsNewline(byte))
           end   == Len(cut)
<1>1. From(text) = IF start = 0 THEN <<>> ELSE SubSeq(cut, start, end)
  BY DEF From, Clean, CutAtBrace
<1>2. Len(text) \in Nat \ {0} /\ \A i \in 1..Len(text) : text[i] \in Byte
  BY LenProperties, EmptySeq, ElementOfSeq
<1>3. \/ line = 0 /\ \A i \in 1..Len(text) : ~IsNewline(text[i])
      \/ /\ line \in 1..Len(text) /\ IsNewline(text[line])
         /\ \A i \in 1..Len(text) : IsNewline(text[i]) => i <= line
  BY <1>2, LastNewline
<1> HIDE DEF line
<1>4. /\ kept \in Seq(Byte) /\ Len(kept) = (IF line = 0 THEN Len(text) ELSE line)
      /\ Len(kept) \in 1..Len(text) /\ \A i \in 1..Len(kept) : kept[i] = text[i]
  <2>1. CASE line = 0
    BY <1>2, <2>1 DEF CutAfter
  <2>2. CASE line # 0
    <3>1. kept = SubSeq(text, 1, line) /\ line \in 1..Len(text)
      BY <1>3, <2>2 DEF CutAfter
    <3>2. \A i \in 1..line : text[i] \in Byte
      BY <1>2, <3>1
    <3> QED BY <1>2, <2>2, <3>1, <3>2, SubSeqProperties
  <2> QED BY <2>1, <2>2
<1> HIDE DEF kept
<1>5. \/ brace = 0 /\ \A i \in 1..Len(kept) : ~IsBrace(kept[i])
      \/ /\ brace \in 1..Len(kept) /\ IsBrace(kept[brace])
         /\ \A i \in 1..Len(kept) : IsBrace(kept[i]) => i <= brace
  <2>1. Len(kept) \in Nat
    BY <1>2, <1>4
  <2> QED BY <2>1, LastBrace
<1> HIDE DEF brace
<1>6. /\ cut \in Seq(Byte) /\ end = (IF brace = 0 THEN Len(kept) ELSE brace)
      /\ end \in 1..Len(text) /\ \A i \in 1..end : cut[i] = text[i]
  <2>1. CASE brace = 0
    BY <1>4, <2>1 DEF CutAfter
  <2>2. CASE brace # 0
    <3>1. cut = SubSeq(kept, 1, brace) /\ brace \in 1..Len(kept)
      BY <1>5, <2>2 DEF CutAfter
    <3>2. \A i \in 1..brace : kept[i] \in Byte /\ kept[i] = text[i]
      BY <1>2, <1>4, <3>1
    <3>3. cut \in Seq(Byte) /\ end = brace /\ \A i \in 1..brace : cut[i] = kept[i]
      BY <1>4, <3>1, <3>2, SubSeqProperties
    <3> QED BY <1>4, <2>2, <3>1, <3>2, <3>3
  <2> QED BY <2>1, <2>2
<1>7. \/ start = 0 /\ \A i \in 1..end : IsNewline(cut[i])
      \/ /\ start \in 1..end /\ ~IsNewline(cut[start])
         /\ \A i \in 1..(start - 1) : IsNewline(cut[i])
  <2>1. end \in Nat
    BY <1>2, <1>6
  <2> QED BY <2>1, FirstOther
<1> HIDE DEF cut, start, end
<1>8. KeptUpTo(text, end)
  <2>1. \A b \in 1..Len(kept) : IsBrace(text[b]) => b <= end
    BY <1>4, <1>5, <1>6
  <2>2. \A m \in 1..Len(text), b \in 1..Len(text) :
          IsNewline(text[m]) /\ IsBrace(text[b]) /\ b <= m => b <= end
    BY <1>2, <1>3, <1>4, <2>1
  <2>3. (\E m \in 1..Len(text) : IsNewline(text[m])) =>
          \E m \in end..Len(text) : IsNewline(text[m])
    <3>1. ASSUME NEW m \in 1..Len(text), IsNewline(text[m])
          PROVE  line \in end..Len(text) /\ IsNewline(text[line])
      BY <1>2, <1>3, <1>4, <1>5, <1>6, <3>1
    <3> QED BY <3>1
  <2>4. IsBrace(text[end]) \/ \A b \in 1..end : ~IsBrace(text[b])
    BY <1>4, <1>5, <1>6
  <2>5. ASSUME \A m \in 1..Len(text) : ~IsNewline(text[m]), NEW b \in 1..Len(text),
               IsBrace(text[b])
        PROVE  b <= end
    <3>1. line = 0
      BY <1>3, <2>5
    <3>2. b \in 1..Len(kept)
      BY <1>4, <3>1
    <3> QED BY <2>1, <2>5, <3>2
  <2> QED BY <2>2, <2>3, <2>4, <2>5 DEF KeptUpTo
<1>9. CASE start = 0
  BY <1>1, <1>6, <1>7, <1>8, <1>9
<1>10. CASE start # 0
  <2>1. start \in 1..end
    BY <1>7, <1>10
  <2>2. SubSeq(cut, start, end) = SubSeq(text, start, end)
    <3>1. /\ \A i \in start..end : cut[i] \in Byte /\ text[i] \in Byte /\ cut[i] = text[i]
          /\ start \in Nat /\ end \in Nat
      BY <1>2, <1>6, <2>1
    <3>2. /\ SubSeq(cut, start, end) \in Seq(Byte) /\ SubSeq(text, start, end) \in Seq(Byte)
          /\ Len(SubSeq(cut, start, end)) = Len(SubSeq(text, start, end))
          /\ \A i \in 1..Len(SubSeq(cut, start, end)) :
               SubSeq(cut, start, end)[i] = SubSeq(text, start, end)[i]
      BY <1>6, <2>1, <3>1, SubSeqProperties
    <3> QED BY <3>2, SeqEqual
  <2>3. ~IsNewline(text[start]) /\ \A i \in 1..(start - 1) : IsNewline(text[i])
    BY <1>6, <1>7, <1>10, <2>1
  <2> QED BY <1>1, <1>6, <1>8, <1>10, <2>1, <2>2, <2>3
<1> QED BY <1>9, <1>10

-----------------------------------------------------------------------------
(* The JSON that is written for a request is read as that request.         *)
LEMMA RequestTypes ==
  /\ \A n : LoginRequest(n).type = "LoginRequest"
  /\ \A n, p : MessageRequest(n, p).type = "MessageRequest"
  /\ Untagged.type = "untagged" /\ UnknownTag.type = "unknown" /\ Incomplete.type = "incomplete"
  /\ Fragment.type = "fragment" /\ Newline.type = "newline"
BY DEF LoginRequest, MessageRequest, Untagged, UnknownTag, Incomplete, Fragment, Newline

LEMMA ReadAsWritten ==
  ASSUME NEW request \in Sends, NEW tree \in Trees(request)
  PROVE  VisitRequest(tree) = request /\ request \in Request /\ request \notin Leftover
<1> USE DEF Tagged, Has
<1>1. request \in Request /\ WrittenFor(request, tree)
  BY SendsAssumption, TreesAssumption
<1>2. request \notin Leftover
  BY <1>1, RequestTypes DEF Request, Malformed, Leftover
<1>3. CASE request = Untagged
  BY <1>1, <1>2, <1>3, RequestTypes DEF WrittenFor, VisitRequest
<1>4. CASE request = UnknownTag
  <2>1. Tagged(tree) /\ tree.type \notin {ClassName.LoginRequest, ClassName.MessageRequest}
    BY <1>1, <1>4, RequestTypes DEF WrittenFor
  <2> QED BY <1>1, <1>2, <1>4, <2>1 DEF VisitRequest, TYPE, ClassName
<1>5. CASE request = Incomplete
  <2>1. /\ Tagged(tree)
        /\ \/ /\ tree.type = "network.request.MessageRequest"
              /\ ~Has(tree.object, {"datetime", "sender", "content"})
           \/ /\ tree.type = "network.request.LoginRequest"
              /\ ~Has(tree.object, {"datetime", "sender"})
    BY <1>1, <1>5, RequestTypes DEF WrittenFor, ClassName
  <2>2. CASE tree.type = "network.request.MessageRequest"
    <3>1. VisitRequest(tree) = ReadMessageRequest(tree)
      BY <2>1, <2>2 DEF VisitRequest, TYPE
    <3>2. ~(HasCommonParams(tree.object) /\ Has(tree.object, {"content"}))
      BY <2>1, <2>2 DEF HasCommonParams
    <3> QED BY <1>1, <1>2, <1>5, <3>1, <3>2 DEF ReadMessageRequest
  <2>3. CASE tree.type = "network.request.LoginRequest"
    <3>1. VisitRequest(tree) = ReadLoginRequest(tree)
      BY <2>1, <2>3 DEF VisitRequest, TYPE
    <3>2. ~HasCommonParams(tree.object)
      BY <2>1, <2>3 DEF HasCommonParams
    <3> QED BY <1>1, <1>2, <1>5, <3>1, <3>2 DEF ReadLoginRequest
  <2> QED BY <2>1, <2>2, <2>3
<1>6. ASSUME NEW n \in Names, request = LoginRequest(n) PROVE VisitRequest(tree) = request
  <2>1. tree = JavaJson(request)
    BY <1>1, <1>6, RequestTypes DEF WrittenFor
  <2>2. tree = [type |-> "network.request.LoginRequest",
                object |-> [datetime |-> "now", sender |-> n]]
    BY <1>6, <2>1, RequestTypes DEF JavaJson, JavaFields, ClassName, LoginRequest
  <2>3. VisitRequest(tree) = ReadLoginRequest(tree)
    BY <2>2 DEF VisitRequest, TYPE
  <2> QED BY <1>6, <2>2, <2>3 DEF ReadLoginRequest, HasCommonParams
<1>7. ASSUME NEW n \in Names, NEW p \in Contents, request = MessageRequest(n, p)
      PROVE  VisitRequest(tree) = request
  <2>1. tree = JavaJson(request)
    BY <1>1, <1>7, RequestTypes DEF WrittenFor
  <2>2. tree = [type |-> "network.request.MessageRequest",
                object |-> [datetime |-> "now", sender |-> n, content |-> p]]
    BY <1>7, <2>1, RequestTypes DEF JavaJson, JavaFields, ClassName, MessageRequest
  <2>3. VisitRequest(tree) = ReadMessageRequest(tree)
    BY <2>2 DEF VisitRequest, TYPE
  <2> QED BY <1>7, <2>2, <2>3 DEF ReadMessageRequest, HasCommonParams
<1> QED BY <1>1, <1>2, <1>3, <1>4, <1>5, <1>6, <1>7 DEF Request, Malformed

(* What the server answers is a response, and the JSON of it means to the  *)
(* app and to the library's own client what it means to the server.        *)
LEMMA RepliesAreResponses ==
  ASSUME NEW request \in Request, NEW response \in Replies(request)
  PROVE  /\ response \in Response
         /\ \/ \E n \in Names : response = LoginResponse(n)
            \/ \E n \in Names, p \in Contents : response = MessageResponse(n, p)
            \/ response \in {NameInUse, BadRequest}
<1>1. /\ \A n \in Names : LoginResponse(n) \in Response
      /\ \A n \in Names, p \in Contents : MessageResponse(n, p) \in Response
  BY DEF Response
<1>2. NameInUse \in Response /\ BadRequest \in Response
  <2>1. "USER_NAME_IN_USE" \in ErrorCode /\ "MALFORMED_REQUEST_NO_TYPE" \in ErrorCode
    BY DEF ErrorCode
  <2> QED BY <2>1 DEF NameInUse, BadRequest, Response
<1>3. ASSUME NEW n \in Names, request = LoginRequest(n)
      PROVE  response \in {LoginResponse(n), NameInUse}
  BY <1>3, RequestTypes DEF Replies, LoginRequest
<1>4. ASSUME NEW n \in Names, NEW p \in Contents, request = MessageRequest(n, p)
      PROVE  response = MessageResponse(n, p)
  BY <1>4, RequestTypes DEF Replies, MessageRequest
<1>5. CASE request \in Malformed
  BY <1>2, <1>5, RequestTypes DEF Malformed, Replies
<1>6. CASE \E n \in Names : request = LoginRequest(n)
  BY <1>1, <1>2, <1>3, <1>6
<1>7. CASE \E n \in Names, p \in Contents : request = MessageRequest(n, p)
  BY <1>1, <1>4, <1>7
<1> QED BY <1>5, <1>6, <1>7 DEF Request

Agreed(response) ==
  LET json == ToJson(response)
  IN  IF response.type = "ServerError"
      THEN /\ ReadError(json.object) = response
           /\ JavaVisit(json) \in {response, Thrown}
           /\ VisitResponse(json).type = "ServerError"
      ELSE JavaVisit(json) = response /\ VisitResponse(json) = response

LEMMA AgreedOn ==
  /\ \A n : Agreed(LoginResponse(n))
  /\ \A n, p : Agreed(MessageResponse(n, p))
  /\ Agreed(NameInUse) /\ Agreed(BadRequest)
<1> USE DEF Tagged, Has, HasCommonParams, Property
<1>1. ASSUME NEW n PROVE Agreed(LoginResponse(n))
  <2> DEFINE response == LoginResponse(n)
             json == ToJson(response)
  <2>1. json = [type |-> "network.response.LoginResponse",
                object |-> [datetime |-> "now", sender |-> SERVER_SENDER, joiningUsername |-> n]]
    BY DEF ToJson, LoginFields, LoginResponse, TYPE
  <2>2. JavaVisit(json) = response
    BY <2>1 DEF JavaVisit, ClassName
  <2>3. VisitResponse(json) = response
    BY <2>1 DEF VisitResponse, TYPE, ReadLoginResponse
  <2> QED BY <2>2, <2>3 DEF Agreed, LoginResponse
<1>2. ASSUME NEW n, NEW p PROVE Agreed(MessageResponse(n, p))
  <2> DEFINE response == MessageResponse(n, p)
             json == ToJson(response)
  <2>1. json = [type |-> "network.response.MessageResponse",
                object |-> [datetime |-> "now", sender |-> SERVER_SENDER,
                            originator |-> n, content |-> p]]
    BY DEF ToJson, MessageFields, MessageResponse, TYPE
  <2>2. JavaVisit(json) = response
    BY <2>1 DEF JavaVisit, ClassName
  <2>3. VisitResponse(json) = response
    BY <2>1 DEF VisitResponse, TYPE, ReadMessageResponse
  <2> QED BY <2>2, <2>3 DEF Agreed, MessageResponse
<1>3. ASSUME NEW o, NEW code \in {"USER_NAME_IN_USE", "MALFORMED_REQUEST_NO_TYPE"}
      PROVE  Agreed(ServerError(o, code))
  <2> DEFINE response == ServerError(o, code)
             json == ToJson(response)
  <2>1. json = [type |-> "network.response.ServerError",
                object |-> [datetime |-> "now", sender |-> SERVER_SENDER,
                            code |-> CODE[code], message |-> "text", originator |-> o]]
    BY DEF ToJson, ErrorFields, ServerError, TYPE
  <2>2. JavaVisit(json) = Thrown
    BY <2>1 DEF JavaVisit, ClassName
  <2>3. VisitResponse(json).type = "ServerError"
    <3>1. VisitResponse(json) = BadRequest
      BY <2>1 DEF VisitResponse, TYPE
    <3> QED BY <3>1 DEF BadRequest, ServerError
  <2>4. \A other \in DOMAIN CODE : CODE[other] = CODE[code] => other = code
    BY DEF CODE
  <2>5. code \in DOMAIN CODE
    BY DEF CODE
  <2>6. (CHOOSE other \in DOMAIN CODE : CODE[other] = CODE[code]) = code
    BY <2>4, <2>5
  <2>7. ReadError(json.object) = response
    <3>1. /\ HasCommonParams(json.object) /\ Has(json.object, {"code", "message", "originator"})
          /\ json.object.originator = o /\ json.object.code = CODE[code]
      BY <2>1
    <3> QED BY <2>6, <3>1 DEF ReadError
  <2> QED BY <2>2, <2>3, <2>7 DEF Agreed, ServerError
<1> QED BY <1>1, <1>2, <1>3 DEF NameInUse, BadRequest

-----------------------------------------------------------------------------
(* The invariant.  The stream is the requests, one behind the other: every *)
(* byte is where its place in its request says, with the whole request     *)
(* around it and the next request behind that.                             *)
Written == UNION { { [request |-> request, tree |-> tree] : tree \in Trees(request) }
                     : request \in Sends }

EndOf(i) == (i - stream[i].at) + stream[i].size

Around(i) ==
  /\ stream[i].of \in 1..Len(sent)
  /\ stream[i].size = Size(sent[stream[i].of].tree)
  /\ stream[i].at \in 1..stream[i].size
  /\ stream[i].at <= i /\ EndOf(i) <= Len(stream)
  /\ \A a \in 1..stream[i].size :
       stream[(i - stream[i].at) + a] = [of |-> stream[i].of, at |-> a, size |-> stream[i].size]

Behind(i) ==
  IF stream[i].of = Len(sent)
  THEN EndOf(i) = Len(stream)
  ELSE /\ EndOf(i) + 1 \in DOMAIN stream
       /\ stream[EndOf(i) + 1].of = stream[i].of + 1
       /\ stream[EndOf(i) + 1].at = 1

Ordered(i, j) ==
  \/ stream[i].of < stream[j].of
  \/ stream[i].of = stream[j].of /\ stream[j].at = stream[i].at + (j - i)

Layout ==
  /\ sent \in Seq(Written) /\ stream \in Seq(Byte)
  /\ (stream = <<>>) <=> (sent = <<>>)
  /\ stream # <<>> => stream[1].of = 1 /\ stream[1].at = 1
  /\ \A i \in DOMAIN stream : Around(i) /\ Behind(i)
  /\ \A i, j \in DOMAIN stream : i < j => Ordered(i, j)

(* How far the bytes have come.                                            *)
Progress ==
  /\ trouble \subseteq {"pipeline", "split", "stale"} /\ Foreseen(trouble)
  /\ arrived \in 0..Len(stream) /\ taken \in 0..arrived
  /\ "split" \notin trouble => arrived = Len(stream)
  /\ Len(sent) <= MaxRequests
  /\ up \in BOOLEAN

(* A client that waits for its answers has one request unread, behind at   *)
(* most the newline of the one before.                                     *)
OneAtATime ==
  "pipeline" \notin trouble =>
    \A j \in DOMAIN stream : j > taken + 1 /\ IsNewline(stream[j]) => j = Len(stream)

(* When recv() has filled the buffer and left a newline behind, the whole  *)
(* buffer is one request from its first byte on: no part of it that begins *)
(* later can be taken for a request when the newline comes.                *)
Residue ==
  /\ buffer \in Seq(Byte) /\ Len(buffer) <= MAX_BUFFER_SIZE
  /\ up /\ "stale" \in trouble /\ taken > 0 /\ ~IsNewline(stream[taken]) =>
       /\ Len(buffer) = MAX_BUFFER_SIZE
       /\ \A i \in DOMAIN buffer : buffer[i].at = i /\ ~IsNewline(buffer[i])

(* What has been answered.                                                 *)
Replied == [of : Nat, whole : BOOLEAN, request : Request, response : Response]

FitAnswer(i) ==
  /\ answered[i].of \in 1..Begun
  /\ answered[i].request = IF answered[i].whole THEN sent[answered[i].of].request ELSE Untagged
  /\ answered[i].response \in Replies(answered[i].request)
  /\ "pipeline" \notin trouble => answered[i].whole

InOrder(i, j) ==
  \/ answered[i].of < answered[j].of
  \/ answered[i].of = answered[j].of /\ ~answered[i].whole /\ ~answered[j].whole

(* Inside a request, whose beginning was dropped: it is never answered.    *)
Inside == taken # 0 /\ ~IsNewline(stream[taken]) /\ ~IsLast(stream[taken])

Torn == up /\ Inside => "pipeline" \in trouble

Meant ==
  /\ answered \in Seq(Replied)
  /\ \A i \in DOMAIN answered : FitAnswer(i)
  /\ \A i, j \in DOMAIN answered : i < j => InOrder(i, j)
  /\ up /\ Inside => \A i \in DOMAIN answered : answered[i].whole => answered[i].of < Begun

FramingInv == Layout /\ Progress /\ OneAtATime /\ Residue /\ Torn /\ Meant

LEMMA InitFraming == Init => FramingInv
<1> SUFFICES ASSUME Init PROVE FramingInv
  OBVIOUS
<1>1. /\ sent = <<>> /\ stream = <<>> /\ arrived = 0 /\ taken = 0 /\ buffer = <<>>
      /\ answered = <<>> /\ up = TRUE
  BY DEF Init
<1>2. Layout
  BY <1>1 DEF Layout
<1>3. Progress
  BY <1>1, BoundAssumption DEF Init, Progress
<1>4. OneAtATime
  BY <1>1 DEF OneAtATime
<1>5. Residue
  BY <1>1, BoundAssumption DEF Residue
<1>6. Meant /\ Torn
  BY <1>1 DEF Meant, Torn, Inside
<1> QED BY <1>2, <1>3, <1>4, <1>5, <1>6 DEF FramingInv

(* What there is to know of a request that was written.                    *)
LEMMA SentIsRequest ==
  ASSUME Layout, NEW i \in 1..Len(sent)
  PROVE  /\ sent[i].request \in Request /\ sent[i].request \notin Leftover
         /\ VisitRequest(sent[i].tree) = sent[i].request
         /\ Size(sent[i].tree) \in Nat /\ Size(sent[i].tree) > 2
         /\ FitsBuffer(sent[i].request) <=> Size(sent[i].tree) < MAX_BUFFER_SIZE
         /\ Braces(sent[i].tree) \subseteq 2..(Size(sent[i].tree) - 2)
         /\ \A part \in Parts(sent[i].tree) :
              /\ part.first \in 2..part.last /\ part.last \in 2..(Size(sent[i].tree) - 2)
              /\ VisitRequest(part.tree) = Untagged
<1>1. sent[i] \in Written
  BY ElementOfSeq DEF Layout
<1>2. PICK request \in Sends :
        \E tree \in Trees(request) : sent[i] = [request |-> request, tree |-> tree]
  BY <1>1 DEF Written
<1>3. PICK tree \in Trees(request) : sent[i] = [request |-> request, tree |-> tree]
  BY <1>2
<1>4. sent[i].request = request /\ sent[i].tree = tree
  BY <1>3
<1>5. \A part \in Parts(tree) :
        /\ part.first \in 2..part.last /\ part.last \in 2..(Size(tree) - 2)
        /\ VisitRequest(part.tree) = Untagged
  BY PartsAssumption DEF VisitRequest
<1> QED BY <1>4, <1>5, ReadAsWritten, SizeAssumption, BracesAssumption

(* A byte and its neighbours.                                              *)
LEMMA ByteFacts ==
  ASSUME Layout, NEW i \in DOMAIN stream
  PROVE  /\ DOMAIN stream = 1..Len(stream) /\ Len(stream) \in Nat /\ Len(sent) \in Nat
         /\ i \in Nat \ {0} /\ stream[i] \in Byte
         /\ stream[i].of \in 1..Len(sent) /\ stream[i].at \in Nat \ {0}
         /\ stream[i].size \in Nat /\ stream[i].size > 2 /\ stream[i].at <= stream[i].size
         /\ EndOf(i) \in Nat /\ i <= EndOf(i) /\ EndOf(i) <= Len(stream)
<1>1. DOMAIN stream = 1..Len(stream) /\ Len(stream) \in Nat /\ Len(sent) \in Nat /\ stream[i] \in Byte
  BY LenProperties, ElementOfSeq DEF Layout
<1>2. Around(i)
  BY DEF Layout
<1>3. stream[i].size \in Nat /\ stream[i].size > 2
  BY <1>2, SentIsRequest DEF Around
<1> QED BY <1>1, <1>2, <1>3 DEF Around, EndOf, Byte

LEMMA NextByte ==
  ASSUME Layout, NEW i \in DOMAIN stream
  PROVE  /\ ~IsNewline(stream[i]) =>
              /\ i + 1 \in DOMAIN stream
              /\ stream[i + 1] = [of |-> stream[i].of, at |-> stream[i].at + 1, size |-> stream[i].size]
         /\ IsNewline(stream[i]) /\ i + 1 \in DOMAIN stream =>
              stream[i + 1].of = stream[i].of + 1 /\ stream[i + 1].at = 1
         /\ IsNewline(stream[i]) => (i = Len(stream) <=> stream[i].of = Len(sent))
<1>1. Around(i) /\ Behind(i)
  BY DEF Layout
<1>2. CASE ~IsNewline(stream[i])
  <2>1. stream[i].at + 1 \in 1..stream[i].size /\ i + 1 \in DOMAIN stream
        /\ (i - stream[i].at) + (stream[i].at + 1) = i + 1
    BY <1>2, ByteFacts DEF IsNewline, EndOf
  <2>2. stream[i + 1] = [of |-> stream[i].of, at |-> stream[i].at + 1, size |-> stream[i].size]
    BY <1>1, <2>1 DEF Around
  <2> QED BY <1>2, <2>1, <2>2
<1>3. CASE IsNewline(stream[i])
  <2>1. EndOf(i) = i
    BY <1>3, ByteFacts DEF IsNewline, EndOf
  <2>2. CASE stream[i].of = Len(sent)
    <3>1. i = Len(stream) BY <1>1, <2>1, <2>2 DEF Behind
    <3>2. i + 1 \notin DOMAIN stream BY <3>1, ByteFacts
    <3> QED BY <1>3, <2>2, <3>1, <3>2
  <2>3. CASE stream[i].of # Len(sent)
    <3>1. i + 1 \in DOMAIN stream /\ stream[i + 1].of = stream[i].of + 1 /\ stream[i + 1].at = 1
      BY <1>1, <2>1, <2>3 DEF Behind
    <3>2. i # Len(stream) BY <3>1, ByteFacts
    <3> QED BY <1>3, <2>3, <3>1, <3>2
  <2> QED BY <2>2, <2>3
<1> QED BY <1>2, <1>3

LEMMA LastByte ==
  ASSUME Layout, stream # <<>>
  PROVE  /\ Len(stream) \in DOMAIN stream
         /\ IsNewline(stream[Len(stream)]) /\ stream[Len(stream)].of = Len(sent)
<1>1. Len(stream) \in DOMAIN stream
  BY LenProperties, EmptySeq DEF Layout
<1>2. Len(stream) + 1 \notin DOMAIN stream
  BY <1>1, ByteFacts
<1> QED BY <1>1, <1>2, NextByte

(* Two newlines are never neighbours, and what begins follows a newline.   *)
LEMMA NewlinesApart ==
  ASSUME Layout, NEW i \in DOMAIN stream, IsNewline(stream[i])
  PROVE  /\ i > 1 /\ i - 1 \in DOMAIN stream
         /\ IsLast(stream[i - 1]) /\ ~IsNewline(stream[i - 1])
         /\ stream[i - 1].of = stream[i].of
<1>1. /\ i \in Nat \ {0} /\ i \in 1..Len(stream) /\ Len(stream) \in Nat /\ stream[i].at = stream[i].size
      /\ stream[i].size > 2 /\ stream[i].size \in Nat
  BY ByteFacts DEF IsNewline
<1>2. i # 1
  <2>1. stream # <<>> BY <1>1, EmptySeq
  <2> QED BY <1>1, <2>1 DEF Layout
<1>3. i - 1 \in DOMAIN stream /\ (i - 1) + 1 = i
  BY <1>1, <1>2, ByteFacts
<1>4. ~IsNewline(stream[i - 1])
  <2>1. IsNewline(stream[i - 1]) /\ (i - 1) + 1 \in DOMAIN stream => stream[(i - 1) + 1].at = 1
    BY <1>3, NextByte
  <2> QED BY <1>1, <1>3, <2>1
<1>5. stream[i] = [of |-> stream[i - 1].of, at |-> stream[i - 1].at + 1, size |-> stream[i - 1].size]
  <2>1. stream[(i - 1) + 1] = [of |-> stream[i - 1].of, at |-> stream[i - 1].at + 1,
                               size |-> stream[i - 1].size]
    BY <1>3, <1>4, NextByte
  <2> QED BY <1>3, <2>1
<1>6. stream[i - 1].at \in Nat /\ stream[i - 1].size \in Nat
  BY <1>3, ByteFacts
<1> QED BY <1>1, <1>2, <1>3, <1>4, <1>5, <1>6 DEF IsLast

LEMMA BeginsBehindNewline ==
  ASSUME Layout, NEW i \in DOMAIN stream, stream[i].at = 1, i > 1
  PROVE  /\ i - 1 \in DOMAIN stream /\ IsNewline(stream[i - 1])
         /\ stream[i].of = stream[i - 1].of + 1
<1>1. i - 1 \in DOMAIN stream /\ (i - 1) + 1 = i
  BY ByteFacts
<1>2. stream[i - 1].at \in Nat \ {0}
  BY <1>1, ByteFacts
<1>3. IsNewline(stream[i - 1])
  <2> SUFFICES ASSUME ~IsNewline(stream[i - 1]) PROVE FALSE
    OBVIOUS
  <2>1. stream[(i - 1) + 1] = [of |-> stream[i - 1].of, at |-> stream[i - 1].at + 1,
                               size |-> stream[i - 1].size]
    BY <1>1, NextByte
  <2>2. stream[i].at = stream[i - 1].at + 1
    BY <1>1, <2>1
  <2> QED BY <1>2, <2>2
<1>4. stream[(i - 1) + 1].of = stream[i - 1].of + 1
  BY <1>1, <1>3, NextByte
<1> QED BY <1>1, <1>3, <1>4

-----------------------------------------------------------------------------
(* A request more is written.                                              *)
LEMMA LayoutStays ==
  ASSUME Layout, UNCHANGED <<sent, stream>>
  PROVE  Layout'
BY DEF Layout, Around, Behind, Ordered, EndOf

Longer(M, N, tree) ==
  /\ M = Len(stream) /\ Len(sent) \in Nat
  /\ sent' \in Seq(Written) /\ Len(sent') = Len(sent) + 1
  /\ \A k \in 1..Len(sent) : sent'[k] = sent[k]
  /\ sent'[Len(sent) + 1].tree = tree
  /\ stream' \in Seq(Byte) /\ DOMAIN stream' = 1..(M + N) /\ Len(stream') = M + N
  /\ \A i \in 1..M : stream'[i] = stream[i]
  /\ \A i \in (M + 1)..(M + N) :
       stream'[i] = [of |-> Len(sent) + 1, at |-> i - M, size |-> N]

(* A function on 1..n is a sequence of n elements.                         *)
LEMMA FunctionIsSeq ==
  ASSUME NEW S, NEW n \in Nat, NEW f \in [1..n -> S]
  PROVE  f \in Seq(S) /\ DOMAIN f = 1..n
<1>1. DOMAIN f = 1..n
  OBVIOUS
<1>2. f \in UNION {[1..k -> S] : k \in Nat}
  OBVIOUS
<1> QED BY <1>1, <1>2, SeqDef

LEMMA BytesAppended ==
  ASSUME Layout, NEW request \in Sends, NEW tree \in Trees(request),
         sent' = Append(sent, [request |-> request, tree |-> tree]),
         stream' = stream \o Bytes(Len(sent) + 1, tree)
  PROVE  /\ Len(stream) \in Nat /\ Size(tree) \in Nat /\ Size(tree) > 2
         /\ Longer(Len(stream), Size(tree), tree)
<1> DEFINE bytes == Bytes(Len(sent) + 1, tree)
           new == [request |-> request, tree |-> tree]
<1>1. Len(stream) \in Nat /\ Len(sent) \in Nat /\ Size(tree) \in Nat /\ Size(tree) > 2
      /\ sent \in Seq(Written) /\ stream \in Seq(Byte)
  BY SizeAssumption, LenProperties DEF Layout
<1>2. new \in Written
  BY DEF Written
<1>3. sent' \in Seq(Written) /\ Len(sent') = Len(sent) + 1 /\ sent'[Len(sent) + 1] = new
      /\ \A k \in 1..Len(sent) : sent'[k] = sent[k]
  BY <1>1, <1>2, AppendProperties
<1>4. /\ bytes \in Seq(Byte) /\ Len(bytes) = Size(tree)
      /\ \A i \in 1..Size(tree) :
           bytes[i] = [of |-> Len(sent) + 1, at |-> i, size |-> Size(tree)]
  <2>1. bytes \in [1..Size(tree) -> Byte]
    BY <1>1 DEF Bytes, Byte
  <2> HIDE DEF bytes
  <2>2. bytes \in Seq(Byte) /\ DOMAIN bytes = 1..Size(tree)
    BY <1>1, <2>1, FunctionIsSeq
  <2>3. Len(bytes) \in Nat /\ DOMAIN bytes = 1..Len(bytes)
    BY <2>2, LenProperties
  <2>4. Len(bytes) = Size(tree)
    BY <1>1, <2>2, <2>3
  <2> QED BY <2>2, <2>4 DEF Bytes, bytes
<1>5. /\ stream' \in Seq(Byte) /\ Len(stream') = Len(stream) + Size(tree)
      /\ \A i \in 1..(Len(stream) + Size(tree)) :
           stream'[i] = IF i <= Len(stream) THEN stream[i] ELSE bytes[i - Len(stream)]
  <2>1. stream' = stream \o bytes
    OBVIOUS
  <2> HIDE DEF bytes
  <2>2. /\ stream \o bytes \in Seq(Byte) /\ Len(stream \o bytes) = Len(stream) + Len(bytes)
        /\ \A i \in 1..(Len(stream) + Len(bytes)) :
             (stream \o bytes)[i] = IF i <= Len(stream) THEN stream[i] ELSE bytes[i - Len(stream)]
    BY <1>1, <1>4, ConcatProperties
  <2> QED BY <1>4, <2>1, <2>2
<1>6. DOMAIN stream' = 1..(Len(stream) + Size(tree))
  BY <1>5, LenProperties
<1>7. \A i \in 1..Len(stream) : stream'[i] = stream[i]
  BY <1>1, <1>5
<1>8. ASSUME NEW i \in (Len(stream) + 1)..(Len(stream) + Size(tree))
      PROVE  stream'[i] = [of |-> Len(sent) + 1, at |-> i - Len(stream), size |-> Size(tree)]
  <2> HIDE DEF bytes
  <2>1. stream'[i] = bytes[i - Len(stream)] /\ i - Len(stream) \in 1..Size(tree)
    BY <1>1, <1>5
  <2> QED BY <1>4, <2>1
<1>9. new.tree = tree
  OBVIOUS
<1> HIDE DEF bytes, new
<1> QED BY <1>1, <1>3, <1>5, <1>6, <1>7, <1>8, <1>9 DEF Longer

LEMMA LayoutGrows ==
  ASSUME Layout, NEW M \in Nat, NEW N \in Nat, N > 2, NEW tree, N = Size(tree), Longer(M, N, tree)
  PROVE  Layout'
<1> DEFINE K == Len(sent) + 1
<1>1. /\ M = Len(stream) /\ Len(sent) \in Nat /\ K = Len(sent) + 1
      /\ sent' \in Seq(Written) /\ Len(sent') = K
      /\ \A k \in 1..Len(sent) : sent'[k] = sent[k]
      /\ sent'[K].tree = tree
      /\ stream' \in Seq(Byte) /\ DOMAIN stream' = 1..(M + N)
      /\ Len(stream') = M + N
      /\ \A i \in 1..M : stream'[i] = stream[i]
      /\ \A i \in DOMAIN stream' : i > M =>
           stream'[i] = [of |-> K, at |-> i - M, size |-> N]
  <2>1. \A i \in 1..(M + N) : i > M => i \in (M + 1)..(M + N)
    OBVIOUS
  <2> QED BY <2>1 DEF Longer
<1> HIDE DEF K
<1>2. \A i \in 1..M : Around(i) /\ Behind(i) /\ i \in DOMAIN stream
  BY <1>1, LenProperties DEF Layout
<1>3. ASSUME NEW i \in 1..M
      PROVE  /\ stream'[i] = stream[i] /\ EndOf(i)' = EndOf(i) /\ EndOf(i) \in 1..M
             /\ Around(i)' /\ Behind(i)'
  <2>1. /\ stream'[i] = stream[i] /\ EndOf(i)' = EndOf(i) /\ EndOf(i) \in 1..M
        /\ stream[i].of \in 1..Len(sent) /\ stream[i].at \in Nat \ {0} /\ stream[i].size \in Nat
        /\ stream[i].at <= i
    BY <1>1, <1>2, ByteFacts DEF EndOf, Around
  <2>2. Around(i)'
    <3>1. ASSUME NEW a \in 1..stream[i].size
          PROVE  stream'[(i - stream[i].at) + a] =
                   [of |-> stream[i].of, at |-> a, size |-> stream[i].size]
      <4>1. (i - stream[i].at) + a \in 1..M
        <5>1. (i - stream[i].at) + stream[i].size \in 1..M
          BY <2>1 DEF EndOf
        <5>2. \A t, z, b \in Nat : t <= i /\ (i - t) + z \in 1..M /\ b \in 1..z => (i - t) + b \in 1..M
          OBVIOUS
        <5>3. stream[i].at \in Nat /\ stream[i].size \in Nat /\ stream[i].at <= i /\ a \in Nat
          BY <2>1
        <5> QED BY <5>1, <5>2, <5>3
      <4> QED BY <1>1, <1>2, <4>1 DEF Around
    <3>2. sent'[stream[i].of] = sent[stream[i].of] /\ stream[i].of \in 1..Len(sent')
      BY <1>1, <2>1
    <3>3. EndOf(i) <= Len(stream')
      BY <1>1, <2>1
    <3> QED BY <1>2, <2>1, <3>1, <3>2, <3>3 DEF Around
  <2>3. Behind(i)'
    <3>1. stream[i].of # Len(sent')
      BY <1>1, <2>1
    <3>2. CASE stream[i].of = Len(sent)
      <4>1. EndOf(i) = M
        BY <1>1, <1>2, <3>2 DEF Behind
      <4>2. M + 1 \in DOMAIN stream' /\ stream'[M + 1].of = stream[i].of + 1 /\ stream'[M + 1].at = 1
        <5>1. M + 1 \in 1..(M + N) /\ M + 1 > M /\ (M + 1) - M = 1
          OBVIOUS
        <5>2. stream'[M + 1] = [of |-> K, at |-> 1, size |-> N]
          BY <1>1, <5>1
        <5> QED BY <1>1, <3>2, <5>1, <5>2
      <4> QED BY <2>1, <3>1, <4>1, <4>2 DEF Behind
    <3>3. CASE stream[i].of # Len(sent)
      <4>1. EndOf(i) + 1 \in DOMAIN stream /\ stream[EndOf(i) + 1].of = stream[i].of + 1
            /\ stream[EndOf(i) + 1].at = 1
        BY <1>2, <3>3 DEF Behind
      <4>2. EndOf(i) + 1 \in 1..M
        <5>1. DOMAIN stream = 1..M
          BY <1>1, LenProperties DEF Layout
        <5> QED BY <4>1, <5>1
      <4>3. stream'[EndOf(i) + 1] = stream[EndOf(i) + 1] /\ EndOf(i) + 1 \in DOMAIN stream'
        BY <1>1, <4>2
      <4> QED BY <2>1, <3>1, <4>1, <4>3 DEF Behind
    <3> QED BY <3>2, <3>3
  <2> QED BY <2>1, <2>2, <2>3
<1>4. ASSUME NEW i \in DOMAIN stream', i > M
      PROVE  Around(i)' /\ Behind(i)'
  <2>1. i \in Nat /\ i <= M + N /\ stream'[i] = [of |-> K, at |-> i - M, size |-> N]
    BY <1>1, <1>4
  <2>2. stream'[i].of = K /\ stream'[i].at = i - M /\ stream'[i].size = N
    BY <2>1
  <2>3. EndOf(i)' = M + N /\ i - stream'[i].at = M
    BY <1>1, <2>1, <2>2 DEF EndOf
  <2>4. ASSUME NEW a \in 1..N PROVE stream'[M + a] = [of |-> K, at |-> a, size |-> N]
    <3>1. M + a \in DOMAIN stream' /\ M + a > M /\ (M + a) - M = a
      BY <1>1
    <3> QED BY <1>1, <3>1
  <2>5. Around(i)'
    <3>1. K \in 1..Len(sent') /\ N = Size(sent'[K].tree) /\ i - M \in 1..N /\ i - M <= i
          /\ M + N <= Len(stream')
      BY <1>1, <1>4, <2>1
    <3> QED BY <2>2, <2>3, <2>4, <3>1 DEF Around
  <2>6. Behind(i)'
    BY <1>1, <2>2, <2>3 DEF Behind
  <2> QED BY <2>5, <2>6
<1>5. ASSUME NEW i \in DOMAIN stream', NEW j \in DOMAIN stream', i < j
      PROVE  Ordered(i, j)'
  <2>1. i \in Nat \ {0} /\ j \in Nat \ {0} /\ i <= M + N /\ j <= M + N
    BY <1>1
  <2>2. CASE j <= M
    <3>1. i \in 1..M /\ j \in 1..M
      BY <1>1, <1>5, <2>1, <2>2
    <3>2. Ordered(i, j)
      BY <1>2, <1>5, <3>1 DEF Layout
    <3> QED BY <1>3, <3>1, <3>2 DEF Ordered
  <2>3. CASE i <= M /\ j > M
    <3>1. i \in 1..M /\ stream'[j].of = K
      BY <1>1, <2>1, <2>3
    <3>2. stream'[i].of \in 1..Len(sent)
      BY <1>2, <1>3, <3>1 DEF Around
    <3> QED BY <1>1, <3>1, <3>2 DEF Ordered
  <2>4. CASE i > M
    <3>1. stream'[i] = [of |-> K, at |-> i - M, size |-> N]
          /\ stream'[j] = [of |-> K, at |-> j - M, size |-> N]
      BY <1>1, <1>5, <2>1, <2>4
    <3>2. j - M = (i - M) + (j - i)
      BY <1>1, <2>1
    <3> QED BY <3>1, <3>2 DEF Ordered
  <2> QED BY <1>1, <2>1, <2>2, <2>3, <2>4
<1>6. stream' # <<>> /\ sent' # <<>> /\ stream'[1].of = 1 /\ stream'[1].at = 1
  <2>1. stream' # <<>> /\ sent' # <<>>
    BY <1>1, EmptySeq
  <2>2. CASE stream = <<>>
    <3>1. M = 0 /\ Len(sent) = 0
      BY <1>1, <2>2, EmptySeq DEF Layout
    <3> QED BY <1>1, <2>1, <3>1
  <2>3. CASE stream # <<>>
    <3>1. 1 \in 1..M
      BY <1>1, <2>3, EmptySeq DEF Layout
    <3> QED BY <1>1, <2>1, <2>3, <3>1 DEF Layout
  <2> QED BY <2>2, <2>3
<1>7. \A i \in DOMAIN stream' : (Around(i) /\ Behind(i))'
  <2>1. ASSUME NEW i \in DOMAIN stream' PROVE (Around(i) /\ Behind(i))'
    <3>1. i \in 1..M \/ i > M
      BY <1>1
    <3> QED BY <1>3, <1>4, <3>1
  <2> QED BY <2>1
<1> QED BY <1>1, <1>5, <1>6, <1>7 DEF Layout
-----------------------------------------------------------------------------
(* What one recv() takes, and what read_json finds behind it.              *)
LEMMA ProgressNumbers ==
  ASSUME Layout, Progress
  PROVE  /\ Len(stream) \in Nat /\ DOMAIN stream = 1..Len(stream) /\ Len(sent) \in Nat
         /\ arrived \in Nat /\ taken \in Nat /\ taken <= arrived /\ arrived <= Len(stream)
         /\ MAX_BUFFER_SIZE \in Nat /\ MAX_BUFFER_SIZE > 0
<1>1. DOMAIN stream = 1..Len(stream) /\ Len(stream) \in Nat /\ Len(sent) \in Nat
  BY LenProperties DEF Layout
<1>2. arrived \in 0..Len(stream) /\ taken \in 0..arrived
  BY DEF Progress
<1>3. arrived \in Nat /\ arrived <= Len(stream)
  BY <1>1, <1>2
<1>4. taken \in Nat /\ taken <= arrived
  BY <1>2, <1>3
<1> QED BY <1>1, <1>3, <1>4, BoundAssumption

(* Without "split" everything that was written has arrived, so that a      *)
(* recv() that does not fill the buffer takes the last newline.            *)
LEMMA AllArrived ==
  ASSUME Layout, Progress, "split" \notin trouble, NEW n \in Nat,
         n # MAX_BUFFER_SIZE, n = MAX_BUFFER_SIZE \/ taken + n = arrived
  PROVE  taken + n = Len(stream)
BY DEF Progress

LEMMA StaleWaits ==
  ASSUME Progress, "stale" \in trouble
  PROVE  "split" \notin trouble /\ "pipeline" \notin trouble
BY DEF Progress, Foreseen

LEMMA ReceivedBytes ==
  ASSUME Layout, Progress, Received # <<>>, NEW n, n = Len(Received)
  PROVE  /\ n \in 1..MAX_BUFFER_SIZE /\ taken + n <= arrived
         /\ n = MAX_BUFFER_SIZE \/ taken + n = arrived
         /\ Received \in Seq(Byte)
         /\ \A i \in 1..n : taken + i \in DOMAIN stream /\ Received[i] = stream[taken + i]
         /\ taken \in Nat /\ arrived \in Nat /\ arrived <= Len(stream) /\ Len(stream) \in Nat
         /\ DOMAIN stream = 1..Len(stream)
<1> DEFINE last == IF arrived - taken < MAX_BUFFER_SIZE THEN arrived
                   ELSE taken + MAX_BUFFER_SIZE
<1>1. /\ Len(stream) \in Nat /\ DOMAIN stream = 1..Len(stream) /\ stream \in Seq(Byte)
      /\ \A i \in 1..Len(stream) : stream[i] \in Byte
  BY LenProperties, ElementOfSeq DEF Layout
<1>2. /\ arrived \in Nat /\ taken \in Nat /\ taken <= arrived /\ arrived <= Len(stream)
      /\ MAX_BUFFER_SIZE \in Nat \ {0}
  BY ProgressNumbers
<1>3. /\ last \in Nat /\ taken <= last /\ last <= arrived /\ last - taken <= MAX_BUFFER_SIZE
      /\ last - taken = MAX_BUFFER_SIZE \/ last = arrived
  BY <1>2
<1>4. Received = SubSeq(stream, taken + 1, last)
  BY DEF Received
<1> HIDE DEF last
<1>5. \A i \in (taken + 1)..last : stream[i] \in Byte
  <2>1. \A i \in (taken + 1)..last : i \in 1..Len(stream)
    BY <1>1, <1>2, <1>3
  <2> QED BY <1>1, <2>1
<1>6. /\ Received \in Seq(Byte)
      /\ n = IF taken + 1 <= last THEN last - (taken + 1) + 1 ELSE 0
      /\ \A i \in 1..(last - (taken + 1) + 1) : Received[i] = stream[taken + 1 + i - 1]
  <2>1. taken + 1 \in Int /\ last \in Int
    BY <1>2, <1>3
  <2> QED BY <1>4, <1>5, <2>1, SubSeqProperties
<1>7. n # 0 /\ n \in Nat
  BY <1>6, LenProperties, EmptySeq
<1>8. n = last - taken
  BY <1>2, <1>3, <1>6, <1>7
<1>9. ASSUME NEW i \in 1..n
      PROVE  taken + i \in DOMAIN stream /\ Received[i] = stream[taken + i]
  <2>1. taken + 1 + i - 1 = taken + i /\ taken + i \in 1..Len(stream)
        /\ i \in 1..(last - (taken + 1) + 1)
    BY <1>1, <1>2, <1>3, <1>8
  <2> QED BY <1>1, <1>6, <2>1
<1> QED BY <1>1, <1>2, <1>3, <1>6, <1>7, <1>8, <1>9

LEMMA BeyondBytes ==
  ASSUME Residue, NEW n \in 1..MAX_BUFFER_SIZE, NEW beyond \in Beyond(n)
  PROVE  /\ beyond \in Seq(Byte) /\ Len(beyond) \in Nat
         /\ \/ Len(beyond) = 0
            \/ \A i \in 1..Len(beyond) :
                 beyond[i].of = 0 /\ (IsNewline(beyond[i]) => i > 1 /\ IsBrace(beyond[1]))
            \/ /\ "stale" \in trouble /\ n < MAX_BUFFER_SIZE /\ n < Len(buffer)
               /\ Len(beyond) = Len(buffer) - n
               /\ \A i \in 1..Len(beyond) : beyond[i] = buffer[n + i]
<1>1. CASE beyond = <<>>
  BY <1>1, EmptySeq
<1>2. CASE beyond \in Garbage
  <2>1. CASE beyond = << [of |-> 0, at |-> 1, size |-> 3] >>
    BY <2>1 DEF IsNewline, Byte
  <2>2. CASE beyond = << [of |-> 0, at |-> 2, size |-> 3], [of |-> 0, at |-> 3, size |-> 3] >>
    <3>1. /\ beyond \in Seq(Byte) /\ Len(beyond) = 2
          /\ beyond[1] = [of |-> 0, at |-> 2, size |-> 3]
          /\ beyond[2] = [of |-> 0, at |-> 3, size |-> 3]
      BY <2>2 DEF Byte
    <3>2. beyond[1].of = 0 /\ ~IsNewline(beyond[1]) /\ IsBrace(beyond[1]) /\ beyond[2].of = 0
      BY <3>1 DEF IsNewline, IsBrace, IsLast
    <3>3. \A i \in 1..2 : i = 1 \/ i = 2
      OBVIOUS
    <3> QED BY <3>1, <3>2, <3>3
  <2> QED BY <1>2, <2>1, <2>2 DEF Garbage
<1>3. CASE "stale" \in trouble /\ beyond = SubSeq(buffer, n + 1, Len(buffer))
  <2>1. buffer \in Seq(Byte) /\ Len(buffer) \in Nat /\ Len(buffer) <= MAX_BUFFER_SIZE
        /\ n \in Nat /\ \A i \in 1..Len(buffer) : buffer[i] \in Byte
    BY BoundAssumption, LenProperties, ElementOfSeq DEF Residue
  <2>2. /\ beyond \in Seq(Byte)
        /\ Len(beyond) = IF n + 1 <= Len(buffer) THEN Len(buffer) - (n + 1) + 1 ELSE 0
        /\ \A i \in 1..(Len(buffer) - (n + 1) + 1) : beyond[i] = buffer[n + 1 + i - 1]
    <3>1. \A i \in (n + 1)..Len(buffer) : buffer[i] \in Byte
      <4>1. \A i \in (n + 1)..Len(buffer) : i \in 1..Len(buffer)
        BY <2>1
      <4> QED BY <2>1, <4>1
    <3>2. n + 1 \in Int /\ Len(buffer) \in Int
      BY <2>1
    <3> QED BY <1>3, <3>1, <3>2, SubSeqProperties
  <2>3. CASE n < Len(buffer)
    <3>1. Len(beyond) = Len(buffer) - n /\ Len(beyond) \in Nat
      BY <2>1, <2>2, <2>3
    <3>2. ASSUME NEW i \in 1..Len(beyond) PROVE beyond[i] = buffer[n + i]
      <4>1. i \in 1..(Len(buffer) - (n + 1) + 1) /\ n + 1 + i - 1 = n + i
        BY <2>1, <3>1
      <4> QED BY <2>2, <4>1
    <3>3. n < MAX_BUFFER_SIZE
      BY <2>1, <2>3, BoundAssumption
    <3> QED BY <1>3, <2>2, <2>3, <3>1, <3>2, <3>3
  <2>4. CASE ~(n < Len(buffer))
    BY <2>1, <2>2, <2>4
  <2> QED BY <2>3, <2>4
<1> QED BY <1>1, <1>2, <1>3 DEF Beyond

LEMMA TextBytes ==
  ASSUME Layout, Progress, Residue, Received # <<>>, NEW beyond \in Beyond(Len(Received))
  PROVE  LET n    == Len(Received)
             text == Received \o beyond
         IN  /\ text \in Seq(Byte) /\ text # <<>>
             /\ Len(beyond) \in Nat /\ Len(text) = n + Len(beyond)
             /\ \A i \in 1..n : text[i] = stream[taken + i] /\ taken + i \in DOMAIN stream
             /\ \A i \in 1..Len(beyond) : text[n + i] = beyond[i]
<1> DEFINE n    == Len(Received)
           text == Received \o beyond
<1>1. /\ n \in 1..MAX_BUFFER_SIZE /\ n \in Nat /\ Received \in Seq(Byte)
      /\ \A i \in 1..n : Received[i] = stream[taken + i] /\ taken + i \in DOMAIN stream
  BY ReceivedBytes, BoundAssumption
<1>2. beyond \in Seq(Byte) /\ Len(beyond) \in Nat
  BY <1>1, BeyondBytes
<1>3. /\ text \in Seq(Byte) /\ Len(text) = n + Len(beyond)
      /\ \A i \in 1..(n + Len(beyond)) :
           text[i] = IF i <= n THEN Received[i] ELSE beyond[i - n]
  BY <1>1, <1>2, ConcatProperties
<1> HIDE DEF n, text
<1>4. text # <<>>
  BY <1>1, <1>2, <1>3, EmptySeq
<1>5. \A i \in 1..n : text[i] = stream[taken + i]
  BY <1>1, <1>2, <1>3
<1>6. ASSUME NEW i \in 1..Len(beyond) PROVE text[n + i] = beyond[i]
  <2>1. n + i \in 1..(n + Len(beyond)) /\ ~(n + i <= n) /\ (n + i) - n = i
    BY <1>1, <1>2
  <2> QED BY <1>3, <2>1
<1> QED BY <1>1, <1>2, <1>3, <1>4, <1>5, <1>6 DEF n, text
Spans(text, start, end) ==
  /\ start \in 1..end /\ end \in 1..Len(text) /\ KeptUpTo(text, end)
  /\ \A i \in 1..(start - 1) : IsNewline(text[i])
  /\ \A j \in start..end : text[j].of > 0
  /\ \A j \in start..end : j <= Len(Received) => ~IsNewline(text[j])

(* A value that read_json accepts lies in what recv() took, at its first   *)
(* byte or behind one newline: stale bytes never complete it.              *)
LEMMA SpanReceived ==
  ASSUME Layout, Progress, Residue, up, Received # <<>>, NEW beyond \in Beyond(Len(Received)),
         NEW start, NEW end, Spans(Received \o beyond, start, end)
  PROVE  start \in {1, 2} /\ end <= Len(Received)
<1> DEFINE n    == Len(Received)
           text == Received \o beyond
<1>1. /\ n \in 1..MAX_BUFFER_SIZE /\ n \in Nat /\ taken + n <= arrived
      /\ n = MAX_BUFFER_SIZE \/ taken + n = arrived
      /\ \A i \in 1..n : taken + i \in DOMAIN stream
      /\ taken \in Nat /\ arrived \in Nat /\ arrived <= Len(stream) /\ Len(stream) \in Nat
      /\ DOMAIN stream = 1..Len(stream)
  BY ReceivedBytes, BoundAssumption
<1>2. /\ Len(beyond) \in Nat /\ Len(text) = n + Len(beyond)
      /\ \A i \in 1..n : text[i] = stream[taken + i]
      /\ \A i \in 1..Len(beyond) : text[n + i] = beyond[i]
  BY TextBytes
<1>0. /\ start \in 1..end /\ end \in 1..Len(text) /\ KeptUpTo(text, end)
      /\ \A i \in 1..(start - 1) : IsNewline(text[i])
      /\ \A j \in start..end : text[j].of > 0
      /\ \A j \in start..end : j <= n => ~IsNewline(text[j])
      /\ beyond \in Beyond(n)
  BY DEF Spans
<1> HIDE DEF n, text
<1>3. end \in Nat /\ start \in Nat \ {0} /\ end <= n + Len(beyond) /\ start <= end
  BY <1>0, <1>1, <1>2
<1>7. start <= 2 \/ n < 2
  <2> SUFFICES ASSUME start > 2, n >= 2 PROVE FALSE
    BY <1>1, <1>3
  <2>1. IsNewline(stream[taken + 1]) /\ IsNewline(stream[taken + 2])
        /\ taken + 1 \in DOMAIN stream /\ taken + 2 \in DOMAIN stream
    <3>1. 1 \in 1..(start - 1) /\ 2 \in 1..(start - 1) /\ 1 \in 1..n /\ 2 \in 1..n
      BY <1>1, <1>3
    <3> QED BY <1>0, <1>1, <1>2, <3>1
  <2>2. ~IsNewline(stream[(taken + 2) - 1])
    BY <2>1, NewlinesApart
  <2>3. (taken + 2) - 1 = taken + 1
    BY <1>1
  <2> QED BY <2>1, <2>2, <2>3
<1>8. end <= n
  <2> SUFFICES ASSUME end > n PROVE FALSE
    BY <1>1, <1>3
  <2>1. end - n \in 1..Len(beyond) /\ n + (end - n) = end /\ end \in start..end
    BY <1>1, <1>2, <1>3
  <2>2. text[end] = beyond[end - n]
    BY <1>2, <2>1
  <2>3. beyond[end - n].of # 0
    <3>1. text[end].of > 0
      BY <1>0, <2>1
    <3> QED BY <2>2, <3>1
  <2>4. Len(beyond) # 0
    BY <1>2, <2>1
  <2>5. /\ "stale" \in trouble /\ n < MAX_BUFFER_SIZE /\ n < Len(buffer)
        /\ Len(beyond) = Len(buffer) - n
        /\ \A i \in 1..Len(beyond) : beyond[i] = buffer[n + i]
    BY <1>0, <1>1, <2>1, <2>3, <2>4, BeyondBytes
  <2>6. taken + n = Len(stream)
    <3>1. "split" \notin trouble
      BY <2>5, StaleWaits
    <3>2. n # MAX_BUFFER_SIZE
      BY <1>1, <2>5
    <3> QED BY <1>1, <3>1, <3>2, AllArrived
  <2>7. IsNewline(stream[taken + n]) /\ taken + n \in DOMAIN stream
    <3>1. stream # <<>>
      BY <1>1, <2>6, EmptySeq
    <3> QED BY <2>6, <3>1, LastByte
  <2>8. start > n
    <3> SUFFICES ASSUME ~(start > n) PROVE FALSE
      OBVIOUS
    <3>1. n \in start..end /\ n \in 1..n
      BY <1>1, <1>3
    <3>2. ~IsNewline(text[n]) /\ text[n] = stream[taken + n]
      BY <1>0, <1>1, <1>2, <3>1
    <3> QED BY <2>7, <3>2
  <2>9. n = 1
    <3> SUFFICES ASSUME n # 1 PROVE FALSE
      OBVIOUS
    <3>1. (n >= 2 /\ start = 2 /\ n = 2) \/ n < 2
      BY <1>1, <1>3, <1>7, <2>8
    <3> QED BY <1>1, <2>8, <3>1
  <2>10. taken > 0 /\ taken \in DOMAIN stream /\ ~IsNewline(stream[taken])
    <3>1. taken + 1 > 1 /\ (taken + 1) - 1 \in DOMAIN stream /\ ~IsNewline(stream[(taken + 1) - 1])
      BY <2>7, <2>9, NewlinesApart
    <3>2. (taken + 1) - 1 = taken
      BY <1>1
    <3> QED BY <1>1, <3>1, <3>2
  <2>11. \A i \in DOMAIN buffer : ~IsNewline(buffer[i])
    BY <2>5, <2>10 DEF Residue
  <2>12. PICK m \in end..Len(text) : IsNewline(text[m])
    <3>1. IsNewline(text[1]) /\ 1 \in 1..Len(text)
      <4>1. 1 \in 1..(start - 1) /\ 1 \in 1..Len(text)
        BY <1>1, <1>2, <1>3, <2>8
      <4> QED BY <1>0, <4>1
    <3> QED BY <1>0, <3>1 DEF KeptUpTo
  <2>13. m - n \in 1..Len(beyond) /\ n + (m - n) = m /\ m \in 1..Len(buffer)
    <3>1. DOMAIN buffer = 1..Len(buffer) /\ Len(buffer) \in Nat
      BY LenProperties DEF Residue
    <3> QED BY <1>1, <1>2, <1>3, <2>5, <3>1
  <2>14. text[m] = buffer[m]
    <3>1. text[n + (m - n)] = beyond[m - n]
      BY <1>2, <2>13
    <3>2. beyond[m - n] = buffer[n + (m - n)]
      BY <2>5, <2>13
    <3> QED BY <2>13, <3>1, <3>2
  <2>15. m \in DOMAIN buffer
    <3>1. DOMAIN buffer = 1..Len(buffer)
      BY LenProperties DEF Residue
    <3> QED BY <2>13, <3>1
  <2> QED BY <2>11, <2>12, <2>14, <2>15
<1>9. start \in {1, 2}
  BY <1>1, <1>3, <1>7, <1>8
<1> QED BY <1>8, <1>9 DEF n

Accepted(text, value, start, end) ==
  /\ value = SubSeq(text, start, end) /\ KeptUpTo(text, end)
  /\ \A i \in 1..(start - 1) : IsNewline(text[i])

LEMMA ValueBytes ==
  ASSUME NEW text \in Seq(Byte), NEW end \in 1..Len(text), NEW start \in 1..end,
         NEW value, value = SubSeq(text, start, end)
  PROVE  /\ value \in Seq(Byte) /\ Len(value) = end - start + 1 /\ DOMAIN value = 1..Len(value)
         /\ Len(value) \in Nat \ {0} /\ end \in Nat /\ start \in Nat \ {0}
         /\ \A j \in start..end :
              j - start + 1 \in DOMAIN value /\ value[j - start + 1] = text[j] /\ text[j] \in Byte
<1>1. /\ Len(text) \in Nat /\ end \in Nat /\ start \in Nat \ {0} /\ start <= end /\ end <= Len(text)
      /\ \A i \in 1..Len(text) : text[i] \in Byte
  BY LenProperties, ElementOfSeq
<1>2. \A i \in start..end : text[i] \in Byte
  <2>1. \A i \in start..end : i \in 1..Len(text)
    BY <1>1
  <2> QED BY <1>1, <2>1
<1>3. /\ value \in Seq(Byte) /\ Len(value) = end - start + 1
      /\ \A i \in 1..(end - start + 1) : value[i] = text[start + i - 1]
  BY <1>1, <1>2, SubSeqProperties
<1>4. DOMAIN value = 1..Len(value)
  BY <1>3, LenProperties
<1>5. ASSUME NEW j \in start..end
      PROVE  j - start + 1 \in DOMAIN value /\ value[j - start + 1] = text[j]
  <2>1. j - start + 1 \in 1..(end - start + 1) /\ start + (j - start + 1) - 1 = j
    BY <1>1
  <2> QED BY <1>3, <1>4, <2>1
<1>6. Len(value) \in Nat \ {0}
  BY <1>1, <1>3
<1> QED BY <1>1, <1>2, <1>3, <1>4, <1>5, <1>6

LEMMA ValueReceived ==
  ASSUME Layout, Progress, Residue, up, Received # <<>>, NEW beyond \in Beyond(Len(Received)),
         NEW end \in 1..Len(Received \o beyond), NEW start \in 1..end, NEW value,
         Accepted(Received \o beyond, value, start, end), IsWhole(value)
  PROVE  /\ start \in {1, 2} /\ end <= Len(Received)
         /\ value \in Seq(Byte) /\ Len(value) = end - start + 1
         /\ \A i \in 1..Len(value) :
              /\ value[i] = stream[taken + (start - 1) + i]
              /\ taken + (start - 1) + i \in DOMAIN stream
              /\ value[i].of > 0 /\ value[i].at = i /\ value[i].size = Len(value) + 1
<1> DEFINE n    == Len(Received)
           text == Received \o beyond
<1>1. /\ n \in Nat /\ taken \in Nat /\ \A i \in 1..n : taken + i \in DOMAIN stream
  BY ReceivedBytes, BoundAssumption
<1>2. /\ text \in Seq(Byte) /\ Len(beyond) \in Nat /\ Len(text) = n + Len(beyond)
      /\ \A i \in 1..n : text[i] = stream[taken + i]
  BY TextBytes
<1>0. /\ value = SubSeq(text, start, end) /\ KeptUpTo(text, end)
      /\ \A i \in 1..(start - 1) : IsNewline(text[i])
      /\ end \in 1..Len(text) /\ start \in 1..end
  BY DEF Accepted
<1> HIDE DEF n, text
<1>4. /\ value \in Seq(Byte) /\ Len(value) = end - start + 1 /\ DOMAIN value = 1..Len(value)
      /\ Len(value) \in Nat \ {0} /\ end \in Nat /\ start \in Nat \ {0}
      /\ \A j \in start..end : j - start + 1 \in DOMAIN value /\ value[j - start + 1] = text[j]
  BY <1>0, <1>2, ValueBytes
<1>5. ASSUME NEW j \in start..end
      PROVE  text[j].of > 0 /\ text[j].at = j - start + 1 /\ text[j].size = end - start + 2
  <2>1. j - start + 1 \in DOMAIN value /\ value[j - start + 1] = text[j]
        /\ Len(value) + 1 = end - start + 2
    BY <1>4
  <2> QED BY <2>1 DEF IsWhole
<1>6. \A j \in start..end : ~IsNewline(text[j])
  <2>1. \A j \in start..end : j - start + 1 # end - start + 2
    BY <1>4
  <2> QED BY <1>5, <2>1 DEF IsNewline
<1>8. start \in {1, 2} /\ end <= n
  <2>1. Spans(text, start, end)
    BY <1>0, <1>5, <1>6 DEF Spans
  <2> QED BY <2>1, SpanReceived DEF n, text
<1>10. ASSUME NEW i \in 1..Len(value)
       PROVE  /\ value[i] = stream[taken + (start - 1) + i]
              /\ taken + (start - 1) + i \in DOMAIN stream
              /\ value[i].of > 0 /\ value[i].at = i /\ value[i].size = Len(value) + 1
  <2> DEFINE j == start + i - 1
  <2>1. /\ j \in start..end /\ j \in 1..n /\ j - start + 1 = i
        /\ taken + j = taken + (start - 1) + i
    <3>1. \A a, b, c, x \in Nat : b > 0 /\ b <= a /\ a <= c /\ x \in 1..(a - b + 1)
            => b + x - 1 \in b..a /\ b + x - 1 \in 1..c /\ (b + x - 1) - b + 1 = x
      OBVIOUS
    <3>2. i \in 1..(end - start + 1) /\ i \in Nat /\ start <= end
      BY <1>0, <1>4
    <3>3. j \in start..end /\ j \in 1..n /\ j - start + 1 = i
      BY <1>1, <1>4, <1>8, <3>1, <3>2
    <3>4. taken + j = taken + (start - 1) + i
      BY <1>1, <1>4, <3>2
    <3> QED BY <3>3, <3>4
  <2> HIDE DEF j
  <2>2. value[i] = text[j] /\ text[j] = stream[taken + j] /\ taken + j \in DOMAIN stream
    BY <1>1, <1>2, <1>4, <2>1
  <2>3. i \in DOMAIN value
    BY <1>4
  <2> QED BY <2>1, <2>2, <2>3 DEF IsWhole
<1> QED BY <1>4, <1>8, <1>10 DEF n
(* The reading of one recv() of n bytes: the request behind those begun    *)
(* already, from its first byte at place p to its closing brace.           *)
ReadAt(value, p, n) ==
  LET size == Len(value) + 1
  IN  /\ p \in DOMAIN stream /\ p + size - 1 \in DOMAIN stream
      /\ value \in Seq(Byte) /\ Len(value) \in Nat /\ size > 2
      /\ Begun + 1 \in 1..Len(sent) /\ size = Size(sent[Begun + 1].tree)
      /\ \A i \in 1..size : stream[p + i - 1] = [of |-> Begun + 1, at |-> i, size |-> size]
      /\ \A i \in 1..Len(value) : value[i] = [of |-> Begun + 1, at |-> i, size |-> size]
      /\ p + size - 2 <= taken + n
      /\ \A m \in (p + size)..(taken + n) : ~IsNewline(stream[m])
      /\ \/ p = taken + 1 /\ (taken = 0 \/ IsNewline(stream[taken]))
         \/ /\ p = taken + 2 /\ p + size - 1 <= taken + n
            /\ taken > 0 /\ IsLast(stream[taken]) /\ ~IsNewline(stream[taken])
            /\ IsNewline(stream[taken + 1])

LEMMA BehindBegun ==
  ASSUME Layout, Progress, NEW p \in DOMAIN stream, stream[p].at = 1,
         \/ p = taken + 1
         \/ p = taken + 2 /\ IsNewline(stream[taken + 1])
  PROVE  /\ stream[p].of = Begun + 1
         /\ \/ p = taken + 1 /\ (taken = 0 \/ IsNewline(stream[taken]))
            \/ /\ p = taken + 2 /\ taken > 0 /\ IsLast(stream[taken])
               /\ ~IsNewline(stream[taken]) /\ IsNewline(stream[taken + 1])
<1>1. DOMAIN stream = 1..Len(stream) /\ Len(stream) \in Nat /\ taken \in Nat
      /\ stream # <<>>
  <2>1. DOMAIN stream = 1..Len(stream) /\ Len(stream) \in Nat
    BY ByteFacts
  <2>2. taken \in Nat
    BY ProgressNumbers
  <2> QED BY <2>1, <2>2, EmptySeq
<1>2. CASE p = taken + 1 /\ taken = 0
  BY <1>1, <1>2 DEF Begun, Layout
<1>3. CASE p = taken + 1 /\ taken # 0
  <2>1. p > 1 /\ p - 1 = taken
    BY <1>1, <1>3
  <2>2. IsNewline(stream[p - 1]) /\ stream[p].of = stream[p - 1].of + 1
    BY <2>1, BeginsBehindNewline
  <2> QED BY <1>3, <2>1, <2>2 DEF Begun
<1>4. CASE p = taken + 2 /\ IsNewline(stream[taken + 1])
  <2>1. taken + 1 \in DOMAIN stream /\ (taken + 1) - 1 = taken /\ (taken + 1) + 1 = p
    BY <1>1, <1>4
  <2>2. /\ taken + 1 > 1 /\ IsLast(stream[(taken + 1) - 1]) /\ ~IsNewline(stream[(taken + 1) - 1])
        /\ stream[(taken + 1) - 1].of = stream[taken + 1].of
    BY <1>4, <2>1, NewlinesApart
  <2>3. stream[(taken + 1) + 1].of = stream[taken + 1].of + 1
    BY <1>4, <2>1, NextByte
  <2>4. taken > 0
    BY <1>1, <2>2
  <2>5. stream[p].of = stream[taken].of + 1 /\ Begun = stream[taken].of
    BY <2>1, <2>2, <2>3, <2>4 DEF Begun
  <2> QED BY <1>4, <2>1, <2>2, <2>4, <2>5
<1> QED BY <1>2, <1>3, <1>4

LEMMA Reading ==
  ASSUME Layout, Progress, Residue, up, Received # <<>>, NEW n, n = Len(Received),
         NEW beyond \in Beyond(n), NEW value, value = From(Received \o beyond), IsWhole(value)
  PROVE  \E p \in {taken + 1, taken + 2} : ReadAt(value, p, n)
<1> DEFINE text == Received \o beyond
<1>1. /\ n \in 1..MAX_BUFFER_SIZE /\ n \in Nat /\ taken + n <= arrived
      /\ n = MAX_BUFFER_SIZE \/ taken + n = arrived
      /\ \A i \in 1..n : taken + i \in DOMAIN stream
      /\ taken \in Nat /\ arrived \in Nat /\ arrived <= Len(stream) /\ Len(stream) \in Nat
      /\ DOMAIN stream = 1..Len(stream)
  BY ReceivedBytes, BoundAssumption
<1>2. /\ text \in Seq(Byte) /\ text # <<>> /\ Len(beyond) \in Nat /\ Len(text) = n + Len(beyond)
      /\ \A i \in 1..n : text[i] = stream[taken + i]
      /\ \A i \in 1..Len(beyond) : text[n + i] = beyond[i]
      /\ \A i \in 1..Len(text) : text[i] \in Byte
  <2>1. /\ text \in Seq(Byte) /\ text # <<>> /\ Len(beyond) \in Nat /\ Len(text) = n + Len(beyond)
        /\ \A i \in 1..n : text[i] = stream[taken + i]
        /\ \A i \in 1..Len(beyond) : text[n + i] = beyond[i]
    BY TextBytes
  <2>2. \A i \in 1..Len(text) : text[i] \in Byte
    BY <2>1, ElementOfSeq
  <2> QED BY <2>1, <2>2
<1>3. value = From(text)
  OBVIOUS
<1>4. text = Received \o beyond /\ beyond \in Beyond(Len(Received))
  OBVIOUS
<1> HIDE DEF text
<1>5. PICK end \in 1..Len(text) :
        /\ KeptUpTo(text, end)
        /\ \/ value = <<>>
           \/ \E start \in 1..end :
                /\ value = SubSeq(text, start, end)
                /\ ~IsNewline(text[start])
                /\ \A i \in 1..(start - 1) : IsNewline(text[i])
  BY <1>2, <1>3, FromKeeps
<1>6. PICK start \in 1..end :
        /\ value = SubSeq(text, start, end)
        /\ ~IsNewline(text[start])
        /\ \A i \in 1..(start - 1) : IsNewline(text[i])
  BY <1>5 DEF IsWhole
<1>7. /\ start \in {1, 2} /\ end <= n
      /\ value \in Seq(Byte) /\ Len(value) = end - start + 1
      /\ \A i \in 1..Len(value) :
           /\ value[i] = stream[taken + (start - 1) + i]
           /\ taken + (start - 1) + i \in DOMAIN stream
           /\ value[i].of > 0 /\ value[i].at = i /\ value[i].size = Len(value) + 1
  <2>1. Accepted(text, value, start, end)
    BY <1>5, <1>6 DEF Accepted
  <2> QED BY <1>4, <2>1, ValueReceived
<1> DEFINE p    == taken + start
           L    == Len(value)
           size == L + 1
<1>8. /\ L \in Nat \ {0} /\ p \in Nat /\ end \in Nat /\ start \in Nat /\ size \in Nat
      /\ L = end - start + 1 /\ L = Len(value) /\ p = taken + start /\ size = L + 1
      /\ end <= n /\ (start = 1 \/ start = 2)
  BY <1>1, <1>2, <1>7
<1> HIDE DEF p, L, size
<1>9. p \in DOMAIN stream /\ stream[p].at = 1 /\ stream[p].size = size
  <2>1. taken + (start - 1) + 1 = p /\ 1 \in 1..Len(value)
    BY <1>1, <1>8
  <2>2. value[1] = stream[taken + (start - 1) + 1] /\ taken + (start - 1) + 1 \in DOMAIN stream
        /\ value[1].at = 1 /\ value[1].size = Len(value) + 1
    BY <1>7, <2>1
  <2> QED BY <1>8, <2>1, <2>2
<1>10. start = 2 => IsNewline(stream[taken + 1])
  <2> SUFFICES ASSUME start = 2 PROVE IsNewline(stream[taken + 1])
    OBVIOUS
  <2>1. 1 \in 1..(start - 1) /\ 1 \in 1..n
    BY <1>1
  <2> QED BY <1>2, <1>6, <2>1
<1>11. /\ stream[p].of = Begun + 1
       /\ \/ p = taken + 1 /\ (taken = 0 \/ IsNewline(stream[taken]))
          \/ /\ p = taken + 2 /\ taken > 0 /\ IsLast(stream[taken])
             /\ ~IsNewline(stream[taken]) /\ IsNewline(stream[taken + 1])
  <2>1. p = taken + 1 \/ (p = taken + 2 /\ IsNewline(stream[taken + 1]))
    <3>1. CASE start = 1
      BY <1>8, <3>1
    <3>2. CASE start = 2
      BY <1>8, <1>10, <3>2
    <3> QED BY <1>8, <3>1, <3>2
  <2> QED BY <1>9, <2>1, BehindBegun
<1>12. /\ size > 2 /\ Begun + 1 \in 1..Len(sent) /\ size = Size(sent[Begun + 1].tree)
       /\ p + size - 1 \in DOMAIN stream
       /\ \A i \in 1..size : stream[p + i - 1] = [of |-> Begun + 1, at |-> i, size |-> size]
  <2>1. stream[p].size > 2 /\ Around(p) /\ EndOf(p) = p - 1 + size
    BY <1>9, ByteFacts DEF Layout, EndOf
  <2>2. p - 1 + size <= Len(stream)
    BY <2>1 DEF Around
  <2>3. ASSUME NEW i \in 1..size
        PROVE  stream[p + i - 1] = [of |-> Begun + 1, at |-> i, size |-> size]
    <3>1. stream[(p - 1) + i] = [of |-> Begun + 1, at |-> i, size |-> size]
      BY <1>9, <1>11, <2>1 DEF Around
    <3>2. (p - 1) + i = p + i - 1
      BY <1>8
    <3> QED BY <3>1, <3>2
  <2>4. p + size - 1 \in 1..Len(stream)
    <3>1. p >= 1 /\ Len(stream) \in Nat
      BY <1>1, <1>9
    <3> QED BY <1>8, <2>2, <3>1
  <2> QED BY <1>1, <1>9, <1>11, <2>1, <2>3, <2>4 DEF Around
<1>13. \A i \in 1..L : value[i] = [of |-> Begun + 1, at |-> i, size |-> size]
  <2>1. ASSUME NEW i \in 1..L PROVE value[i] = [of |-> Begun + 1, at |-> i, size |-> size]
    <3>1. i \in 1..size /\ taken + (start - 1) + i = p + i - 1
      BY <1>1, <1>8
    <3>2. value[i] = stream[p + i - 1]
      BY <1>7, <1>8, <3>1
    <3> QED BY <1>12, <3>1, <3>2
  <2> QED BY <2>1
<1>14. p + size - 2 = taken + end /\ p + size - 2 <= taken + n
  BY <1>1, <1>7, <1>8
<1>15. ASSUME NEW m \in (p + size)..(taken + n) PROVE ~IsNewline(stream[m])
  <2> SUFFICES ASSUME IsNewline(stream[m]) PROVE FALSE
    OBVIOUS
  <2> DEFINE j == m - taken
  <2>1. j \in 1..n /\ j - 1 \in 1..n /\ j - 1 > end /\ taken + j = m /\ taken + (j - 1) = m - 1
        /\ j \in 1..Len(text) /\ j - 1 \in 1..Len(text) /\ j - 1 <= j
    <3>1. m \in Nat /\ taken \in Nat /\ n \in Nat /\ end \in Nat
          /\ p + size <= m /\ m <= taken + n /\ p + size - 2 = taken + end
          /\ p \in Nat /\ size \in Nat /\ Len(text) \in Nat /\ n <= Len(text)
      BY <1>1, <1>2, <1>8, <1>14
    <3>2. taken + end + 2 <= m
      BY <3>1
    <3> HIDE DEF j
    <3>3. j = m - taken
      BY DEF j
    <3>4. j \in Nat /\ taken + j = m /\ end + 2 <= j /\ j <= n
      BY <3>1, <3>2, <3>3
    <3> QED BY <3>1, <3>4
  <2>2. text[j] = stream[m] /\ text[j - 1] = stream[m - 1] /\ m \in DOMAIN stream
    BY <1>1, <1>2, <2>1
  <2>3. IsBrace(stream[m - 1])
    BY <2>2, NewlinesApart DEF IsBrace
  <2>4. j - 1 <= end
    BY <1>5, <2>1, <2>2, <2>3 DEF KeptUpTo
  <2> QED BY <1>8, <2>1, <2>4
<1>16. ASSUME p = taken + 2, IsNewline(stream[taken + 1]) PROVE p + size - 1 <= taken + n
  <2> SUFFICES ASSUME end = n PROVE FALSE
    <3>1. taken \in Nat /\ n \in Nat
      BY <1>1
    <3>2. end # n
      OBVIOUS
    <3> QED BY <1>8, <1>14, <3>1, <3>2
  <2>1. end = n /\ p + size - 2 = taken + n /\ p \in Nat /\ size \in Nat
    BY <1>8, <1>14
  <2>2. size - 1 \in 1..size /\ p + (size - 1) - 1 = taken + n
    <3>1. size > 2
      BY <1>12
    <3>2. size - 1 \in 1..size
      BY <2>1, <3>1
    <3>3. p + (size - 1) - 1 = p + size - 2
      BY <2>1
    <3> QED BY <2>1, <3>2, <3>3
  <2>3. stream[taken + n] = [of |-> Begun + 1, at |-> size - 1, size |-> size]
    BY <1>12, <2>2
  <2>4. ~IsNewline(stream[taken + n])
    BY <1>8, <2>3 DEF IsNewline
  <2>5. PICK m \in end..Len(text) : IsNewline(text[m])
    <3>1. start = 2
      BY <1>1, <1>8, <1>16
    <3>2. 1 \in 1..(start - 1) /\ 1 \in 1..Len(text)
      BY <1>1, <1>2, <3>1
    <3> QED BY <1>5, <1>6, <3>2 DEF KeptUpTo
  <2>6. text[n] = stream[taken + n]
    BY <1>1, <1>2
  <2>7. m # n
    BY <2>4, <2>5, <2>6
  <2>8. m - n \in 1..Len(beyond) /\ n + (m - n) = m
    BY <1>1, <1>2, <2>1, <2>7
  <2>9. text[m] = beyond[m - n]
    BY <1>2, <2>8
  <2>10. CASE \A i \in 1..Len(beyond) :
                beyond[i].of = 0 /\ (IsNewline(beyond[i]) => i > 1 /\ IsBrace(beyond[1]))
    <3>1. m - n > 1 /\ IsBrace(beyond[1])
      BY <2>5, <2>8, <2>9, <2>10
    <3>2. 1 \in 1..Len(beyond) /\ n + 1 \in 1..Len(text) /\ m \in 1..Len(text) /\ n + 1 <= m
      BY <1>1, <1>2, <2>8, <3>1
    <3>3. IsBrace(text[n + 1])
      BY <1>2, <3>1, <3>2
    <3>4. n + 1 <= end
      BY <1>5, <2>5, <3>2, <3>3 DEF KeptUpTo
    <3> QED BY <1>1, <2>1, <3>4
  <2>11. CASE "stale" \in trouble /\ n < MAX_BUFFER_SIZE
    <3>1. taken + n = Len(stream)
      <4>1. "split" \notin trouble
        BY <2>11, StaleWaits
      <4>2. n # MAX_BUFFER_SIZE
        BY <1>1, <2>11
      <4> QED BY <1>1, <4>1, <4>2, AllArrived
    <3>2. stream # <<>>
      BY <1>1, <1>9, EmptySeq
    <3>3. IsNewline(stream[Len(stream)])
      BY <3>2, LastByte
    <3> QED BY <2>4, <3>1, <3>3
  <2>12. Len(beyond) # 0
    BY <1>2, <2>8
  <2> QED BY <1>1, <2>10, <2>11, <2>12, BeyondBytes
<1>17. ReadAt(value, p, n)
  <2>1. /\ p \in DOMAIN stream /\ p + size - 1 \in DOMAIN stream /\ Len(value) \in Nat
        /\ size = Len(value) + 1
    BY <1>8, <1>9, <1>12
  <2> QED BY <1>7, <1>8, <1>11, <1>12, <1>13, <1>14, <1>15, <1>16, <2>1 DEF ReadAt
<1>18. p \in {taken + 1, taken + 2}
  BY <1>7, <1>8
<1> QED BY <1>17, <1>18

(* A part of a request is read only within it, after its beginning was     *)
(* dropped, and by a recv() that ends within it, too.                      *)
LEMMA PartReading ==
  ASSUME Layout, Progress, Residue, Torn, up, Received # <<>>, NEW n, n = Len(Received),
         NEW beyond \in Beyond(n), NEW value, value = From(Received \o beyond),
         NEW part \in PartsIn(value)
  PROVE  /\ Inside /\ "pipeline" \in trouble
         /\ value[1].of = Begun /\ VisitRequest(part.tree) = Untagged
         /\ stream[taken + n].of = Begun
         /\ ~IsNewline(stream[taken + n]) /\ ~IsLast(stream[taken + n])
<1> DEFINE text == Received \o beyond
           k    == value[1].of
<1>1. /\ n \in Nat \ {0} /\ \A i \in 1..n : taken + i \in DOMAIN stream
      /\ taken \in Nat /\ Len(stream) \in Nat /\ DOMAIN stream = 1..Len(stream)
  BY ReceivedBytes, BoundAssumption
<1>2. /\ text \in Seq(Byte) /\ text # <<>> /\ Len(beyond) \in Nat /\ Len(text) = n + Len(beyond)
      /\ \A i \in 1..n : text[i] = stream[taken + i]
  BY TextBytes
<1>3. value = From(text) /\ beyond \in Beyond(Len(Received))
  OBVIOUS
<1>4. value # <<>> /\ k # 0 /\ part \in Parts(sent[k].tree) /\ IsPart(value, part)
  BY DEF PartsIn
<1> HIDE DEF text
<1>5. PICK end \in 1..Len(text) :
        /\ KeptUpTo(text, end)
        /\ \/ value = <<>>
           \/ \E start \in 1..end :
                /\ value = SubSeq(text, start, end)
                /\ ~IsNewline(text[start])
                /\ \A i \in 1..(start - 1) : IsNewline(text[i])
  BY <1>2, <1>3, FromKeeps
<1>6. PICK start \in 1..end :
        /\ value = SubSeq(text, start, end)
        /\ \A i \in 1..(start - 1) : IsNewline(text[i])
  BY <1>4, <1>5
<1>7. /\ Len(value) = end - start + 1 /\ DOMAIN value = 1..Len(value)
      /\ Len(value) \in Nat \ {0} /\ end \in Nat /\ start \in Nat \ {0} /\ start <= end
      /\ \A j \in start..end :
           j - start + 1 \in DOMAIN value /\ value[j - start + 1] = text[j] /\ text[j] \in Byte
  BY <1>2, <1>6, ValueBytes
<1>8. /\ Len(value) = part.last - part.first + 1
      /\ \A j \in start..end : text[j].of = k /\ text[j].at = part.first + (j - start + 1) - 1
  <2>1. ASSUME NEW j \in start..end
        PROVE  text[j].of = k /\ text[j].at = part.first + (j - start + 1) - 1
    <3>1. j - start + 1 \in DOMAIN value /\ value[j - start + 1] = text[j]
      BY <1>7
    <3> QED BY <1>4, <3>1 DEF IsPart
  <2> QED BY <1>4, <2>1 DEF IsPart
<1>9. k > 0 /\ \A j \in start..end : text[j].of > 0
  <2>1. start \in start..end
    BY <1>7
  <2>2. text[start].of \in Nat /\ text[start].of = k
    BY <1>7, <1>8, <2>1 DEF Byte
  <2> HIDE DEF k
  <2> QED BY <1>4, <1>8, <2>2
<1> HIDE DEF k
<1> DEFINE z == Size(sent[k].tree)
<1>10. start <= n =>
         /\ k \in 1..Len(sent) /\ z \in Nat
         /\ part.first \in Nat /\ part.last \in Nat /\ part.first >= 2
         /\ part.first <= part.last /\ part.last <= z - 2
         /\ VisitRequest(part.tree) = Untagged
  <2> SUFFICES ASSUME start <= n
               PROVE  /\ k \in 1..Len(sent) /\ z \in Nat
                      /\ part.first \in Nat /\ part.last \in Nat /\ part.first >= 2
                      /\ part.first <= part.last /\ part.last <= z - 2
                      /\ VisitRequest(part.tree) = Untagged
    OBVIOUS
  <2>1. start \in 1..n /\ start \in start..end
    BY <1>1, <1>7
  <2>2. stream[taken + start].of = k /\ taken + start \in DOMAIN stream
    BY <1>1, <1>2, <1>8, <2>1
  <2>3. k \in 1..Len(sent)
    BY <2>2, ByteFacts
  <2>4. /\ part.first \in 2..part.last /\ part.last \in 2..(z - 2)
        /\ VisitRequest(part.tree) = Untagged /\ z \in Nat
    BY <1>4, <2>3, SentIsRequest DEF k
  <2> QED BY <2>3, <2>4
<1>11. ASSUME NEW j \in start..end, j <= n
       PROVE  ~IsNewline(text[j])
  <2>1. j \in 1..n /\ start <= n
    BY <1>1, <1>7, <1>11
  <2>2. text[j] = stream[taken + j] /\ taken + j \in DOMAIN stream
    BY <1>1, <1>2, <2>1
  <2>3. text[j].size = z
    <3>1. Around(taken + j) /\ stream[taken + j].of = k
      BY <1>8, <2>2 DEF Layout
    <3> QED BY <2>2, <3>1 DEF Around
  <2>4. text[j].at < z
    <3>1. text[j].at = part.first + (j - start + 1) - 1
          /\ end - start + 1 = part.last - part.first + 1
      BY <1>7, <1>8
    <3>2. \A f, l, x, y, e, i \in Nat :
            l <= x - 2 /\ e - y + 1 = l - f + 1 /\ y <= i /\ i <= e => f + (i - y + 1) - 1 < x
      OBVIOUS
    <3>3. /\ part.first \in Nat /\ part.last \in Nat /\ z \in Nat /\ part.last <= z - 2
          /\ start \in Nat /\ end \in Nat /\ j \in Nat /\ start <= j /\ j <= end
      BY <1>7, <1>10, <2>1
    <3> HIDE DEF z
    <3>4. part.first + (j - start + 1) - 1 < z
      BY <3>1, <3>2, <3>3
    <3> QED BY <3>1, <3>4
  <2>5. text[j].at # z
    BY <2>4, <1>10, <2>1
  <2> QED BY <2>3, <2>5 DEF IsNewline
<1>12. start \in {1, 2} /\ end <= n /\ start <= n
  <2>1. Spans(text, start, end)
    BY <1>3, <1>5, <1>6, <1>9, <1>11 DEF Spans
  <2>2. start \in {1, 2} /\ end <= n
    BY <1>3, <2>1, SpanReceived DEF text
  <2> QED BY <1>1, <1>7, <2>2
<1>13. stream[taken + start].at = part.first /\ stream[taken + start].of = k
       /\ taken + start \in DOMAIN stream
  <2>1. start \in start..end /\ start \in 1..n /\ part.first + (start - start + 1) - 1 = part.first
    BY <1>1, <1>7, <1>10, <1>12
  <2> QED BY <1>1, <1>2, <1>8, <2>1
<1>14. start = 1
  <2> SUFFICES ASSUME start = 2 PROVE FALSE
    BY <1>12
  <2>1. 1 \in 1..(start - 1) /\ 1 \in 1..n /\ (taken + 1) + 1 = taken + start
    BY <1>1
  <2>2. IsNewline(stream[taken + 1]) /\ taken + 1 \in DOMAIN stream
    BY <1>1, <1>2, <1>6, <2>1
  <2>3. stream[(taken + 1) + 1].at = 1
    BY <1>13, <2>1, <2>2, NextByte
  <2> QED BY <1>10, <1>12, <1>13, <2>1, <2>3
<1>15. taken # 0 /\ taken \in DOMAIN stream
  <2>1. taken # 0
    <3> SUFFICES ASSUME taken = 0 PROVE FALSE
      OBVIOUS
    <3>1. stream # <<>> /\ taken + start = 1
      BY <1>1, <1>13, <1>14, EmptySeq
    <3>2. stream[1].at = 1
      BY <3>1 DEF Layout
    <3> QED BY <1>10, <1>12, <1>13, <3>1, <3>2
  <2> QED BY <1>1, <1>13, <1>14, <2>1
<1>16. ~IsNewline(stream[taken])
  <2> SUFFICES ASSUME IsNewline(stream[taken]) PROVE FALSE
    OBVIOUS
  <2>1. stream[taken + 1].at = 1
    BY <1>13, <1>14, <1>15, NextByte
  <2> QED BY <1>10, <1>12, <1>13, <1>14, <2>1
<1> DEFINE a == stream[taken].at
<1>17. /\ a \in Nat \ {0} /\ a + 1 = part.first /\ stream[taken].of = k /\ Begun = k
       /\ stream[taken].size = z
       /\ \A x \in 1..z : stream[(taken - a) + x] = [of |-> k, at |-> x, size |-> z]
  <2>1. a \in Nat \ {0}
    BY <1>15, ByteFacts
  <2>2. stream[taken + 1] = [of |-> stream[taken].of, at |-> a + 1, size |-> stream[taken].size]
    BY <1>15, <1>16, NextByte
  <2>3. a + 1 = part.first /\ stream[taken].of = k
    BY <1>13, <1>14, <2>2
  <2>4. Around(taken)
    BY <1>15 DEF Layout
  <2> QED BY <1>15, <2>1, <2>3, <2>4 DEF Around, Begun
<1> HIDE DEF a, z
<1>18. /\ z \in Nat /\ part.last \in Nat /\ part.last <= z - 2 /\ end >= 1
       /\ a + end = part.last /\ a + 1 = part.first
  <2>1. end - 1 + 1 = part.last - part.first + 1 /\ end >= 1
    BY <1>7, <1>8, <1>14
  <2>2. z \in Nat /\ part.last \in Nat /\ part.last <= z - 2 /\ a + 1 = part.first /\ a \in Nat
    BY <1>10, <1>12, <1>17 DEF z
  <2> DEFINE first == part.first
             last  == part.last
  <2>3. /\ end \in Nat /\ last \in Nat /\ a \in Nat /\ a + 1 = first
        /\ end - 1 + 1 = last - first + 1
    BY <1>7, <2>1, <2>2
  <2> HIDE DEF first, last
  <2>4. a + end = last
    BY <2>3
  <2> QED BY <2>1, <2>2, <2>4 DEF last
<1>19. ~IsLast(stream[taken])
  <2>1. a # z - 1
    BY <1>17, <1>18
  <2> QED BY <1>17, <2>1 DEF IsLast, a
<1>20. ASSUME NEW i \in 1..n, a + i <= z
       PROVE  text[i] = [of |-> k, at |-> a + i, size |-> z]
              /\ stream[taken + i] = [of |-> k, at |-> a + i, size |-> z]
  <2>1. a + i \in 1..z /\ (taken - a) + (a + i) = taken + i
    BY <1>1, <1>17, <1>18, <1>20
  <2>2. stream[(taken - a) + (a + i)] = [of |-> k, at |-> a + i, size |-> z]
    BY <1>17, <2>1
  <2> QED BY <1>2, <2>1, <2>2
<1>21. a + n < z - 1
  <2> SUFFICES ASSUME a + n >= z - 1 PROVE FALSE
    BY <1>1, <1>17, <1>18
  <2> DEFINE b == (z - 1) - a
  <2>1. b \in 1..n /\ b > end /\ a + b = z - 1 /\ b \in 1..Len(text) /\ n <= Len(text)
    <3>1. \A x, y, e, l, i, w \in Nat :
            x + e = l /\ l <= y - 2 /\ e >= 1 /\ x + i >= y - 1 /\ i <= w
              => LET c == (y - 1) - x
                 IN  c \in 1..i /\ c > e /\ x + c = y - 1 /\ c \in 1..w
      OBVIOUS
    <3>2. /\ a \in Nat /\ z \in Nat /\ end \in Nat /\ part.last \in Nat /\ n \in Nat
          /\ Len(text) \in Nat /\ n <= Len(text)
      BY <1>1, <1>2, <1>7, <1>17, <1>18
    <3> QED BY <1>18, <3>1, <3>2
  <2> HIDE DEF b
  <2>2. IsBrace(text[b])
    <3>1. text[b] = [of |-> k, at |-> z - 1, size |-> z]
      BY <1>18, <1>20, <2>1
    <3> QED BY <3>1 DEF IsBrace, IsLast
  <2>3. CASE \A m \in 1..Len(text) : ~IsNewline(text[m])
    <3>1. b <= end
      BY <1>5, <2>1, <2>2, <2>3 DEF KeptUpTo
    <3> QED BY <1>7, <2>1, <3>1
  <2>4. CASE \E m \in 1..Len(text) : IsNewline(text[m])
    <3>1. PICK m \in end..Len(text) : IsNewline(text[m])
      BY <1>5, <2>4 DEF KeptUpTo
    <3>2. m \in 1..Len(text) /\ b <= m
      <4>1. m \in Nat /\ m >= 1 /\ m \in 1..Len(text)
        BY <1>2, <1>7, <1>18
      <4>2. ASSUME m < b PROVE FALSE
        <5>1. m \in 1..n /\ a + m < z - 1 /\ a + m <= z /\ a + m # z
          <6>1. \A x, y, c, i, w \in Nat :
                  c <= i /\ x + c = y - 1 /\ w >= 1 /\ w < c
                    => w \in 1..i /\ x + w < y - 1 /\ x + w <= y /\ x + w # y
            OBVIOUS
          <6>2. a \in Nat /\ z \in Nat /\ b \in Nat /\ n \in Nat /\ b <= n
            BY <1>1, <1>17, <1>18, <2>1
          <6> QED BY <2>1, <4>1, <4>2, <6>1, <6>2
        <5>2. text[m] = [of |-> k, at |-> a + m, size |-> z]
          BY <1>20, <5>1
        <5> QED BY <3>1, <5>1, <5>2 DEF IsNewline
      <4> QED BY <2>1, <4>1, <4>2
    <3>3. b <= end
      BY <1>5, <2>1, <2>2, <3>1, <3>2 DEF KeptUpTo
    <3> QED BY <1>7, <2>1, <3>3
  <2> QED BY <2>3, <2>4
<1>22. /\ stream[taken + n].of = Begun
       /\ ~IsNewline(stream[taken + n]) /\ ~IsLast(stream[taken + n])
  <2>1. n \in 1..n /\ a + n <= z /\ a + n # z /\ a + n # z - 1
    BY <1>1, <1>17, <1>18, <1>21
  <2>2. stream[taken + n] = [of |-> k, at |-> a + n, size |-> z]
    BY <1>20, <2>1
  <2> QED BY <1>17, <2>1, <2>2 DEF IsNewline, IsLast
<1>23. Inside /\ "pipeline" \in trouble
  BY <1>15, <1>16, <1>19 DEF Inside, Torn
<1> QED BY <1>10, <1>12, <1>17, <1>22, <1>23 DEF k

(* What of the stream is taken when a reading has ended in front of, or    *)
(* with, the newline of its request, or within the request behind that.    *)
BegunAfter(value, p, t) ==
  LET size == Len(value) + 1
  IN  \/ t = p + size - 2 /\ stream[t].of = Begun + 1 /\ IsLast(stream[t]) /\ ~IsNewline(stream[t])
      \/ t = p + size - 1 /\ stream[t].of = Begun + 1 /\ IsNewline(stream[t])
      \/ /\ t >= p + size /\ stream[t].of = Begun + 2 /\ ~IsNewline(stream[t])
         /\ Begun + 2 \in 1..Len(sent)

LEMMA BegunIsNumber ==
  ASSUME Layout, Progress
  PROVE  /\ Begun \in 0..Len(sent) /\ Len(sent) \in Nat
         /\ taken \in Nat /\ Len(stream) \in Nat /\ DOMAIN stream = 1..Len(stream)
         /\ taken # 0 => taken \in DOMAIN stream
<1>1. DOMAIN stream = 1..Len(stream) /\ Len(stream) \in Nat /\ Len(sent) \in Nat
  BY LenProperties DEF Layout
<1>2. taken \in Nat /\ (taken # 0 => taken \in DOMAIN stream)
  <2>1. arrived \in Nat /\ arrived <= Len(stream) /\ taken \in Nat /\ taken <= arrived
    BY ProgressNumbers
  <2> QED BY <1>1, <2>1
<1>3. Begun \in 0..Len(sent)
  <2>1. CASE taken = 0
    BY <1>1, <2>1 DEF Begun
  <2>2. CASE taken # 0
    <3>1. stream[taken].of \in 1..Len(sent)
      BY <1>2, <2>2, ByteFacts
    <3> QED BY <1>1, <2>2, <3>1 DEF Begun
  <2> QED BY <2>1, <2>2
<1> QED BY <1>1, <1>2, <1>3

LEMMA AfterReading ==
  ASSUME Layout, Progress, NEW n \in Nat, NEW value, NEW p, ReadAt(value, p, n),
         NEW t, t = taken + n, t \in DOMAIN stream
  PROVE  BegunAfter(value, p, t)
<1> DEFINE size == Len(value) + 1
<1>1. /\ p \in DOMAIN stream /\ p + size - 1 \in DOMAIN stream
      /\ Len(value) \in Nat /\ size > 2
      /\ \A i \in 1..size : stream[p + i - 1] = [of |-> Begun + 1, at |-> i, size |-> size]
      /\ p + size - 2 <= t
      /\ \A m \in (p + size)..t : ~IsNewline(stream[m])
  BY DEF ReadAt
<1>2. /\ p \in Nat /\ size \in Nat /\ t \in Nat /\ size = Len(value) + 1
      /\ DOMAIN stream = 1..Len(stream) /\ Len(stream) \in Nat /\ Begun \in Nat
  BY <1>1, ByteFacts, BegunIsNumber
<1> HIDE DEF size
<1>3. CASE t = p + size - 2
  <2>1. size - 1 \in 1..size /\ p + (size - 1) - 1 = t
    BY <1>1, <1>2, <1>3
  <2>2. stream[t] = [of |-> Begun + 1, at |-> size - 1, size |-> size]
    BY <1>1, <2>1
  <2> QED BY <1>2, <1>3, <2>2 DEF BegunAfter, IsLast, IsNewline
<1>4. CASE t = p + size - 1
  <2>1. size \in 1..size /\ p + size - 1 = t
    BY <1>1, <1>2, <1>4
  <2>2. stream[t] = [of |-> Begun + 1, at |-> size, size |-> size]
    BY <1>1, <2>1
  <2> QED BY <1>2, <1>4, <2>2 DEF BegunAfter, IsNewline
<1>5. CASE t >= p + size
  <2> DEFINE q == p + size
  <2>1. IsNewline(stream[q - 1]) /\ q - 1 \in DOMAIN stream /\ stream[q - 1].of = Begun + 1
    <3>1. size \in 1..size /\ p + size - 1 = q - 1
      BY <1>1, <1>2
    <3>2. stream[q - 1] = [of |-> Begun + 1, at |-> size, size |-> size]
      BY <1>1, <3>1
    <3> QED BY <1>1, <3>1, <3>2 DEF IsNewline
  <2>2. q \in DOMAIN stream /\ (q - 1) + 1 = q /\ q \in Nat
    BY <1>1, <1>2, <1>5
  <2>3. stream[q].of = Begun + 2 /\ stream[q].at = 1
    <3>1. stream[(q - 1) + 1].of = stream[q - 1].of + 1 /\ stream[(q - 1) + 1].at = 1
      BY <2>1, <2>2, NextByte
    <3> QED BY <1>2, <2>1, <2>2, <3>1
  <2> DEFINE z == stream[q].size
  <2>4. z \in Nat /\ z > 2 /\ Around(q)
    BY <2>2, ByteFacts DEF Layout
  <2> HIDE DEF q
  <2>5. \A a \in 1..z : stream[(q - 1) + a] = [of |-> Begun + 2, at |-> a, size |-> z]
    BY <2>3, <2>4 DEF Around
  <2> HIDE DEF z
  <2>6. q <= t
    BY <1>5 DEF q
  <2>7. t < q + z - 1
    <3> SUFFICES ASSUME ~(t < q + z - 1) PROVE FALSE
      OBVIOUS
    <3>1. z \in 1..z /\ (q - 1) + z \in q..t
      <4>1. \A a, b, c \in Nat : b > 2 /\ ~(c < a + b - 1) => (a - 1) + b \in a..c
        OBVIOUS
      <4> QED BY <1>2, <2>2, <2>4, <4>1
    <3>2. stream[(q - 1) + z] = [of |-> Begun + 2, at |-> z, size |-> z]
      BY <2>5, <3>1
    <3>3. IsNewline(stream[(q - 1) + z])
      BY <3>2 DEF IsNewline
    <3> QED BY <1>1, <3>1, <3>3 DEF q
  <2>8. (t - q) + 1 \in 1..z /\ (t - q) + 1 # z /\ (q - 1) + ((t - q) + 1) = t
    BY <1>2, <2>2, <2>4, <2>6, <2>7
  <2>9. stream[t] = [of |-> Begun + 2, at |-> (t - q) + 1, size |-> z]
    BY <2>5, <2>8
  <2>10. stream[t].of = Begun + 2 /\ ~IsNewline(stream[t])
    BY <2>8, <2>9 DEF IsNewline
  <2>11. Begun + 2 \in 1..Len(sent)
    BY <2>10, ByteFacts
  <2> QED BY <1>2, <1>5, <2>10, <2>11 DEF BegunAfter
<1> QED BY <1>1, <1>2, <1>3, <1>4, <1>5

LEMMA BufferRefilled ==
  ASSUME Layout, Progress, Residue, Receive, NEW n, n = Len(Received)
  PROVE  /\ buffer' \in Seq(Byte) /\ Len(buffer') \in Nat /\ Len(buffer') <= MAX_BUFFER_SIZE
         /\ n <= Len(buffer') /\ DOMAIN buffer' = 1..Len(buffer')
         /\ \A i \in 1..n : buffer'[i] = stream[taken + i]
<1> DEFINE behind == SubSeq(buffer, n + 1, Len(buffer))
<1>1. /\ n \in 1..MAX_BUFFER_SIZE /\ n \in Nat /\ Received \in Seq(Byte) /\ MAX_BUFFER_SIZE \in Nat
      /\ \A i \in 1..n : Received[i] = stream[taken + i]
  BY ReceivedBytes, BoundAssumption DEF Receive
<1>2. buffer \in Seq(Byte) /\ Len(buffer) \in Nat /\ Len(buffer) <= MAX_BUFFER_SIZE
      /\ \A i \in 1..Len(buffer) : buffer[i] \in Byte
  BY LenProperties, ElementOfSeq DEF Residue
<1>3. behind \in Seq(Byte) /\ Len(behind) = IF n + 1 <= Len(buffer) THEN Len(buffer) - (n + 1) + 1 ELSE 0
  <2>1. \A i \in (n + 1)..Len(buffer) : buffer[i] \in Byte
    <3>1. \A i \in (n + 1)..Len(buffer) : i \in 1..Len(buffer)
      BY <1>1, <1>2
    <3> QED BY <1>2, <3>1
  <2>2. n + 1 \in Int /\ Len(buffer) \in Int
    BY <1>1, <1>2
  <2> QED BY <2>1, <2>2, SubSeqProperties
<1>4. buffer' = Received \o behind
  BY DEF Receive
<1> HIDE DEF behind
<1>5. /\ Received \o behind \in Seq(Byte) /\ Len(Received \o behind) = n + Len(behind)
      /\ \A i \in 1..(n + Len(behind)) :
           (Received \o behind)[i] = IF i <= n THEN Received[i] ELSE behind[i - n]
  BY <1>1, <1>3, ConcatProperties
<1>6. Len(behind) \in Nat /\ n + Len(behind) <= MAX_BUFFER_SIZE
  BY <1>1, <1>2, <1>3
<1>7. \A i \in 1..n : buffer'[i] = stream[taken + i]
  BY <1>1, <1>4, <1>5, <1>6
<1>8. buffer' \in Seq(Byte) /\ Len(buffer') = n + Len(behind)
  BY <1>4, <1>5
<1>9. DOMAIN buffer' = 1..Len(buffer')
  BY <1>8, LenProperties
<1> QED BY <1>1, <1>6, <1>7, <1>8, <1>9
(* What Answer answers: a request, or a part of one that was torn.         *)
Answering(n, value, p, response) ==
  /\ ReadAt(value, p, n) /\ Visited(value) = sent[Begun + 1].request
  /\ sent[Begun + 1].request # Incomplete
  /\ response \in Replies(sent[Begun + 1].request)
  /\ answered' = Append(answered, [of       |-> Begun + 1,
                                   whole    |-> TRUE,
                                   request  |-> sent[Begun + 1].request,
                                   response |-> response])

AnsweringPart(n, response) ==
  /\ Inside /\ "pipeline" \in trouble
  /\ stream[taken + n].of = Begun
  /\ ~IsNewline(stream[taken + n]) /\ ~IsLast(stream[taken + n])
  /\ response \in Replies(Untagged)
  /\ answered' = Append(answered, [of       |-> Begun,
                                   whole    |-> FALSE,
                                   request  |-> Untagged,
                                   response |-> response])

LEMMA VisitedIs ==
  ASSUME Layout, Progress, NEW n, NEW p, NEW value, ReadAt(value, p, n)
  PROVE  Visited(value) = sent[Begun + 1].request /\ value[1].of = Begun + 1
<1>1. /\ value \in Seq(Byte) /\ Len(value) \in Nat /\ Len(value) + 1 > 2
      /\ \A i \in 1..Len(value) :
           value[i] = [of |-> Begun + 1, at |-> i, size |-> Len(value) + 1]
      /\ Begun + 1 \in 1..Len(sent)
  BY DEF ReadAt
<1>2. ASSUME NEW i \in 1..Len(value) PROVE value[i].of = Begun + 1
  <2>1. value[i] = [of |-> Begun + 1, at |-> i, size |-> Len(value) + 1]
    BY <1>1
  <2> QED BY <2>1
<1>3. DOMAIN value = 1..Len(value) /\ 1 \in 1..Len(value)
  BY <1>1, LenProperties
<1>4. ~(\E i \in DOMAIN value : value[i].of # value[1].of) /\ value[1].of = Begun + 1
  BY <1>2, <1>3
<1>5. Visited(value) = VisitRequest(sent[Begun + 1].tree)
  BY <1>4 DEF Visited
<1> QED BY <1>1, <1>4, <1>5, SentIsRequest

LEMMA AnswerReads ==
  ASSUME FramingInv, Answer, NEW n, n = Len(Received)
  PROVE  /\ up /\ Received # <<>> /\ taken' = taken + n
         /\ UNCHANGED <<trouble, sent, stream, arrived, up>>
         /\ \/ \E p \in {taken + 1, taken + 2} :
                 \E value, response : Answering(n, value, p, response)
            \/ \E response : AnsweringPart(n, response)
<1>1. up /\ Received # <<>> /\ taken' = taken + n /\ UNCHANGED <<trouble, sent, stream, arrived, up>>
  BY DEF Answer, Receive
<1>2. PICK beyond \in Beyond(n) :
        LET value == From(Received \o beyond)
        IN  \E asked \in Asked(value) :
              /\ asked.request # Incomplete
              /\ \E response \in Replies(asked.request) :
                   answered' = Append(answered, [of       |-> value[1].of,
                                                 whole    |-> asked.whole,
                                                 request  |-> asked.request,
                                                 response |-> response])
  BY DEF Answer
<1> DEFINE value == From(Received \o beyond)
<1>3. PICK asked \in Asked(value) :
        /\ asked.request # Incomplete
        /\ \E response \in Replies(asked.request) :
             answered' = Append(answered, [of       |-> value[1].of,
                                           whole    |-> asked.whole,
                                           request  |-> asked.request,
                                           response |-> response])
  BY <1>2
<1>4. PICK response \in Replies(asked.request) :
        answered' = Append(answered, [of       |-> value[1].of,
                                      whole    |-> asked.whole,
                                      request  |-> asked.request,
                                      response |-> response])
  BY <1>3
<1>5. value = From(Received \o beyond)
  OBVIOUS
<1> HIDE DEF value
<1>6. CASE IsWhole(value)
  <2>1. asked = [whole |-> TRUE, request |-> Visited(value)]
    BY <1>6 DEF Asked
  <2>2. PICK p \in {taken + 1, taken + 2} : ReadAt(value, p, n)
    BY <1>1, <1>5, <1>6, Reading DEF FramingInv
  <2>3. Visited(value) = sent[Begun + 1].request /\ value[1].of = Begun + 1
    BY <2>2, VisitedIs DEF FramingInv
  <2>4. asked.whole = TRUE /\ asked.request = sent[Begun + 1].request
    BY <2>1, <2>3
  <2>5. Answering(n, value, p, response)
    BY <1>3, <1>4, <2>2, <2>3, <2>4 DEF Answering
  <2> QED BY <1>1, <2>5
<1>7. CASE ~IsWhole(value)
  <2>1. PICK part \in PartsIn(value) :
          asked = [whole |-> FALSE, request |-> VisitRequest(part.tree)]
    BY <1>7 DEF Asked
  <2>2. /\ Inside /\ "pipeline" \in trouble
        /\ value[1].of = Begun /\ VisitRequest(part.tree) = Untagged
        /\ stream[taken + n].of = Begun
        /\ ~IsNewline(stream[taken + n]) /\ ~IsLast(stream[taken + n])
    BY <1>1, <1>5, PartReading DEF FramingInv
  <2>3. asked.whole = FALSE /\ asked.request = Untagged
    BY <2>1, <2>2
  <2>4. AnsweringPart(n, response)
    BY <1>4, <2>2, <2>3 DEF AnsweringPart
  <2> QED BY <1>1, <2>4
<1> QED BY <1>6, <1>7

LEMMA TakenAfter ==
  ASSUME Layout, Progress, Received # <<>>, NEW n, n = Len(Received)
  PROVE  /\ n \in Nat \ {0} /\ n <= MAX_BUFFER_SIZE
         /\ taken + n \in DOMAIN stream /\ taken + n <= arrived
         /\ n = MAX_BUFFER_SIZE \/ taken + n = arrived
<1>1. /\ n \in 1..MAX_BUFFER_SIZE /\ taken + n <= arrived
      /\ n = MAX_BUFFER_SIZE \/ taken + n = arrived
      /\ \A i \in 1..n : taken + i \in DOMAIN stream
  BY ReceivedBytes
<1>2. n \in 1..n /\ n \in Nat \ {0} /\ n <= MAX_BUFFER_SIZE
  BY <1>1, BoundAssumption
<1> QED BY <1>1, <1>2

-----------------------------------------------------------------------------
(* Every step keeps the invariant.                                         *)
LEMMA ProgressOfReceive ==
  ASSUME FramingInv, Receive, up' \in BOOLEAN
  PROVE  Layout' /\ Progress' /\ OneAtATime'
<1> DEFINE n == Len(Received)
<1>1. UNCHANGED <<trouble, sent, stream, arrived>> /\ taken' = taken + n /\ Received # <<>>
  BY DEF Receive
<1>2. /\ n \in Nat \ {0} /\ taken + n <= arrived /\ taken + n \in DOMAIN stream
  BY <1>1, TakenAfter DEF FramingInv
<1> HIDE DEF n
<1>3. taken \in Nat /\ arrived \in Nat /\ Len(stream) \in Nat /\ DOMAIN stream = 1..Len(stream)
  <2>1. taken \in Nat /\ Len(stream) \in Nat /\ DOMAIN stream = 1..Len(stream)
    BY BegunIsNumber DEF FramingInv
  <2> QED BY <2>1, ProgressNumbers DEF FramingInv
<1>4. Layout'
  BY <1>1, LayoutStays DEF FramingInv
<1>5. Progress'
  <2>1. taken' \in 0..arrived
    BY <1>1, <1>2, <1>3
  <2> QED BY <1>1, <2>1 DEF FramingInv, Progress, Foreseen
<1>6. OneAtATime'
  <2>1. \A j \in DOMAIN stream : j > taken' + 1 => j > taken + 1
    BY <1>1, <1>2, <1>3
  <2> QED BY <1>1, <2>1 DEF FramingInv, OneAtATime
<1> QED BY <1>4, <1>5, <1>6

LEMMA AnswerResidue ==
  ASSUME FramingInv, Answer
  PROVE  Residue'
<1> DEFINE n == Len(Received)
<1>1. /\ up /\ Received # <<>> /\ taken' = taken + n
      /\ UNCHANGED <<trouble, sent, stream, arrived, up>>
      /\ \/ \E p \in {taken + 1, taken + 2} :
              \E value, response : Answering(n, value, p, response)
         \/ \E response : AnsweringPart(n, response)
  BY AnswerReads
<1>3. /\ buffer' \in Seq(Byte) /\ Len(buffer') \in Nat /\ Len(buffer') <= MAX_BUFFER_SIZE
      /\ n <= Len(buffer') /\ DOMAIN buffer' = 1..Len(buffer')
      /\ \A i \in 1..n : buffer'[i] = stream[taken + i]
  BY BufferRefilled DEF FramingInv, Answer
<1>4. /\ n \in Nat \ {0} /\ n <= MAX_BUFFER_SIZE /\ taken + n \in DOMAIN stream
      /\ n = MAX_BUFFER_SIZE \/ taken + n = arrived
  BY <1>1, TakenAfter DEF FramingInv
<1>5. taken \in Nat /\ Len(stream) \in Nat /\ DOMAIN stream = 1..Len(stream)
  BY BegunIsNumber DEF FramingInv
<1> HIDE DEF n
<1> SUFFICES ASSUME "stale" \in trouble, ~IsNewline(stream[taken + n])
             PROVE  /\ Len(buffer') = MAX_BUFFER_SIZE
                    /\ \A i \in DOMAIN buffer' : buffer'[i].at = i /\ ~IsNewline(buffer'[i])
  BY <1>1, <1>3 DEF Residue
<1>6. "split" \notin trouble /\ "pipeline" \notin trouble /\ arrived = Len(stream)
  BY DEF FramingInv, Progress, Foreseen
<1>0. PICK p \in {taken + 1, taken + 2} : \E value, response : Answering(n, value, p, response)
  BY <1>1, <1>6 DEF AnsweringPart
<1>2. PICK value, response : Answering(n, value, p, response)
  BY <1>0
<1>7. taken + n # Len(stream)
  <2>1. stream # <<>>
    BY <1>4, EmptySeq
  <2> QED BY <2>1, LastByte DEF FramingInv
<1>8. n = MAX_BUFFER_SIZE /\ Len(buffer') = n
  <2>1. n = MAX_BUFFER_SIZE
    BY <1>4, <1>6, <1>7
  <2>2. n <= Len(buffer') /\ Len(buffer') <= MAX_BUFFER_SIZE /\ Len(buffer') \in Nat
    BY <1>3
  <2>3. n \in Nat
    BY <1>4
  <2> QED BY <2>1, <2>2, <2>3
<1> DEFINE size == Len(value) + 1
<1>9. /\ p + size - 1 \in DOMAIN stream /\ size \in Nat /\ size > 2
      /\ \A i \in 1..size : stream[p + i - 1] = [of |-> Begun + 1, at |-> i, size |-> size]
      /\ p = taken + 1 \/ (p = taken + 2 /\ p + size - 1 <= taken + n)
      /\ Begun \in Nat
  <2>1. ReadAt(value, p, n)
    BY <1>2 DEF Answering
  <2>2. Len(value) \in Nat /\ Len(value) + 1 > 2
    BY <2>1 DEF ReadAt
  <2>3. Begun \in Nat
    BY BegunIsNumber DEF FramingInv
  <2>4. p + size - 1 \in DOMAIN stream
    BY <2>1 DEF ReadAt
  <2>5. \A i \in 1..size : stream[p + i - 1] = [of |-> Begun + 1, at |-> i, size |-> size]
    BY <2>1 DEF ReadAt
  <2>6. p = taken + 1 \/ (p = taken + 2 /\ p + size - 1 <= taken + n)
    BY <2>1 DEF ReadAt
  <2>7. size \in Nat /\ size > 2
    BY <2>2
  <2> HIDE DEF size
  <2> QED BY <2>3, <2>4, <2>5, <2>6, <2>7
<1> HIDE DEF size
<1>10. p + size - 1 = Len(stream)
  <2>1. IsNewline(stream[p + size - 1])
    <3>1. size \in 1..size
      BY <1>9
    <3>2. stream[p + size - 1] = [of |-> Begun + 1, at |-> size, size |-> size]
      BY <1>9, <3>1
    <3> QED BY <3>2 DEF IsNewline
  <2>2. p + size - 1 > taken + 1
    BY <1>5, <1>9
  <2> QED BY <1>6, <1>9, <2>1, <2>2 DEF FramingInv, OneAtATime
<1>11. p = taken + 1 /\ n < size
  <2>1. taken + n < Len(stream)
    <3>1. taken + n \in 1..Len(stream)
      BY <1>4, <1>5
    <3> QED BY <1>5, <1>7, <3>1
  <2>2. p = taken + 1
    BY <1>4, <1>5, <1>9, <1>10, <2>1
  <2> QED BY <1>4, <1>5, <1>9, <1>10, <2>1, <2>2
<1>12. ASSUME NEW i \in DOMAIN buffer'
       PROVE  buffer'[i].at = i /\ ~IsNewline(buffer'[i])
  <2>1. i \in 1..n /\ i \in 1..size /\ i # size /\ p + i - 1 = taken + i
    BY <1>3, <1>4, <1>5, <1>8, <1>9, <1>11
  <2>2. buffer'[i] = [of |-> Begun + 1, at |-> i, size |-> size]
    BY <1>3, <1>9, <2>1
  <2> QED BY <2>1, <2>2 DEF IsNewline
<1> QED BY <1>8, <1>12

(* What is answered, beside what was begun before and after.               *)
Replying(reply) ==
  /\ reply \in Replied /\ answered' = Append(answered, reply)
  /\ reply.response \in Replies(reply.request)
  /\ Begun' \in Nat /\ reply.of \in 1..Begun'
  /\ \/ /\ reply.whole /\ reply.of = Begun + 1 /\ reply.request = sent[Begun + 1].request
        /\ Inside' => "pipeline" \in trouble /\ Begun + 1 < Begun'
     \/ /\ ~reply.whole /\ reply.of = Begun /\ reply.request = Untagged
        /\ Begun' = Begun /\ Inside /\ "pipeline" \in trouble

LEMMA WholeReplies ==
  ASSUME FramingInv, NEW n, n = Len(Received), Received # <<>>, taken' = taken + n,
         UNCHANGED <<sent, stream>>,
         NEW p \in {taken + 1, taken + 2}, NEW value, NEW response, Answering(n, value, p, response)
  PROVE  Replying([of |-> Begun + 1, whole |-> TRUE, request |-> sent[Begun + 1].request,
                   response |-> response])
<1>1. n \in Nat \ {0} /\ taken + n \in DOMAIN stream
  BY TakenAfter DEF FramingInv
<1>2. /\ Begun \in 0..Len(sent) /\ Len(sent) \in Nat /\ taken \in Nat
      /\ Len(stream) \in Nat /\ DOMAIN stream = 1..Len(stream)
  BY BegunIsNumber DEF FramingInv
<1>3. ReadAt(value, p, n) /\ Begun + 1 \in 1..Len(sent)
  BY DEF Answering, ReadAt
<1>4. BegunAfter(value, p, taken + n)
  BY <1>1, <1>3, AfterReading DEF FramingInv
<1>5. taken' # 0 /\ Begun' = stream[taken + n].of
      /\ (Inside' <=> ~IsNewline(stream[taken + n]) /\ ~IsLast(stream[taken + n]))
  <2>1. taken' # 0 /\ stream' = stream
    BY <1>1, <1>2
  <2> QED BY <2>1 DEF Begun, Inside, IsNewline, IsLast
<1>6. Begun' \in {Begun + 1, Begun + 2}
  BY <1>4, <1>5 DEF BegunAfter
<1>7. Inside' => "pipeline" \in trouble /\ Begun + 1 < Begun'
  <2> SUFFICES ASSUME Inside' PROVE "pipeline" \in trouble /\ Begun + 1 < Begun'
    OBVIOUS
  <2> DEFINE size == Len(value) + 1
             m    == p + size - 1
  <2>1. taken + n >= p + size /\ stream[taken + n].of = Begun + 2
    BY <1>4, <1>5 DEF BegunAfter
  <2>2. m \in DOMAIN stream /\ size \in Nat /\ size > 2 /\ IsNewline(stream[m])
    <3>1. m \in DOMAIN stream
      BY <1>3 DEF ReadAt
    <3>2. Len(value) \in Nat /\ size > 2
      BY <1>3 DEF ReadAt
    <3>3. \A i \in 1..size : stream[p + i - 1] = [of |-> Begun + 1, at |-> i, size |-> size]
      BY <1>3 DEF ReadAt
    <3>4. size \in 1..size
      BY <3>2
    <3>5. stream[m] = [of |-> Begun + 1, at |-> size, size |-> size]
      BY <3>3, <3>4
    <3> HIDE DEF m
    <3>6. IsNewline(stream[m])
      BY <3>5 DEF IsNewline
    <3> QED BY <3>1, <3>2, <3>6
  <2>3. m > taken + 1 /\ m < taken + n /\ taken + n <= Len(stream)
    <3>1. p \in Nat /\ size \in Nat /\ taken + n \in Nat /\ taken \in Nat
          /\ (p = taken + 1 \/ p = taken + 2) /\ taken + n <= Len(stream)
      BY <1>1, <1>2, <2>2
    <3> HIDE DEF size
    <3> QED BY <2>1, <2>2, <3>1
  <2> HIDE DEF m
  <2>4. m # Len(stream)
    BY <1>1, <1>2, <2>2, <2>3
  <2>5. "pipeline" \in trouble
    BY <2>2, <2>3, <2>4 DEF FramingInv, OneAtATime
  <2> QED BY <1>2, <1>5, <2>1, <2>5
<1> DEFINE reply == [of |-> Begun + 1, whole |-> TRUE, request |-> sent[Begun + 1].request,
                     response |-> response]
<1>8. /\ reply.of = Begun + 1 /\ reply.whole /\ reply.request = sent[Begun + 1].request
      /\ reply.response = response /\ response \in Replies(sent[Begun + 1].request)
      /\ answered' = Append(answered, reply)
  BY DEF Answering
<1>9. reply \in Replied
  <2>1. sent[Begun + 1].request \in Request
    BY <1>3, SentIsRequest DEF FramingInv
  <2>2. response \in Response
    BY <1>8, <2>1, RepliesAreResponses
  <2> QED BY <1>2, <2>1, <2>2 DEF Replied
<1> HIDE DEF reply
<1>10. Begun' \in Nat /\ reply.of \in 1..Begun'
  BY <1>2, <1>6, <1>8
<1>11. Replying(reply)
  BY <1>7, <1>8, <1>9, <1>10 DEF Replying
<1> QED BY <1>11 DEF reply

LEMMA PartReplies ==
  ASSUME FramingInv, NEW n, n = Len(Received), Received # <<>>, taken' = taken + n,
         UNCHANGED <<sent, stream>>, NEW response, AnsweringPart(n, response)
  PROVE  Replying([of |-> Begun, whole |-> FALSE, request |-> Untagged, response |-> response])
<1>1. n \in Nat \ {0} /\ taken + n \in DOMAIN stream
  BY TakenAfter DEF FramingInv
<1>2. Begun \in 0..Len(sent) /\ Len(sent) \in Nat /\ taken \in Nat
  BY BegunIsNumber DEF FramingInv
<1>3. Begun' = Begun /\ Begun \in 1..Len(sent)
  <2>1. taken' # 0 /\ stream' = stream
    BY <1>1, <1>2
  <2>2. stream[taken + n].of = Begun
    BY DEF AnsweringPart
  <2>3. stream[taken + n].of \in 1..Len(sent)
    BY <1>1, ByteFacts DEF FramingInv
  <2> QED BY <2>1, <2>2, <2>3 DEF Begun
<1> DEFINE reply == [of |-> Begun, whole |-> FALSE, request |-> Untagged, response |-> response]
<1>4. /\ reply.of = Begun /\ ~reply.whole /\ reply.request = Untagged
      /\ reply.response = response /\ response \in Replies(Untagged)
      /\ answered' = Append(answered, reply)
  BY DEF AnsweringPart
<1>5. reply \in Replied
  <2>1. Untagged \in Request
    BY DEF Request, Malformed
  <2>2. response \in Response
    BY <1>4, <2>1, RepliesAreResponses
  <2> QED BY <1>2, <2>1, <2>2 DEF Replied
<1> HIDE DEF reply
<1>6. Inside /\ "pipeline" \in trouble
  BY DEF AnsweringPart
<1>7. Begun' \in Nat /\ reply.of \in 1..Begun'
  BY <1>2, <1>3, <1>4
<1>8. Replying(reply)
  BY <1>3, <1>4, <1>5, <1>6, <1>7 DEF Replying
<1> QED BY <1>8 DEF reply

LEMMA AnswerMeant ==
  ASSUME FramingInv, Answer
  PROVE  Torn' /\ Meant'
<1> DEFINE n == Len(Received)
<1>1. /\ up /\ Received # <<>> /\ taken' = taken + n
      /\ UNCHANGED <<trouble, sent, stream, arrived, up>>
      /\ \/ \E p \in {taken + 1, taken + 2} :
              \E value, response : Answering(n, value, p, response)
         \/ \E response : AnsweringPart(n, response)
  BY AnswerReads
<1>2. \E reply : Replying(reply)
  <2>1. CASE \E p \in {taken + 1, taken + 2} :
               \E value, response : Answering(n, value, p, response)
    <3>1. PICK p \in {taken + 1, taken + 2} : \E value, response : Answering(n, value, p, response)
      BY <2>1
    <3>2. PICK value, response : Answering(n, value, p, response)
      BY <3>1
    <3> HIDE DEF n
    <3>3. n = Len(Received)
      BY DEF n
    <3> QED BY <1>1, <3>2, <3>3, WholeReplies
  <2>2. CASE \E response : AnsweringPart(n, response)
    <3>1. PICK response : AnsweringPart(n, response)
      BY <2>2
    <3> HIDE DEF n
    <3>2. n = Len(Received)
      BY DEF n
    <3> QED BY <1>1, <3>1, <3>2, PartReplies
  <2> QED BY <1>1, <2>1, <2>2
<1> HIDE DEF n
<1>3. PICK reply : Replying(reply)
  BY <1>2
<1>4. /\ Begun \in 0..Len(sent) /\ Len(sent) \in Nat /\ Begun' \in Nat
      /\ reply \in Replied /\ answered' = Append(answered, reply)
      /\ reply.of \in 1..Begun' /\ reply.response \in Replies(reply.request)
      /\ reply.whole \in BOOLEAN
  BY <1>3, BegunIsNumber DEF FramingInv, Replying, Replied
<1>5. /\ reply.of \in {Begun, Begun + 1} /\ Begun <= Begun'
      /\ reply.of = Begun => ~reply.whole /\ Inside
      /\ reply.request = IF reply.whole THEN sent[reply.of].request ELSE Untagged
      /\ ~reply.whole => "pipeline" \in trouble /\ Begun' = Begun /\ Inside
      /\ Inside' => "pipeline" \in trouble
      /\ Inside' /\ reply.whole => Begun < Begun' /\ reply.of < Begun'
  <2>1. CASE /\ reply.whole /\ reply.of = Begun + 1 /\ reply.request = sent[Begun + 1].request
             /\ Inside' => "pipeline" \in trouble /\ Begun + 1 < Begun'
    BY <1>4, <2>1
  <2>2. CASE /\ ~reply.whole /\ reply.of = Begun /\ reply.request = Untagged
             /\ Begun' = Begun /\ Inside /\ "pipeline" \in trouble
    BY <1>4, <2>2
  <2> QED BY <1>3, <2>1, <2>2 DEF Replying
<1>6. /\ answered \in Seq(Replied) /\ Len(answered) \in Nat /\ DOMAIN answered = 1..Len(answered)
      /\ \A i \in DOMAIN answered : FitAnswer(i)
      /\ \A i, j \in DOMAIN answered : i < j => InOrder(i, j)
      /\ Inside => \A i \in DOMAIN answered : answered[i].whole => answered[i].of < Begun
  BY <1>1, LenProperties DEF FramingInv, Meant
<1>7. /\ answered' \in Seq(Replied) /\ Len(answered') = Len(answered) + 1
      /\ \A i \in 1..Len(answered) : answered'[i] = answered[i]
      /\ answered'[Len(answered) + 1] = reply
  BY <1>4, <1>6, AppendProperties
<1>8. DOMAIN answered' = 1..(Len(answered) + 1)
  BY <1>7, LenProperties
<1>9. \A i \in 1..Len(answered) : answered[i].of \in 1..Begun
  BY <1>6 DEF FitAnswer
<1>10. ASSUME NEW i \in DOMAIN answered' PROVE FitAnswer(i)'
  <2>1. CASE i \in 1..Len(answered)
    <3>1. answered'[i] = answered[i] /\ FitAnswer(i) /\ answered[i].of \in 1..Begun'
      BY <1>4, <1>5, <1>6, <1>7, <1>9, <2>1
    <3> QED BY <1>1, <3>1 DEF FitAnswer
  <2>2. CASE i = Len(answered) + 1
    <3>1. answered'[i] = reply
      BY <1>7, <2>2
    <3> QED BY <1>1, <1>4, <1>5, <3>1 DEF FitAnswer
  <2> QED BY <1>6, <1>8, <2>1, <2>2
<1>11. ASSUME NEW i \in DOMAIN answered', NEW j \in DOMAIN answered', i < j
       PROVE  InOrder(i, j)'
  <2>1. i \in 1..Len(answered) /\ (j \in 1..Len(answered) \/ j = Len(answered) + 1)
    BY <1>6, <1>8, <1>11
  <2>2. CASE j \in 1..Len(answered)
    <3>1. InOrder(i, j) /\ answered'[i] = answered[i] /\ answered'[j] = answered[j]
      BY <1>6, <1>7, <1>11, <2>1, <2>2
    <3> QED BY <3>1 DEF InOrder
  <2>3. CASE j = Len(answered) + 1
    <3>1. answered'[i] = answered[i] /\ answered'[j] = reply /\ answered[i].of \in 1..Begun
      BY <1>7, <1>9, <2>1, <2>3
    <3>2. CASE reply.of = Begun + 1
      <4>1. answered[i].of < reply.of
        BY <1>4, <3>1, <3>2
      <4> QED BY <3>1, <4>1 DEF InOrder
    <3>3. CASE reply.of = Begun
      <4>1. ~reply.whole /\ (answered[i].whole => answered[i].of < Begun)
        BY <1>5, <1>6, <2>1, <3>3
      <4>2. answered[i].of < Begun \/ answered[i].of = Begun
        BY <1>4, <3>1
      <4> QED BY <3>1, <3>3, <4>1, <4>2 DEF InOrder
    <3> QED BY <1>5, <3>2, <3>3
  <2> QED BY <2>1, <2>2, <2>3
<1>12. ASSUME Inside', NEW i \in DOMAIN answered', answered'[i].whole
       PROVE  answered'[i].of < Begun'
  <2>1. CASE i \in 1..Len(answered)
    <3>1. answered'[i] = answered[i] /\ answered[i].of \in 1..Begun
      BY <1>7, <1>9, <2>1
    <3>2. CASE reply.whole
      BY <1>4, <1>5, <1>12, <3>1, <3>2
    <3>3. CASE ~reply.whole
      BY <1>5, <1>6, <1>12, <2>1, <3>1, <3>3
    <3> QED BY <3>2, <3>3
  <2>2. CASE i = Len(answered) + 1
    <3>1. answered'[i] = reply
      BY <1>7, <2>2
    <3> QED BY <1>5, <1>12, <3>1
  <2> QED BY <1>6, <1>8, <2>1, <2>2
<1>13. Torn'
  BY <1>1, <1>5 DEF Torn
<1>14. Meant'
  BY <1>7, <1>10, <1>11, <1>12 DEF Meant
<1> QED BY <1>13, <1>14
(* What recv() has not taken: what is left of the last request it began,   *)
(* and the requests behind.                                                *)
Item == Request \cup Leftover

Cut ==
  IF taken = 0 \/ IsNewline(stream[taken]) THEN <<>>
  ELSE IF IsLast(stream[taken]) THEN <<Newline>>
  ELSE <<Fragment>>

Waiting(k) == [i \in 1..(Len(sent) - k) |-> VisitRequest(sent[k + i].tree)]

LEMMA UnreadIs == Unread = Cut \o Waiting(Begun)
BY DEF Unread, Cut, Waiting

LEMMA WaitingRequests ==
  ASSUME Layout, NEW k \in 0..Len(sent)
  PROVE  /\ Waiting(k) \in Seq(Item) /\ Len(Waiting(k)) = Len(sent) - k
         /\ Len(sent) - k \in Nat
         /\ \A i \in 1..(Len(sent) - k) :
              /\ k + i \in 1..Len(sent) /\ Waiting(k)[i] = sent[k + i].request
              /\ sent[k + i].request \in Request /\ sent[k + i].request \notin Leftover
<1>1. Len(sent) \in Nat /\ k \in Nat /\ Len(sent) - k \in Nat
  BY LenProperties DEF Layout
<1>2. ASSUME NEW i \in 1..(Len(sent) - k)
      PROVE  /\ k + i \in 1..Len(sent) /\ Waiting(k)[i] = sent[k + i].request
             /\ sent[k + i].request \in Request /\ sent[k + i].request \notin Leftover
  <2>1. k + i \in 1..Len(sent)
    BY <1>1
  <2>2. Waiting(k)[i] = VisitRequest(sent[k + i].tree)
    BY DEF Waiting
  <2> QED BY <2>1, <2>2, SentIsRequest
<1>3. Waiting(k) \in [1..(Len(sent) - k) -> Item]
  <2>1. \A i \in 1..(Len(sent) - k) : VisitRequest(sent[k + i].tree) \in Item
    BY <1>2 DEF Waiting, Item
  <2> QED BY <2>1 DEF Waiting
<1>4. Waiting(k) \in Seq(Item) /\ DOMAIN Waiting(k) = 1..(Len(sent) - k)
  <2>1. Len(sent) - k \in Nat
    BY <1>1
  <2> QED BY <1>3, <2>1, FunctionIsSeq
<1>5. Len(Waiting(k)) \in Nat /\ DOMAIN Waiting(k) = 1..Len(Waiting(k))
  BY <1>4, LenProperties
<1>6. Len(Waiting(k)) = Len(sent) - k
  BY <1>1, <1>4, <1>5
<1> QED BY <1>1, <1>2, <1>4, <1>6

LEMMA CutItems ==
  /\ Cut \in Seq(Item)
  /\ \/ Cut = <<>> /\ Len(Cut) = 0 /\ (taken = 0 \/ IsNewline(stream[taken]))
     \/ /\ Len(Cut) = 1 /\ taken # 0 /\ ~IsNewline(stream[taken])
        /\ \/ Cut = <<Newline>> /\ Cut[1] = Newline /\ IsLast(stream[taken])
           \/ Cut = <<Fragment>> /\ Cut[1] = Fragment /\ ~IsLast(stream[taken])
<1>1. Newline \in Item /\ Fragment \in Item
  BY DEF Item, Leftover
<1>2. /\ <<>> \in Seq(Item) /\ Len(<<>>) = 0
      /\ <<Newline>> \in Seq(Item) /\ Len(<<Newline>>) = 1 /\ <<Newline>>[1] = Newline
      /\ <<Fragment>> \in Seq(Item) /\ Len(<<Fragment>>) = 1 /\ <<Fragment>>[1] = Fragment
  BY <1>1
<1> QED BY <1>2 DEF Cut

LEMMA UnreadItems ==
  ASSUME Layout, Progress
  PROVE  /\ Unread \in Seq(Item) /\ Len(Unread) = Len(Cut) + (Len(sent) - Begun)
         /\ Len(sent) - Begun \in Nat
         /\ \A i \in 1..(Len(Cut) + (Len(sent) - Begun)) :
              Unread[i] = IF i <= Len(Cut) THEN Cut[i] ELSE Waiting(Begun)[i - Len(Cut)]
<1>1. Begun \in 0..Len(sent)
  BY BegunIsNumber
<1>2. Waiting(Begun) \in Seq(Item) /\ Len(Waiting(Begun)) = Len(sent) - Begun
      /\ Len(sent) - Begun \in Nat
  BY <1>1, WaitingRequests
<1>3. Cut \in Seq(Item)
  BY CutItems
<1> QED BY <1>2, <1>3, UnreadIs, ConcatProperties

LEMMA UnreadShort ==
  ASSUME Layout, Progress
  PROVE  /\ Unread = <<>> => taken = Len(stream)
         /\ Unread = <<Newline>> => taken + 1 = Len(stream)
<1>1. /\ Unread \in Seq(Item) /\ Len(Unread) = Len(Cut) + (Len(sent) - Begun)
      /\ Len(sent) - Begun \in Nat
      /\ \A i \in 1..(Len(Cut) + (Len(sent) - Begun)) :
           Unread[i] = IF i <= Len(Cut) THEN Cut[i] ELSE Waiting(Begun)[i - Len(Cut)]
  BY UnreadItems
<1>2. /\ Begun \in 0..Len(sent) /\ Len(sent) \in Nat
      /\ taken \in Nat /\ Len(stream) \in Nat /\ DOMAIN stream = 1..Len(stream)
      /\ taken # 0 => taken \in DOMAIN stream
  BY BegunIsNumber
<1>3. ASSUME Unread = <<>> PROVE taken = Len(stream)
  <2>1. Len(Unread) = 0
    BY <1>1, <1>3, EmptySeq
  <2>2. Len(Cut) = 0 /\ Begun = Len(sent) /\ (taken = 0 \/ IsNewline(stream[taken]))
    <3>1. Len(Cut) = 0 \/ Len(Cut) = 1
      BY CutItems
    <3>2. Len(Cut) = 0 /\ Begun = Len(sent)
      BY <1>1, <1>2, <2>1, <3>1
    <3> QED BY <3>2, CutItems
  <2>3. CASE taken = 0
    <3>1. Len(sent) = 0
      BY <2>2, <2>3 DEF Begun
    <3>2. sent = <<>> /\ stream = <<>>
      BY <3>1, EmptySeq DEF Layout
    <3> QED BY <2>3, <3>2
  <2>4. CASE taken # 0
    <3>1. stream[taken].of = Len(sent) /\ IsNewline(stream[taken]) /\ taken \in DOMAIN stream
      BY <1>2, <2>2, <2>4 DEF Begun
    <3> QED BY <3>1, NextByte
  <2> QED BY <2>3, <2>4
<1>4. ASSUME Unread = <<Newline>> PROVE taken + 1 = Len(stream)
  <2>1. Len(Unread) = 1 /\ Unread[1] = Newline
    BY <1>4
  <2>2. Len(Cut) = 1
    <3> SUFFICES ASSUME Len(Cut) # 1 PROVE FALSE
      OBVIOUS
    <3>1. Len(Cut) = 0 /\ Len(sent) - Begun = 1
      <4>1. Len(Cut) = 0
        BY CutItems
      <4>2. 1 = Len(Cut) + (Len(sent) - Begun) /\ Len(sent) - Begun \in Nat
        BY <1>1, <2>1
      <4> QED BY <4>1, <4>2
    <3>2. Unread[1] = Waiting(Begun)[1]
      <4>1. 1 \in 1..(Len(Cut) + (Len(sent) - Begun)) /\ ~(1 <= Len(Cut)) /\ 1 - Len(Cut) = 1
        BY <3>1
      <4> QED BY <1>1, <4>1
    <3>3. Waiting(Begun)[1] \notin Leftover
      <4>1. 1 \in 1..(Len(sent) - Begun)
        BY <3>1
      <4> QED BY <1>2, <4>1, WaitingRequests
    <3> QED BY <2>1, <3>2, <3>3 DEF Leftover
  <2>3. Begun = Len(sent) /\ Unread[1] = Cut[1]
    <3>1. 1 = 1 + (Len(sent) - Begun) /\ Begun \in Nat /\ Len(sent) \in Nat
      <4>1. Len(Unread) = Len(Cut) + (Len(sent) - Begun)
        BY <1>1
      <4>2. Begun \in Nat /\ Len(sent) \in Nat
        BY <1>2
      <4> QED BY <2>1, <2>2, <4>1, <4>2
    <3>2. Begun = Len(sent)
      BY <3>1
    <3>3. 1 \in 1..(Len(Cut) + (Len(sent) - Begun)) /\ 1 <= Len(Cut)
      BY <2>2, <3>1
    <3> QED BY <1>1, <3>2, <3>3
  <2>4. Cut[1] # Fragment
    BY <2>1, <2>3, RequestTypes
  <2>5. taken # 0 /\ IsLast(stream[taken]) /\ ~IsNewline(stream[taken]) /\ taken \in DOMAIN stream
    BY <1>2, <2>2, <2>4, CutItems
  <2>6. stream[taken].of = Len(sent)
    BY <2>3, <2>5 DEF Begun
  <2>7. taken + 1 \in DOMAIN stream
        /\ stream[taken + 1] = [of |-> stream[taken].of, at |-> stream[taken].at + 1,
                                size |-> stream[taken].size]
    BY <2>5, NextByte
  <2>8. stream[taken].at \in Nat /\ stream[taken].size \in Nat
    BY <2>5, ByteFacts
  <2>9. IsNewline(stream[taken + 1]) /\ stream[taken + 1].of = Len(sent)
    BY <2>5, <2>6, <2>7, <2>8 DEF IsLast, IsNewline
  <2> QED BY <2>7, <2>9, NextByte
<1> QED BY <1>3, <1>4

LEMMA WriteKeeps ==
  ASSUME FramingInv, NEW request \in Sends, NEW tree \in Trees(request), Write(request, tree)
  PROVE  FramingInv' /\ Begun' = Begun /\ (taken # 0 => stream'[taken] = stream[taken])
<1> DEFINE M == Len(stream)
           N == Size(tree)
<1>1. M \in Nat /\ N \in Nat /\ N > 2 /\ Longer(M, N, tree)
  BY BytesAppended DEF FramingInv, Write
<1>2. N = Size(tree) /\ M = Len(stream)
  OBVIOUS
<1>3. /\ up /\ Len(sent) < MaxRequests /\ MayFollow(Unread, trouble)
      /\ arrived' = IF "split" \in trouble THEN arrived ELSE arrived + N
      /\ UNCHANGED <<trouble, taken, buffer, answered, up>>
  BY DEF Write
<1> HIDE DEF M, N
<1>4. /\ Len(sent) \in Nat /\ Len(sent') = Len(sent) + 1
      /\ \A k \in 1..Len(sent) : sent'[k] = sent[k]
      /\ DOMAIN stream' = 1..(M + N) /\ Len(stream') = M + N
      /\ \A i \in 1..M : stream'[i] = stream[i]
      /\ \A i \in (M + 1)..(M + N) : stream'[i] = [of |-> Len(sent) + 1, at |-> i - M, size |-> N]
  BY <1>1 DEF Longer
<1>5. /\ Begun \in 0..Len(sent) /\ taken \in Nat /\ DOMAIN stream = 1..M
      /\ taken # 0 => taken \in DOMAIN stream
  BY <1>2, BegunIsNumber DEF FramingInv
<1>6. (taken # 0 => stream'[taken] = stream[taken]) /\ Begun' = Begun
  <2>1. taken # 0 => stream'[taken] = stream[taken]
    BY <1>4, <1>5
  <2> QED BY <1>3, <2>1 DEF Begun
<1>7. Layout'
  BY <1>1, <1>2, LayoutGrows DEF FramingInv
<1>8. Progress'
  <2>1. arrived \in Nat /\ arrived <= M /\ taken <= arrived
        /\ ("split" \notin trouble => arrived = M)
        /\ trouble \subseteq {"pipeline", "split", "stale"} /\ Foreseen(trouble) /\ up \in BOOLEAN
    BY <1>1, <1>2, <1>5 DEF FramingInv, Progress
  <2>2. arrived' \in 0..(M + N) /\ taken \in 0..arrived' /\ ("split" \notin trouble => arrived' = M + N)
    BY <1>1, <1>3, <1>5, <2>1
  <2>3. Len(sent) + 1 <= MaxRequests
    BY <1>3, <1>4, BoundAssumption
  <2> QED BY <1>3, <1>4, <2>1, <2>2, <2>3 DEF Progress, Foreseen
<1>9. OneAtATime'
  <2> SUFFICES ASSUME "pipeline" \notin trouble,
                      NEW j \in DOMAIN stream', j > taken + 1, IsNewline(stream'[j])
               PROVE  j = M + N
    BY <1>3, <1>4 DEF OneAtATime, IsNewline
  <2>1. Unread \in {<<>>, <<Newline>>}
    BY <1>3 DEF MayFollow
  <2>2. M <= taken + 1
    <3>1. taken = M \/ taken + 1 = M
      BY <1>2, <2>1, UnreadShort DEF FramingInv
    <3> QED BY <1>1, <1>5, <3>1
  <2>3. j \in (M + 1)..(M + N)
    <3>1. j \in 1..(M + N)
      BY <1>4
    <3> QED BY <1>1, <1>5, <2>2, <3>1
  <2>4. j - M = N
    <3>1. stream'[j] = [of |-> Len(sent) + 1, at |-> j - M, size |-> N]
      BY <1>4, <2>3
    <3> QED BY <3>1 DEF IsNewline
  <2> QED BY <1>1, <2>3, <2>4
<1>10. Residue'
  BY <1>3, <1>6 DEF FramingInv, Residue, IsNewline
<1>11. Inside' <=> Inside
  BY <1>3, <1>6 DEF Inside, IsNewline, IsLast
<1>12. Torn'
  BY <1>3, <1>11 DEF FramingInv, Torn
<1>13. Meant'
  <2>1. ASSUME NEW i \in DOMAIN answered PROVE FitAnswer(i)'
    <3>1. FitAnswer(i)
      BY DEF FramingInv, Meant
    <3>2. answered[i].of \in 1..Len(sent)
      BY <1>4, <1>5, <3>1 DEF FitAnswer
    <3>3. sent'[answered[i].of] = sent[answered[i].of]
      BY <1>4, <3>2
    <3> QED BY <1>3, <1>6, <3>1, <3>3 DEF FitAnswer
  <2>2. \A i, j \in DOMAIN answered : i < j => InOrder(i, j)'
    BY <1>3 DEF FramingInv, Meant, InOrder
  <2> QED BY <1>3, <1>6, <1>11, <2>1, <2>2 DEF FramingInv, Meant
<1> QED BY <1>6, <1>7, <1>8, <1>9, <1>10, <1>12, <1>13 DEF FramingInv

LEMMA DeliverKeeps ==
  ASSUME FramingInv, Deliver
  PROVE  FramingInv'
<1>1. /\ "split" \in trouble /\ arrived' \in (arrived + 1)..Len(stream)
      /\ UNCHANGED <<trouble, sent, stream, taken, buffer, answered, up>>
  BY DEF Deliver
<1>2. Layout'
  BY <1>1, LayoutStays DEF FramingInv
<1>3. Begun' = Begun
  BY <1>1 DEF Begun
<1>4. Progress'
  <2>1. Len(stream) \in Nat
    BY BegunIsNumber DEF FramingInv
  <2>2. arrived' \in 0..Len(stream) /\ taken \in 0..arrived'
    BY <1>1, <2>1 DEF FramingInv, Progress
  <2> QED BY <1>1, <2>2 DEF FramingInv, Progress, Foreseen
<1>5. OneAtATime' /\ Residue'
  BY <1>1 DEF FramingInv, OneAtATime, Residue, IsNewline
<1>6. Torn' /\ Meant'
  <2>1. Inside' <=> Inside
    BY <1>1 DEF Inside, IsNewline, IsLast
  <2> QED BY <1>1, <1>3, <2>1 DEF FramingInv, Torn, Meant, FitAnswer, InOrder
<1> QED BY <1>2, <1>4, <1>5, <1>6 DEF FramingInv

LEMMA ThrowKeeps ==
  ASSUME FramingInv, Throw
  PROVE  FramingInv'
<1> DEFINE n == Len(Received)
<1>1. Receive /\ up' = FALSE /\ UNCHANGED answered
  BY DEF Throw
<1>2. Layout' /\ Progress' /\ OneAtATime'
  BY <1>1, ProgressOfReceive
<1>3. Residue'
  <2>1. buffer' \in Seq(Byte) /\ Len(buffer') <= MAX_BUFFER_SIZE
    BY <1>1, BufferRefilled DEF FramingInv
  <2> QED BY <1>1, <2>1 DEF Residue
<1>4. Begun \in 0..Begun' /\ Begun' \in Nat /\ sent' = sent
  <2>1. sent' = sent /\ stream' = stream /\ taken' = taken + n /\ Received # <<>>
    BY <1>1 DEF Receive
  <2>2. n \in Nat \ {0} /\ taken + n \in DOMAIN stream
    BY <2>1, TakenAfter DEF FramingInv
  <2>3. /\ Begun \in 0..Len(sent) /\ taken \in Nat /\ Len(sent) \in Nat
        /\ taken # 0 => taken \in DOMAIN stream
    BY BegunIsNumber DEF FramingInv
  <2>4. Begun' = stream[taken + n].of /\ Begun' \in 1..Len(sent)
    <3>1. taken' # 0
      BY <2>1, <2>2, <2>3
    <3>2. Begun' = stream[taken + n].of
      BY <2>1, <3>1 DEF Begun
    <3> QED BY <2>2, <3>2, ByteFacts DEF FramingInv
  <2>5. Begun <= Begun'
    <3>1. CASE taken = 0
      BY <2>3, <2>4, <3>1 DEF Begun
    <3>2. CASE taken # 0
      <4>1. Begun = stream[taken].of /\ taken \in DOMAIN stream /\ taken < taken + n
        BY <2>2, <2>3, <3>2 DEF Begun
      <4>2. Ordered(taken, taken + n)
        BY <2>2, <4>1 DEF FramingInv, Layout
      <4> QED BY <2>3, <2>4, <4>1, <4>2 DEF Ordered
    <3> QED BY <3>1, <3>2
  <2> QED BY <2>1, <2>3, <2>4, <2>5
<1>5. Meant'
  <2>1. ASSUME NEW i \in DOMAIN answered PROVE FitAnswer(i)'
    <3>1. FitAnswer(i)
      BY DEF FramingInv, Meant
    <3>2. answered[i].of \in 1..Begun'
      BY <1>4, <3>1 DEF FitAnswer
    <3>3. trouble' = trouble
      BY <1>1 DEF Receive
    <3> QED BY <1>1, <1>4, <3>1, <3>2, <3>3 DEF FitAnswer
  <2>2. \A i, j \in DOMAIN answered : i < j => InOrder(i, j)'
    BY <1>1 DEF FramingInv, Meant, InOrder
  <2> QED BY <1>1, <2>1, <2>2 DEF FramingInv, Meant
<1>6. Torn'
  BY <1>1 DEF Torn
<1> QED BY <1>2, <1>3, <1>5, <1>6 DEF FramingInv

LEMMA AnswerKeeps ==
  ASSUME FramingInv, Answer
  PROVE  FramingInv'
<1>1. Layout' /\ Progress' /\ OneAtATime'
  <2>1. Receive /\ up' = up
    BY DEF Answer
  <2>2. up' \in BOOLEAN
    BY <2>1 DEF FramingInv, Progress
  <2> QED BY <2>1, <2>2, ProgressOfReceive
<1> QED BY <1>1, AnswerResidue, AnswerMeant DEF FramingInv

LEMMA StutterKeeps ==
  ASSUME FramingInv, UNCHANGED vars
  PROVE  FramingInv'
<1>1. UNCHANGED <<trouble, sent, stream, arrived, taken, buffer, answered, up>>
  BY DEF vars
<1>2. Layout'
  BY <1>1, LayoutStays DEF FramingInv
<1>3. Begun' = Begun
  BY <1>1 DEF Begun
<1>4. Progress' /\ OneAtATime' /\ Residue'
  BY <1>1 DEF FramingInv, Progress, Foreseen, OneAtATime, Residue, IsNewline
<1>5. Inside' <=> Inside
  BY <1>1 DEF Inside, IsNewline, IsLast
<1>6. Torn' /\ Meant'
  BY <1>1, <1>3, <1>5 DEF FramingInv, Torn, Meant, FitAnswer, InOrder
<1> QED BY <1>2, <1>4, <1>6 DEF FramingInv

LEMMA FramingStep ==
  ASSUME FramingInv, [Next]_vars
  PROVE  FramingInv'
<1>1. CASE \E request \in Sends : \E tree \in Trees(request) : Write(request, tree)
  BY <1>1, WriteKeeps
<1>2. CASE Deliver
  BY <1>2, DeliverKeeps
<1>3. CASE Answer
  BY <1>3, AnswerKeeps
<1>4. CASE Throw
  BY <1>4, ThrowKeeps
<1>5. CASE Finished \/ UNCHANGED vars
  BY <1>5, StutterKeeps DEF Finished
<1> QED BY <1>1, <1>2, <1>3, <1>4, <1>5 DEF Next

LEMMA FramingHolds == Spec => []FramingInv
<1>1. Init => FramingInv
  BY InitFraming
<1>2. FramingInv /\ [Next]_vars => FramingInv'
  BY FramingStep
<1> QED BY <1>1, <1>2, PTL DEF Spec
-----------------------------------------------------------------------------
(* Type correctness: of the bytes no more arrive than were written and no  *)
(* more are taken than arrived, raw_buff never holds more than it has room *)
(* for, and what is answered is a request, with a response of the server   *)
(* (socket::read, server's visitor).                                       *)
THEOREM TypeCorrect == Spec => []TypeOK
<1>1. FramingInv => TypeOK
  <2> SUFFICES ASSUME FramingInv PROVE TypeOK
    OBVIOUS
  <2>1. ASSUME NEW i \in DOMAIN answered PROVE answered[i] \in ResponseTo
    <3>1. answered[i] \in Replied /\ answered[i].of \in 1..Begun
      <4>1. DOMAIN answered = 1..Len(answered)
        BY LenProperties DEF FramingInv, Meant
      <4> QED BY <4>1, ElementOfSeq DEF FramingInv, Meant, FitAnswer
    <3>2. Begun \in 0..Len(sent) /\ Len(sent) \in Nat /\ Len(sent) <= MaxRequests
      BY BegunIsNumber DEF FramingInv, Progress
    <3>3. answered[i].of \in 1..MaxRequests
      BY <3>1, <3>2, BoundAssumption
    <3> QED BY <3>1, <3>3 DEF Replied, ResponseTo
  <2> QED BY <2>1 DEF FramingInv, Progress, Residue, TypeOK
<1> QED BY <1>1, FramingHolds, PTL

(* However the bytes arrive and whatever the buffer held before: what the  *)
(* server answers is a request that somebody sent, as it was meant, in the *)
(* order of the sending and once; or a part of one that was torn, which is *)
(* refused for want of tags, and only when somebody sends without waiting  *)
(* (socket::read, json::from, instance::extractFrom).                      *)
THEOREM AnswersWhatWasMeant == Spec => []AnsweredAsMeant
<1>1. FramingInv => AnsweredAsMeant
  BY DEF FramingInv, Meant, AnsweredAsMeant, FitAnswer, InOrder
<1> QED BY <1>1, FramingHolds, PTL

(* The app's visitor and the library's read the JSON of every login and    *)
(* message response as the response it is; the object of an error is read  *)
(* back as that error, and neither of them takes an error for a login or a *)
(* message (AbstractResponseVisitor.java, visitor.hpp, error.hpp).         *)
THEOREM ResponsesAgree == Spec => []ClientsAgree
<1>1. FramingInv => ClientsAgree
  <2> SUFFICES ASSUME FramingInv, NEW i \in DOMAIN answered PROVE Agreed(answered[i].response)
    BY DEF ClientsAgree, Agreed
  <2>1. answered[i] \in Replied /\ answered[i].response \in Replies(answered[i].request)
    <3>1. DOMAIN answered = 1..Len(answered)
      BY LenProperties DEF FramingInv, Meant
    <3> QED BY <3>1, ElementOfSeq DEF FramingInv, Meant, FitAnswer
  <2>2. answered[i].request \in Request
    BY <2>1 DEF Replied
  <2> QED BY <2>1, <2>2, RepliesAreResponses, AgreedOn
<1> QED BY <1>1, FramingHolds, PTL

-----------------------------------------------------------------------------
(* Inbox has its own copy of the vocabulary; it is the same one.           *)
LEMMA SameFrames ==
  /\ Abstract!Newline = Newline /\ Abstract!Incomplete = Incomplete
  /\ \A q, pieces : Abstract!Readings(q, pieces) = Readings(q, pieces)
  /\ \A q, t : Abstract!MayThrow(q, t) = MayThrow(q, t)
  /\ \A q, t : Abstract!MayFollow(q, t) = MayFollow(q, t)
BY DEF Abstract!Newline, Newline, Abstract!Fragment, Fragment, Abstract!Leftover, Leftover,
       Abstract!Incomplete, Incomplete, Abstract!FitsBuffer, FitsBuffer, Abstract!Lead, Lead,
       Abstract!Remains, Remains, Abstract!ReadWhole, ReadWhole, Abstract!ReadFull, ReadFull,
       Abstract!ReadShort, ReadShort, Abstract!ReadPart, ReadPart, Abstract!Untagged, Untagged,
       Abstract!Readings, Readings,
       Abstract!MayThrow, MayThrow, Abstract!MayFollow, MayFollow

Requests(list) == [i \in DOMAIN list |-> list[i].request]

LEMMA RequestsAppend ==
  ASSUME NEW list \in Seq(Replied), NEW reply \in Replied
  PROVE  Requests(Append(list, reply)) = Append(Requests(list), reply.request)
<1>1. /\ Len(list) \in Nat /\ DOMAIN list = 1..Len(list)
      /\ \A i \in 1..Len(list) : list[i] \in Replied
  BY LenProperties, ElementOfSeq
<1>2. /\ Append(list, reply) \in Seq(Replied) /\ Len(Append(list, reply)) = Len(list) + 1
      /\ \A i \in 1..Len(list) : Append(list, reply)[i] = list[i]
      /\ Append(list, reply)[Len(list) + 1] = reply
  BY AppendProperties
<1>3. DOMAIN Append(list, reply) = 1..(Len(list) + 1)
  BY <1>2, LenProperties
<1> DEFINE longer == Append(list, reply)
<1> HIDE DEF longer
<1>4. \A i \in 1..(Len(list) + 1) : longer[i] \in Replied
  <2>1. \A i \in 1..(Len(list) + 1) : i \in 1..Len(list) \/ i = Len(list) + 1
    BY <1>1
  <2> QED BY <1>1, <1>2, <2>1 DEF longer
<1>5. Requests(list) \in [1..Len(list) -> Request]
      /\ Requests(longer) \in [1..(Len(list) + 1) -> Request]
  BY <1>1, <1>3, <1>4 DEF Requests, longer, Replied
<1>6. /\ Requests(list) \in Seq(Request) /\ Requests(longer) \in Seq(Request)
      /\ DOMAIN Requests(list) = 1..Len(list) /\ DOMAIN Requests(longer) = 1..(Len(list) + 1)
  <2>1. Len(list) \in Nat /\ Len(list) + 1 \in Nat
    BY <1>1
  <2> QED BY <1>5, <2>1, FunctionIsSeq
<1>7. Len(Requests(list)) = Len(list) /\ Len(Requests(longer)) = Len(list) + 1
  <2>1. /\ Len(Requests(list)) \in Nat /\ DOMAIN Requests(list) = 1..Len(Requests(list))
        /\ Len(Requests(longer)) \in Nat /\ DOMAIN Requests(longer) = 1..Len(Requests(longer))
    BY <1>6, LenProperties
  <2> QED BY <1>1, <1>6, <2>1
<1>8. reply.request \in Request
  BY DEF Replied
<1>9. /\ Append(Requests(list), reply.request) \in Seq(Request)
      /\ Len(Append(Requests(list), reply.request)) = Len(list) + 1
      /\ \A i \in 1..Len(list) : Append(Requests(list), reply.request)[i] = Requests(list)[i]
      /\ Append(Requests(list), reply.request)[Len(list) + 1] = reply.request
  BY <1>6, <1>7, <1>8, AppendProperties
<1>10. /\ \A i \in 1..Len(list) : Requests(longer)[i] = Requests(list)[i]
       /\ Requests(longer)[Len(list) + 1] = reply.request
  <2>1. \A i \in 1..(Len(list) + 1) : Requests(longer)[i] = longer[i].request
    BY <1>3 DEF Requests, longer
  <2>2. \A i \in 1..Len(list) : Requests(list)[i] = list[i].request /\ i \in 1..(Len(list) + 1)
    BY <1>1 DEF Requests
  <2> QED BY <1>1, <1>2, <2>1, <2>2 DEF longer
<1>11. Requests(longer) = Append(Requests(list), reply.request)
  <2>1. \A i \in 1..(Len(list) + 1) : Requests(longer)[i] = Append(Requests(list), reply.request)[i]
    <3>1. \A i \in 1..(Len(list) + 1) : i \in 1..Len(list) \/ i = Len(list) + 1
      BY <1>1
    <3> QED BY <1>9, <1>10, <3>1
  <2> QED BY <1>6, <1>7, <1>9, <2>1, SeqEqual
<1> QED BY <1>11 DEF longer

LEMMA ConsIs ==
  ASSUME NEW T, NEW list \in Seq(T), NEW e \in T
  PROVE  /\ <<e>> \o list # <<>> /\ Head(<<e>> \o list) = e /\ Tail(<<e>> \o list) = list
         /\ Len(<<e>> \o list) = Len(list) + 1
<1> DEFINE longer == <<e>> \o list
<1>1. <<e>> \in Seq(T) /\ Len(<<e>>) = 1 /\ <<e>>[1] = e /\ Len(list) \in Nat
  BY LenProperties
<1>2. /\ longer \in Seq(T) /\ Len(longer) = 1 + Len(list)
      /\ \A i \in 1..(1 + Len(list)) : longer[i] = IF i <= 1 THEN <<e>>[i] ELSE list[i - 1]
  BY <1>1, ConcatProperties
<1> HIDE DEF longer
<1>3. longer # <<>>
  BY <1>1, <1>2, EmptySeq
<1>4. /\ Head(longer) = longer[1] /\ Tail(longer) \in Seq(T) /\ Len(Tail(longer)) = Len(list)
      /\ \A i \in 1..Len(Tail(longer)) : Tail(longer)[i] = longer[i + 1]
  BY <1>1, <1>2, <1>3, HeadTailProperties
<1>5. Head(longer) = e
  BY <1>1, <1>2, <1>4
<1>6. \A i \in 1..Len(list) : Tail(longer)[i] = list[i]
  <2>1. ASSUME NEW i \in 1..Len(list) PROVE Tail(longer)[i] = list[i]
    <3>1. i + 1 \in 1..(1 + Len(list)) /\ ~(i + 1 <= 1) /\ (i + 1) - 1 = i
      BY <1>1
    <3> QED BY <1>2, <1>4, <3>1
  <2> QED BY <2>1
<1>7. Tail(longer) = list
  BY <1>4, <1>6, SeqEqual
<1>8. Len(longer) = Len(list) + 1
  BY <1>1, <1>2
<1> QED BY <1>3, <1>5, <1>7, <1>8 DEF longer

LEMMA WaitingNext ==
  ASSUME Layout, NEW k \in 0..Len(sent), k + 1 \in 1..Len(sent)
  PROVE  /\ Waiting(k) # <<>> /\ Head(Waiting(k)) = sent[k + 1].request
         /\ Head(Waiting(k)) \notin Leftover
         /\ Tail(Waiting(k)) = Waiting(k + 1)
<1>1. Len(sent) \in Nat /\ k \in Nat /\ k + 1 \in 0..Len(sent)
  BY LenProperties DEF Layout
<1>2. /\ Waiting(k) \in Seq(Item) /\ Len(Waiting(k)) = Len(sent) - k
      /\ \A i \in 1..(Len(sent) - k) : Waiting(k)[i] = sent[k + i].request
      /\ sent[k + 1].request \notin Leftover
  <2>1. 1 \in 1..(Len(sent) - k)
    BY <1>1
  <2> QED BY <2>1, WaitingRequests
<1>3. /\ Waiting(k + 1) \in Seq(Item) /\ Len(Waiting(k + 1)) = Len(sent) - (k + 1)
      /\ \A i \in 1..(Len(sent) - (k + 1)) : Waiting(k + 1)[i] = sent[k + 1 + i].request
  BY <1>1, WaitingRequests
<1>4. Waiting(k) # <<>>
  BY <1>1, <1>2, EmptySeq
<1>5. /\ Head(Waiting(k)) = Waiting(k)[1] /\ Tail(Waiting(k)) \in Seq(Item)
      /\ Len(Tail(Waiting(k))) = Len(Waiting(k)) - 1
      /\ \A i \in 1..Len(Tail(Waiting(k))) : Tail(Waiting(k))[i] = Waiting(k)[i + 1]
  BY <1>2, <1>4, HeadTailProperties
<1>6. Head(Waiting(k)) = sent[k + 1].request
  <2>1. 1 \in 1..(Len(sent) - k)
    BY <1>1
  <2> QED BY <1>2, <1>5, <2>1
<1>7. Len(Tail(Waiting(k))) = Len(Waiting(k + 1))
  BY <1>1, <1>2, <1>3, <1>5
<1>8. ASSUME NEW i \in 1..Len(Tail(Waiting(k)))
      PROVE  Tail(Waiting(k))[i] = Waiting(k + 1)[i]
  <2>1. i \in 1..(Len(sent) - (k + 1)) /\ i + 1 \in 1..(Len(sent) - k) /\ k + (i + 1) = k + 1 + i
    BY <1>1, <1>2, <1>5
  <2>2. Tail(Waiting(k))[i] = sent[k + (i + 1)].request
    BY <1>2, <1>5, <2>1
  <2> QED BY <1>3, <2>1, <2>2
<1>9. Tail(Waiting(k)) = Waiting(k + 1)
  BY <1>3, <1>5, <1>7, <1>8, SeqEqual
<1> QED BY <1>2, <1>4, <1>6, <1>9
-----------------------------------------------------------------------------
(* Each step of the bytes is one of the queue, or none.                    *)
LEMMA UnreadWritten ==
  ASSUME FramingInv, NEW request \in Sends, NEW tree \in Trees(request), Write(request, tree)
  PROVE  Unread' = Append(Unread, request)
<1>1. Begun' = Begun /\ taken' = taken /\ (taken # 0 => stream'[taken] = stream[taken])
  BY WriteKeeps DEF Write
<1>2. Cut' = Cut
  BY <1>1 DEF Cut, IsNewline, IsLast
<1>3. /\ Len(sent) \in Nat /\ Len(sent') = Len(sent) + 1 /\ sent'[Len(sent) + 1].tree = tree
      /\ \A i \in 1..Len(sent) : sent'[i] = sent[i]
  BY BytesAppended DEF FramingInv, Write, Longer
<1>4. Begun \in 0..Len(sent)
  BY BegunIsNumber DEF FramingInv
<1> DEFINE N == Len(sent) - Begun
           longer == [i \in 1..(N + 1) |-> VisitRequest(sent'[Begun + i].tree)]
<1>5. Waiting(Begun) \in Seq(Item) /\ Len(Waiting(Begun)) = N /\ N \in Nat
  BY <1>4, WaitingRequests DEF FramingInv
<1>6. VisitRequest(tree) = request /\ request \in Item
  BY ReadAsWritten DEF Item
<1>7. Unread' = Cut \o longer
  <2>1. Len(sent') - Begun = N + 1
    BY <1>3, <1>4
  <2> QED BY <1>1, <1>2, <2>1 DEF Unread, Cut
<1>8. /\ Append(Waiting(Begun), request) \in Seq(Item)
      /\ Len(Append(Waiting(Begun), request)) = N + 1
      /\ \A i \in 1..N : Append(Waiting(Begun), request)[i] = Waiting(Begun)[i]
      /\ Append(Waiting(Begun), request)[N + 1] = request
  BY <1>5, <1>6, AppendProperties
<1>9. ASSUME NEW i \in 1..(N + 1)
      PROVE  VisitRequest(sent'[Begun + i].tree) = Append(Waiting(Begun), request)[i]
  <2>1. CASE i \in 1..N
    <3>1. Begun + i \in 1..Len(sent)
      BY <1>3, <1>4, <2>1
    <3>2. Waiting(Begun)[i] = VisitRequest(sent[Begun + i].tree)
      BY <2>1 DEF Waiting
    <3> QED BY <1>3, <1>8, <2>1, <3>1, <3>2
  <2>2. CASE i = N + 1
    <3>1. Begun + i = Len(sent) + 1
      BY <1>3, <1>4, <2>2
    <3> QED BY <1>3, <1>6, <1>8, <2>2, <3>1
  <2> QED BY <1>5, <2>1, <2>2
<1>10. longer = Append(Waiting(Begun), request)
  <2>1. DOMAIN Append(Waiting(Begun), request) = 1..(N + 1)
        /\ \A i \in 1..(N + 1) : Append(Waiting(Begun), request)[i] \in Item
    BY <1>8, LenProperties, ElementOfSeq
  <2> DEFINE appended == Append(Waiting(Begun), request)
  <2> HIDE DEF appended
  <2>2. longer \in [1..(N + 1) -> Item]
    BY <1>9, <2>1 DEF appended
  <2>3. longer \in Seq(Item) /\ DOMAIN longer = 1..(N + 1)
    <3>1. N + 1 \in Nat
      BY <1>5
    <3> HIDE DEF longer
    <3> QED BY <2>2, <3>1, FunctionIsSeq
  <2>4. Len(longer) = N + 1
    <3>1. Len(longer) \in Nat /\ DOMAIN longer = 1..Len(longer)
      BY <2>3, LenProperties
    <3> HIDE DEF longer
    <3> QED BY <1>5, <2>3, <3>1
  <2>5. \A i \in 1..(N + 1) : longer[i] = appended[i]
    BY <1>9 DEF appended
  <2> HIDE DEF longer
  <2> QED BY <1>8, <2>3, <2>4, <2>5, SeqEqual DEF appended
<1> HIDE DEF N, longer
<1>11. Cut \o Append(Waiting(Begun), request) = Append(Cut \o Waiting(Begun), request)
  <2>1. Cut \in Seq(Item) /\ Cut \o Waiting(Begun) \in Seq(Item) /\ <<request>> \in Seq(Item)
    BY <1>5, <1>6, CutItems, ConcatProperties
  <2>2. Append(Waiting(Begun), request) = Waiting(Begun) \o <<request>>
    BY <1>5, <1>6, AppendIsConcat
  <2>3. Append(Cut \o Waiting(Begun), request) = (Cut \o Waiting(Begun)) \o <<request>>
    BY <1>6, <2>1, AppendIsConcat
  <2> QED BY <1>5, <2>1, <2>2, <2>3, ConcatAssociative
<1> QED BY <1>7, <1>10, <1>11, UnreadIs

LEMMA WriteArrives ==
  ASSUME FramingInv, NEW request \in Sends, NEW tree \in Trees(request), Write(request, tree)
  PROVE  Abstract!Arrive(request)
<1>1. up /\ up' /\ MayFollow(Unread, trouble) /\ UNCHANGED <<trouble, answered, up>>
  BY DEF Write
<1>2. Begun' = Begun /\ Unread' = Append(Unread, request)
  BY WriteKeeps, UnreadWritten
<1>3. AnsweredWhole' = AnsweredWhole
  BY <1>1 DEF AnsweredWhole
<1> QED BY <1>1, <1>2, <1>3, SameFrames DEF Abstract!Arrive

LEMMA DeliverStutters ==
  ASSUME Deliver \/ UNCHANGED vars
  PROVE  UNCHANGED Abstract!inboxVars
<1>1. UNCHANGED <<trouble, sent, stream, taken, answered, up>>
  BY DEF Deliver, vars
<1>2. Begun' = Begun
  BY <1>1 DEF Begun
<1>3. Unread' = Unread
  BY <1>1, <1>2 DEF Unread, IsNewline, IsLast
<1>4. AnsweredWhole' = AnsweredWhole
  BY <1>1 DEF AnsweredWhole
<1> QED BY <1>1, <1>2, <1>3, <1>4 DEF Abstract!inboxVars

(* The queue in front of a reading: the request that is read leads it.     *)
LEMMA QueueOfReading ==
  ASSUME Layout, Progress, NEW n, NEW p, NEW value, ReadAt(value, p, n)
  PROVE  /\ Unread # <<>>
         /\ Lead(Unread) = Waiting(Begun)
         /\ p = taken + 1 => Unread = Waiting(Begun)
         /\ Waiting(Begun) # <<>> /\ Head(Waiting(Begun)) = sent[Begun + 1].request
         /\ Head(Waiting(Begun)) \notin Leftover
         /\ Tail(Waiting(Begun)) = Waiting(Begun + 1)
         /\ FitsBuffer(sent[Begun + 1].request) <=> Len(value) + 1 < MAX_BUFFER_SIZE
<1>1. /\ Begun \in 0..Len(sent) /\ Begun + 1 \in 1..Len(sent) /\ taken \in Nat
      /\ Len(value) + 1 = Size(sent[Begun + 1].tree)
  BY BegunIsNumber DEF ReadAt
<1>2. /\ Waiting(Begun) # <<>> /\ Head(Waiting(Begun)) = sent[Begun + 1].request
      /\ Head(Waiting(Begun)) \notin Leftover
      /\ Tail(Waiting(Begun)) = Waiting(Begun + 1)
      /\ Waiting(Begun) \in Seq(Item)
  BY <1>1, WaitingNext, WaitingRequests
<1>3. FitsBuffer(sent[Begun + 1].request) <=> Len(value) + 1 < MAX_BUFFER_SIZE
  BY <1>1, SentIsRequest
<1>4. CASE p = taken + 1 /\ (taken = 0 \/ IsNewline(stream[taken]))
  <2>1. Cut = <<>>
    BY <1>4 DEF Cut
  <2>2. Unread = Waiting(Begun)
    BY <1>2, <2>1, UnreadIs, ConcatEmptySeq
  <2>3. Lead(Unread) = Unread
    BY <1>2, <2>2 DEF Lead, Leftover
  <2> QED BY <1>2, <1>3, <2>2, <2>3
<1>5. CASE /\ p = taken + 2 /\ taken > 0 /\ IsLast(stream[taken]) /\ ~IsNewline(stream[taken])
  <2>1. Cut = <<Newline>> /\ Newline \in Item
    BY <1>1, <1>5 DEF Cut, Item, Leftover
  <2>2. Unread = <<Newline>> \o Waiting(Begun)
    BY <2>1, UnreadIs
  <2>3. Unread # <<>> /\ Head(Unread) = Newline /\ Tail(Unread) = Waiting(Begun)
    BY <1>2, <2>1, <2>2, ConsIs
  <2>4. Lead(Unread) = Waiting(Begun)
    BY <2>3 DEF Lead
  <2>5. p # taken + 1
    BY <1>1, <1>5
  <2> QED BY <1>2, <1>3, <2>3, <2>4, <2>5
<1> QED BY <1>4, <1>5 DEF ReadAt

(* The reading is one that Frames allows, and leaves what recv() has left. *)
LEMMA ReadingAllowed ==
  ASSUME FramingInv, Answer, NEW n, n = Len(Received),
         NEW p, NEW value, ReadAt(value, p, n)
  PROVE  \E reading \in Readings(Unread, "split" \in trouble) :
           /\ reading.request = sent[Begun + 1].request
           /\ Unread' = reading.rest /\ reading.torn \in Nat
           /\ Begun' = Begun + 1 + reading.torn
<1> DEFINE size == Len(value) + 1
           t == taken + n
           q == Waiting(Begun)
<1>1. /\ up /\ Received # <<>> /\ taken' = t
      /\ UNCHANGED <<trouble, sent, stream, arrived, up>>
  BY AnswerReads
<1>2. /\ n \in Nat \ {0} /\ n <= MAX_BUFFER_SIZE /\ t \in DOMAIN stream /\ t <= arrived
      /\ n = MAX_BUFFER_SIZE \/ t = arrived
  BY <1>1, TakenAfter DEF FramingInv
<1>3. BegunAfter(value, p, t)
  BY <1>2, AfterReading DEF FramingInv
<1>4. /\ Unread # <<>> /\ Lead(Unread) = q
      /\ p = taken + 1 => Unread = q
      /\ q # <<>> /\ Head(q) = sent[Begun + 1].request /\ Head(q) \notin Leftover
      /\ Tail(q) = Waiting(Begun + 1)
      /\ FitsBuffer(Head(q)) <=> size < MAX_BUFFER_SIZE
  BY QueueOfReading DEF FramingInv
<1>5. /\ Begun \in Nat /\ taken \in Nat /\ Len(sent) \in Nat
      /\ size \in Nat /\ size > 2 /\ size = Len(value) + 1
      /\ Begun + 1 \in 1..Len(sent)
      /\ p = taken + 1 \/ (p = taken + 2 /\ p + size - 1 <= t)
      /\ MAX_BUFFER_SIZE \in Nat
  <2>1. /\ Begun \in Nat /\ taken \in Nat /\ Len(sent) \in Nat /\ MAX_BUFFER_SIZE \in Nat
    BY BegunIsNumber, BoundAssumption DEF FramingInv
  <2>2. Len(value) \in Nat /\ Len(value) + 1 > 2
    BY DEF ReadAt
  <2>3. Begun + 1 \in 1..Len(sent)
    BY DEF ReadAt
  <2>4. p = taken + 1 \/ (p = taken + 2 /\ p + size - 1 <= t)
    BY DEF ReadAt
  <2>5. size \in Nat /\ size > 2 /\ size = Len(value) + 1
    BY <2>2
  <2> HIDE DEF size, t
  <2> QED BY <2>1, <2>3, <2>4, <2>5
<1>6. t = taken + n
  OBVIOUS
<1>7. Begun' = stream[t].of
  <2>1. taken' # 0
    BY <1>1, <1>2, <1>5, <1>6
  <2> QED BY <1>1, <2>1 DEF Begun
<1>8. Readings(Unread, "split" \in trouble) =
        (IF FitsBuffer(Head(q)) THEN ReadWhole(q) ELSE ReadFull(q))
          \cup (IF q = Unread /\ ("split" \in trouble \/ ~FitsBuffer(Head(q))) THEN ReadShort(q) ELSE {})
  <2> DEFINE pieces == "split" \in trouble
  <2> HIDE DEF pieces, q
  <2>1. Head(q) # Newline /\ Head(q) # Fragment
    BY <1>4 DEF Leftover
  <2>2. Readings(Unread, pieces) =
          (IF FitsBuffer(Head(q)) THEN ReadWhole(q) ELSE ReadFull(q))
            \cup (IF q = Unread /\ (pieces \/ ~FitsBuffer(Head(q))) THEN ReadShort(q) ELSE {})
    BY <1>4, <2>1 DEF Readings
  <2> QED BY <2>2 DEF pieces
<1>9. \A b : Begun' = b => Unread' = Cut' \o Waiting(b)
  BY <1>1 DEF Unread, Cut, Waiting
<1>10. Cut' = IF IsNewline(stream[t]) THEN <<>>
              ELSE IF IsLast(stream[t]) THEN <<Newline>> ELSE <<Fragment>>
  <2>1. taken' # 0
    BY <1>1, <1>2, <1>5, <1>6
  <2> QED BY <1>1, <2>1 DEF Cut, IsNewline, IsLast
<1> HIDE DEF q, t, size
<1>11. CASE t = p + size - 2 /\ stream[t].of = Begun + 1 /\ IsLast(stream[t]) /\ ~IsNewline(stream[t])
  <2> DEFINE reading == [request |-> Head(q), rest |-> <<Newline>> \o Tail(q), torn |-> 0, part |-> 0]
  <2>1. p = taken + 1 /\ q = Unread
    BY <1>2, <1>4, <1>5, <1>11
  <2>2. "split" \in trouble \/ ~FitsBuffer(Head(q))
    <3> SUFFICES ASSUME "split" \notin trouble, FitsBuffer(Head(q)) PROVE FALSE
      OBVIOUS
    <3>1. t = arrived /\ arrived = Len(stream)
      <4>1. n = size - 1 /\ n < MAX_BUFFER_SIZE
        BY <1>2, <1>4, <1>5, <1>6, <1>11, <2>1
      <4>2. t = arrived
        BY <1>2, <1>5, <4>1
      <4> QED BY <4>2 DEF FramingInv, Progress
    <3>2. stream # <<>>
      BY <1>2, EmptySeq
    <3> QED BY <1>11, <3>1, <3>2, LastByte DEF FramingInv
  <2>3. reading \in Readings(Unread, "split" \in trouble)
    BY <1>8, <2>1, <2>2 DEF ReadShort
  <2>4. Begun' = Begun + 1 /\ Cut' = <<Newline>>
    BY <1>7, <1>10, <1>11
  <2>5. Unread' = <<Newline>> \o Tail(q)
    BY <1>4, <1>9, <2>4
  <2>6. reading.request = Head(q) /\ reading.rest = <<Newline>> \o Tail(q) /\ reading.torn = 0
    OBVIOUS
  <2>7. Begun' = Begun + 1 + 0
    BY <1>5, <2>4
  <2> HIDE DEF reading
  <2> QED BY <1>4, <2>3, <2>5, <2>6, <2>7
<1>12. CASE t = p + size - 1 /\ stream[t].of = Begun + 1 /\ IsNewline(stream[t])
  <2> DEFINE reading == [request |-> Head(q), rest |-> Tail(q), torn |-> 0, part |-> 0]
  <2>1. reading \in ReadFull(q)
    BY DEF ReadFull
  <2>2. reading \in ReadWhole(q)
    <3> DEFINE left == [rest |-> Tail(q), torn |-> 0]
    <3>1. left \in Remains(Tail(q)) /\ left.rest = Tail(q) /\ left.torn = 0
      BY DEF Remains
    <3> HIDE DEF left
    <3> QED BY <3>1 DEF ReadWhole
  <2>3. reading \in Readings(Unread, "split" \in trouble)
    BY <1>8, <2>1, <2>2
  <2>4. Begun' = Begun + 1 /\ Cut' = <<>>
    BY <1>7, <1>10, <1>12
  <2>5. Unread' = Tail(q)
    <3>1. Waiting(Begun + 1) \in Seq(Item)
      BY <1>5, WaitingRequests DEF FramingInv
    <3> QED BY <1>4, <1>9, <2>4, <3>1, ConcatEmptySeq
  <2>6. reading.request = Head(q) /\ reading.rest = Tail(q) /\ reading.torn = 0
    OBVIOUS
  <2>7. Begun' = Begun + 1 + 0
    BY <1>5, <2>4
  <2> HIDE DEF reading
  <2> QED BY <1>4, <2>3, <2>5, <2>6, <2>7
<1>13. CASE /\ t >= p + size /\ stream[t].of = Begun + 2 /\ ~IsNewline(stream[t])
            /\ Begun + 2 \in 1..Len(sent)
  <2>1. FitsBuffer(Head(q))
    <3>1. size < MAX_BUFFER_SIZE
      BY <1>2, <1>5, <1>6, <1>13
    <3> QED BY <1>4, <3>1
  <2>2. PICK part \in Leftover : Cut' = <<part>>
    BY <1>10, <1>13 DEF Leftover
  <2>3. Tail(q) # <<>> /\ Tail(Tail(q)) = Waiting(Begun + 2)
    <3>1. Begun + 1 \in 0..Len(sent) /\ (Begun + 1) + 1 = Begun + 2
      BY <1>5
    <3>2. Waiting(Begun + 1) # <<>> /\ Tail(Waiting(Begun + 1)) = Waiting((Begun + 1) + 1)
      BY <1>13, <3>1, WaitingNext DEF FramingInv
    <3> QED BY <1>4, <3>1, <3>2
  <2> DEFINE left == [rest |-> <<part>> \o Tail(Tail(q)), torn |-> 1]
             reading == [request |-> Head(q), rest |-> <<part>> \o Tail(Tail(q)), torn |-> 1,
                         part |-> 0]
  <2>4. reading \in ReadWhole(q)
    <3>1. left \in Remains(Tail(q)) /\ left.rest = <<part>> \o Tail(Tail(q)) /\ left.torn = 1
      BY <2>3 DEF Remains
    <3> HIDE DEF left
    <3> QED BY <3>1 DEF ReadWhole
  <2>5. reading \in Readings(Unread, "split" \in trouble)
    BY <1>8, <2>1, <2>4
  <2>6. Begun' = Begun + 2
    BY <1>7, <1>13
  <2>7. Unread' = <<part>> \o Tail(Tail(q))
    BY <1>9, <2>2, <2>3, <2>6
  <2>8. /\ reading.request = Head(q) /\ reading.rest = <<part>> \o Tail(Tail(q))
        /\ reading.torn = 1
    OBVIOUS
  <2>9. Begun' = Begun + 1 + 1
    BY <1>5, <2>6
  <2> HIDE DEF reading
  <2>10. Begun' = Begun + 1 + reading.torn /\ reading.torn \in Nat
    BY <2>8, <2>9
  <2> QED BY <1>4, <2>5, <2>7, <2>8, <2>10
<1> QED BY <1>3, <1>11, <1>12, <1>13 DEF BegunAfter, size

(* A part that is read leaves the queue as it was.                         *)
LEMMA PartAllowed ==
  ASSUME FramingInv, Answer, NEW n, n = Len(Received), NEW response, AnsweringPart(n, response)
  PROVE  \E reading \in Readings(Unread, "split" \in trouble) :
           /\ reading.request = Untagged /\ Unread' = reading.rest
           /\ reading.torn = 0 /\ Begun' = Begun
<1>1. /\ up /\ Received # <<>> /\ taken' = taken + n
      /\ UNCHANGED <<trouble, sent, stream, arrived, up>>
  BY AnswerReads
<1>2. /\ Inside /\ stream[taken + n].of = Begun
      /\ ~IsNewline(stream[taken + n]) /\ ~IsLast(stream[taken + n])
  BY DEF AnsweringPart
<1>3. taken' # 0
  <2>1. n \in Nat \ {0} /\ taken \in Nat
    BY <1>1, TakenAfter, BegunIsNumber DEF FramingInv
  <2> QED BY <1>1, <2>1
<1>4. Begun' = Begun /\ Cut = <<Fragment>> /\ Cut' = <<Fragment>>
  <2>1. Begun' = Begun /\ Cut' = <<Fragment>>
    BY <1>1, <1>2, <1>3 DEF Begun, Cut, IsNewline, IsLast
  <2> QED BY <1>2, <2>1 DEF Inside, Cut
<1>5. Unread' = Cut' \o Waiting(Begun)
  BY <1>1, <1>4 DEF Unread, Cut, Waiting
<1>6. Unread = <<Fragment>> \o Waiting(Begun) /\ Unread' = Unread
  BY <1>4, <1>5, UnreadIs
<1>7. Unread # <<>> /\ Head(Unread) = Fragment
  <2>1. Waiting(Begun) \in Seq(Item) /\ Fragment \in Item
    BY BegunIsNumber, WaitingRequests DEF FramingInv, Item, Leftover
  <2> QED BY <1>6, <2>1, ConsIs
<1>8. Lead(Unread) = Unread /\ Head(Unread) # Newline
  BY <1>7, RequestTypes DEF Lead
<1>9. Readings(Unread, "split" \in trouble) = ReadPart(Unread)
  BY <1>7, <1>8 DEF Readings
<1> DEFINE reading == [request |-> Untagged, rest |-> Unread, torn |-> 0, part |-> 1]
<1>10. reading \in ReadPart(Unread)
  BY DEF ReadPart
<1>11. reading.request = Untagged /\ reading.rest = Unread /\ reading.torn = 0
  OBVIOUS
<1> HIDE DEF reading
<1> QED BY <1>4, <1>6, <1>9, <1>10, <1>11

LEMMA WholeAppended ==
  ASSUME answered \in Seq(Replied), NEW reply \in Replied, answered' = Append(answered, reply)
  PROVE  /\ Cardinality(AnsweredWhole) \in Nat
         /\ Cardinality(AnsweredWhole') =
              Cardinality(AnsweredWhole) + (IF reply.whole THEN 1 ELSE 0)
<1> DEFINE L == Len(answered)
<1>1. L \in Nat /\ DOMAIN answered = 1..L
  BY LenProperties
<1>2. /\ answered' \in Seq(Replied) /\ Len(answered') = L + 1
      /\ \A i \in 1..L : answered'[i] = answered[i]
      /\ answered'[L + 1] = reply
  BY AppendProperties
<1>3. DOMAIN answered' = 1..(L + 1)
  BY <1>2, LenProperties
<1> HIDE DEF L
<1>4. /\ AnsweredWhole = { i \in 1..L : answered[i].whole }
      /\ AnsweredWhole' = { i \in 1..(L + 1) : answered'[i].whole }
  BY <1>1, <1>3 DEF AnsweredWhole
<1>5. IsFiniteSet(AnsweredWhole) /\ Cardinality(AnsweredWhole) \in Nat /\ L + 1 \notin AnsweredWhole
  <2>1. IsFiniteSet(1..L)
    BY <1>1, FS_Interval
  <2>2. AnsweredWhole \subseteq 1..L
    BY <1>4
  <2>3. IsFiniteSet(AnsweredWhole)
    BY <2>1, <2>2, FS_Subset
  <2>4. L + 1 \notin 1..L
    BY <1>1
  <2> QED BY <2>2, <2>3, <2>4, FS_CardinalityType
<1>6. AnsweredWhole' = AnsweredWhole \cup (IF reply.whole THEN {L + 1} ELSE {})
  <2>1. \A i : i \in 1..(L + 1) <=> i \in 1..L \/ i = L + 1
    BY <1>1
  <2>2. L + 1 \notin 1..L
    BY <1>1
  <2> QED BY <1>2, <1>4, <2>1, <2>2
<1>7. CASE reply.whole
  <2>1. AnsweredWhole' = AnsweredWhole \cup {L + 1}
    BY <1>6, <1>7
  <2>2. Cardinality(AnsweredWhole \cup {L + 1}) = Cardinality(AnsweredWhole) + 1
    BY <1>5, FS_AddElement
  <2> QED BY <1>5, <1>7, <2>1, <2>2
<1>8. CASE ~reply.whole
  <2>1. AnsweredWhole' = AnsweredWhole
    BY <1>6, <1>8
  <2> QED BY <1>5, <1>8, <2>1
<1> QED BY <1>7, <1>8

LEMMA ReplyAllowed ==
  ASSUME FramingInv, Answer
  PROVE  \E reply : \E reading \in Readings(Unread, "split" \in trouble) :
           /\ reply \in Replied /\ answered' = Append(answered, reply)
           /\ reading.request = reply.request /\ reply.request # Incomplete
           /\ Unread' = reading.rest /\ reading.torn \in Nat
           /\ Begun' = Begun + reading.torn + (IF reply.whole THEN 1 ELSE 0)
<1> DEFINE n == Len(Received)
<1>1. /\ up /\ Received # <<>> /\ taken' = taken + n
      /\ UNCHANGED <<trouble, sent, stream, arrived, up>>
      /\ \/ \E p \in {taken + 1, taken + 2} :
              \E value, response : Answering(n, value, p, response)
         \/ \E response : AnsweringPart(n, response)
  BY AnswerReads
<1>2. n = Len(Received)
  OBVIOUS
<1>3. Begun \in Nat
  BY BegunIsNumber DEF FramingInv
<1> HIDE DEF n
<1>4. ASSUME NEW p \in {taken + 1, taken + 2}, NEW value, NEW response, Answering(n, value, p, response)
      PROVE  \E reply : \E reading \in Readings(Unread, "split" \in trouble) :
               /\ reply \in Replied /\ answered' = Append(answered, reply)
               /\ reading.request = reply.request /\ reply.request # Incomplete
               /\ Unread' = reading.rest /\ reading.torn \in Nat
               /\ Begun' = Begun + reading.torn + (IF reply.whole THEN 1 ELSE 0)
  <2> DEFINE reply == [of |-> Begun + 1, whole |-> TRUE, request |-> sent[Begun + 1].request,
                       response |-> response]
  <2>1. Replying(reply)
    BY <1>1, <1>2, <1>4, WholeReplies
  <2>2. reply.request = sent[Begun + 1].request /\ reply.whole = TRUE
    OBVIOUS
  <2> HIDE DEF reply
  <2>3. PICK reading \in Readings(Unread, "split" \in trouble) :
          /\ reading.request = sent[Begun + 1].request
          /\ Unread' = reading.rest /\ reading.torn \in Nat
          /\ Begun' = Begun + 1 + reading.torn
    <3>1. ReadAt(value, p, n)
      BY <1>4 DEF Answering
    <3> QED BY <1>2, <3>1, ReadingAllowed
  <2>4. sent[Begun + 1].request # Incomplete
    BY <1>4 DEF Answering
  <2>5. Begun' = Begun + reading.torn + (IF reply.whole THEN 1 ELSE 0)
    BY <1>3, <2>2, <2>3
  <2> QED BY <2>1, <2>2, <2>3, <2>4, <2>5 DEF Replying
<1>5. ASSUME NEW response, AnsweringPart(n, response)
      PROVE  \E reply : \E reading \in Readings(Unread, "split" \in trouble) :
               /\ reply \in Replied /\ answered' = Append(answered, reply)
               /\ reading.request = reply.request /\ reply.request # Incomplete
               /\ Unread' = reading.rest /\ reading.torn \in Nat
               /\ Begun' = Begun + reading.torn + (IF reply.whole THEN 1 ELSE 0)
  <2> DEFINE reply == [of |-> Begun, whole |-> FALSE, request |-> Untagged, response |-> response]
  <2>1. Replying(reply)
    BY <1>1, <1>2, <1>5, PartReplies
  <2>2. reply.request = Untagged /\ reply.whole = FALSE
    OBVIOUS
  <2> HIDE DEF reply
  <2>3. PICK reading \in Readings(Unread, "split" \in trouble) :
          /\ reading.request = Untagged /\ Unread' = reading.rest
          /\ reading.torn = 0 /\ Begun' = Begun
    BY <1>2, <1>5, PartAllowed
  <2>4. Untagged # Incomplete
    BY RequestTypes
  <2>5. Begun' = Begun + reading.torn + (IF reply.whole THEN 1 ELSE 0) /\ reading.torn \in Nat
    BY <1>3, <2>2, <2>3
  <2> QED BY <2>1, <2>2, <2>3, <2>4, <2>5 DEF Replying
<1> QED BY <1>1, <1>4, <1>5

LEMMA AnswerAnswers ==
  ASSUME FramingInv, Answer
  PROVE  Abstract!Answer
<1>1. up /\ UNCHANGED <<trouble, up>>
  BY AnswerReads
<1>2. PICK reply : \E reading \in Readings(Unread, "split" \in trouble) :
        /\ reply \in Replied /\ answered' = Append(answered, reply)
        /\ reading.request = reply.request /\ reply.request # Incomplete
        /\ Unread' = reading.rest /\ reading.torn \in Nat
        /\ Begun' = Begun + reading.torn + (IF reply.whole THEN 1 ELSE 0)
  BY ReplyAllowed
<1>3. PICK reading \in Readings(Unread, "split" \in trouble) :
        /\ reply \in Replied /\ answered' = Append(answered, reply)
        /\ reading.request = reply.request /\ reply.request # Incomplete
        /\ Unread' = reading.rest /\ reading.torn \in Nat
        /\ Begun' = Begun + reading.torn + (IF reply.whole THEN 1 ELSE 0)
  BY <1>2
<1>4. Begun \in Nat /\ answered \in Seq(Replied)
  BY BegunIsNumber DEF FramingInv, Meant
<1>5. Requests(answered)' = Append(Requests(answered), reading.request)
  <2>1. Requests(answered)' = Requests(Append(answered, reply))
    BY <1>3 DEF Requests
  <2>2. Requests(Append(answered, reply)) = Append(Requests(answered), reply.request)
    BY <1>3, <1>4, RequestsAppend
  <2> QED BY <1>3, <2>1, <2>2
<1>6. Begun' - Cardinality(AnsweredWhole)' = (Begun - Cardinality(AnsweredWhole)) + reading.torn
  <2>1. /\ Cardinality(AnsweredWhole) \in Nat
        /\ Cardinality(AnsweredWhole') =
             Cardinality(AnsweredWhole) + (IF reply.whole THEN 1 ELSE 0)
    BY <1>3, <1>4, WholeAppended
  <2> DEFINE now == Cardinality(AnsweredWhole)
             new == Cardinality(AnsweredWhole')
  <2>2. now \in Nat /\ new = now + (IF reply.whole THEN 1 ELSE 0)
    BY <2>1
  <2> HIDE DEF now, new
  <2>3. Begun' - new = (Begun - now) + reading.torn
    BY <1>3, <1>4, <2>2
  <2> QED BY <2>3 DEF now, new
<1>7. reading \in Abstract!Readings(Unread, "split" \in trouble) /\ reading.request # Abstract!Incomplete
  BY <1>3, SameFrames
<1> QED BY <1>1, <1>3, <1>5, <1>6, <1>7 DEF Abstract!Answer, Requests

(* When one request that fits is all there is, recv() takes it whole.      *)
LEMMA OneRequestTaken ==
  ASSUME FramingInv, Receive, Len(Unread) = 1, Head(Unread) \notin Leftover,
         FitsBuffer(Head(Unread)), {"split", "stale"} \cap trouble = {},
         NEW n, n = Len(Received)
  PROVE  /\ Begun + 1 = Len(sent) /\ Begun \in Nat /\ Head(Unread) = sent[Begun + 1].request
         /\ n = Size(sent[Begun + 1].tree) /\ n \in Nat /\ n > 2
         /\ n < MAX_BUFFER_SIZE
         /\ \A i \in 1..n : stream[taken + i] = [of |-> Begun + 1, at |-> i, size |-> n]
<1>1. /\ Unread \in Seq(Item) /\ Len(Unread) = Len(Cut) + (Len(sent) - Begun)
      /\ Len(sent) - Begun \in Nat
      /\ \A i \in 1..(Len(Cut) + (Len(sent) - Begun)) :
           Unread[i] = IF i <= Len(Cut) THEN Cut[i] ELSE Waiting(Begun)[i - Len(Cut)]
  BY UnreadItems DEF FramingInv
<1>2. /\ Begun \in 0..Len(sent) /\ Len(sent) \in Nat /\ Begun \in Nat
      /\ taken \in Nat /\ Len(stream) \in Nat /\ DOMAIN stream = 1..Len(stream)
      /\ taken # 0 => taken \in DOMAIN stream
  BY BegunIsNumber DEF FramingInv
<1>3. Head(Unread) = Unread[1]
  OBVIOUS
<1>4. Len(Cut) = 0 /\ (taken = 0 \/ IsNewline(stream[taken]))
  <2> SUFFICES ASSUME Len(Cut) = 1 PROVE FALSE
    BY CutItems
  <2>1. 1 \in 1..(Len(Cut) + (Len(sent) - Begun)) /\ 1 <= Len(Cut)
    BY <1>1
  <2>2. Unread[1] = Cut[1]
    BY <1>1, <2>1
  <2>3. Cut[1] \in Leftover
    BY CutItems DEF Leftover
  <2> QED BY <1>3, <2>2, <2>3
<1>5. Len(sent) - Begun = 1 /\ Begun + 1 = Len(sent) /\ Begun + 1 \in 1..Len(sent)
  <2>1. 1 = 0 + (Len(sent) - Begun)
    BY <1>1, <1>4
  <2>2. Len(sent) - Begun = 1
    BY <1>2, <2>1
  <2> QED BY <1>2, <2>2
<1>6. Head(Unread) = sent[Begun + 1].request
  <2>1. 1 \in 1..(Len(Cut) + (Len(sent) - Begun)) /\ ~(1 <= Len(Cut)) /\ 1 - Len(Cut) = 1
        /\ 1 \in 1..(Len(sent) - Begun)
    BY <1>4, <1>5
  <2>2. Unread[1] = Waiting(Begun)[1]
    BY <1>1, <2>1
  <2>3. Waiting(Begun)[1] = sent[Begun + 1].request
    BY <1>2, <2>1, WaitingRequests DEF FramingInv
  <2> QED BY <1>3, <2>2, <2>3
<1>7. /\ n \in Nat \ {0} /\ n <= MAX_BUFFER_SIZE /\ taken + n \in DOMAIN stream
      /\ n = MAX_BUFFER_SIZE \/ taken + n = arrived
      /\ Received # <<>>
  BY TakenAfter DEF FramingInv, Receive
<1> DEFINE p == taken + 1
           z == Size(sent[Begun + 1].tree)
<1>8. p \in DOMAIN stream /\ stream[p].at = 1 /\ stream[p].of = Begun + 1
  <2>1. p \in DOMAIN stream
    BY <1>2, <1>7
  <2>2. CASE taken = 0
    <3>1. stream # <<>> /\ p = 1 /\ Begun = 0
      BY <1>7, <2>2 DEF Begun, Received
    <3> QED BY <2>1, <3>1 DEF FramingInv, Layout
  <2>3. CASE taken # 0
    <3>1. IsNewline(stream[taken]) /\ taken \in DOMAIN stream
      BY <1>2, <1>4, <2>3
    <3>2. stream[taken + 1].of = stream[taken].of + 1 /\ stream[taken + 1].at = 1
      BY <2>1, <3>1, NextByte DEF FramingInv
    <3> QED BY <2>1, <2>3, <3>2 DEF Begun
  <2> QED BY <2>2, <2>3
<1>9. Around(p) /\ Behind(p) /\ stream[p].size > 2 /\ stream[p].size \in Nat
  BY <1>8, ByteFacts DEF FramingInv, Layout
<1>10. stream[p].size = z
  BY <1>8, <1>9 DEF Around
<1>11. EndOf(p) = taken + z
  BY <1>2, <1>8, <1>9, <1>10 DEF EndOf
<1>12. taken + z = Len(stream)
  BY <1>5, <1>8, <1>9, <1>11 DEF Behind
<1>13. z < MAX_BUFFER_SIZE
  BY <1>5, <1>6, SentIsRequest DEF FramingInv
<1>14. z \in Nat /\ z > 2
  BY <1>9, <1>10
<1> HIDE DEF z
<1>15. n <= z
  <2>1. taken + n <= Len(stream)
    BY <1>2, <1>7
  <2> QED BY <1>2, <1>7, <1>12, <1>14, <2>1
<1>16. n = z
  <2>1. n # MAX_BUFFER_SIZE
    BY <1>7, <1>13, <1>14, <1>15, BoundAssumption
  <2>2. "split" \notin trouble
    OBVIOUS
  <2>3. taken + n = Len(stream)
    BY <1>7, <2>1, <2>2, AllArrived DEF FramingInv
  <2> QED BY <1>2, <1>7, <1>12, <1>14, <2>3
<1>17. ASSUME NEW i \in 1..n
       PROVE  stream[taken + i] = [of |-> Begun + 1, at |-> i, size |-> n]
  <2>1. stream[(p - stream[p].at) + i] = [of |-> stream[p].of, at |-> i, size |-> stream[p].size]
    BY <1>9, <1>10, <1>16 DEF Around
  <2>2. (p - stream[p].at) + i = taken + i
    BY <1>2, <1>7, <1>8
  <2> QED BY <1>8, <1>10, <1>16, <2>1, <2>2
<1> QED BY <1>2, <1>5, <1>6, <1>13, <1>14, <1>16, <1>17 DEF z

LEMMA JustBelow ==
  \A b, e \in Nat : b - 1 <= e /\ e <= b /\ e # b => e = b - 1
OBVIOUS

(* From the bytes of one whole request its value is read.                  *)
LEMMA WholeIsRead ==
  ASSUME Layout, NEW text \in Seq(Byte), NEW n \in Nat, n > 2, Len(text) = n,
         NEW k \in 1..Len(sent), n = Size(sent[k].tree),
         \A i \in 1..n : text[i] = [of |-> k, at |-> i, size |-> n]
  PROVE  /\ IsWhole(From(text)) /\ From(text) \in Seq(Byte)
         /\ \A i \in DOMAIN From(text) : From(text)[i].of = k
         /\ 1 \in DOMAIN From(text)
<1>1. text # <<>>
  BY EmptySeq
<1>2. PICK end \in 1..Len(text) :
        /\ KeptUpTo(text, end)
        /\ \/ From(text) = <<>> /\ \A i \in 1..end : IsNewline(text[i])
           \/ \E start \in 1..end :
                /\ From(text) = SubSeq(text, start, end)
                /\ ~IsNewline(text[start])
                /\ \A i \in 1..(start - 1) : IsNewline(text[i])
  BY <1>1, FromKeeps
<1>3. IsNewline(text[n]) /\ IsBrace(text[n - 1]) /\ ~IsBrace(text[n]) /\ ~IsNewline(text[1])
  <2>1. n \in 1..n /\ n - 1 \in 1..n /\ 1 \in 1..n /\ n # 1 /\ n - 1 # n
    OBVIOUS
  <2>2. text[n] = [of |-> k, at |-> n, size |-> n] /\ text[n - 1] = [of |-> k, at |-> n - 1, size |-> n]
        /\ text[1] = [of |-> k, at |-> 1, size |-> n]
    BY <2>1
  <2>3. n \notin Braces(sent[k].tree)
    BY SentIsRequest
  <2> QED BY <2>1, <2>2, <2>3 DEF IsNewline, IsBrace, IsLast
<1>4. end = n - 1
  <2>1. n \in 1..Len(text) /\ n - 1 \in 1..Len(text) /\ n - 1 <= n
    OBVIOUS
  <2>2. n - 1 <= end
    BY <1>2, <1>3, <2>1 DEF KeptUpTo
  <2>3. end # n
    <3> SUFFICES ASSUME end = n PROVE FALSE
      OBVIOUS
    <3>1. n - 1 \in 1..end
      OBVIOUS
    <3>2. IsBrace(text[end]) \/ ~IsBrace(text[n - 1])
      BY <1>2, <3>1 DEF KeptUpTo
    <3> QED BY <1>3, <3>2
  <2>4. end \in Nat /\ end <= n
    OBVIOUS
  <2> QED BY <2>2, <2>3, <2>4, JustBelow
<1>5. From(text) = SubSeq(text, 1, n - 1)
  <2>1. 1 \in 1..end
    BY <1>4
  <2>2. PICK start \in 1..end :
          /\ From(text) = SubSeq(text, start, end)
          /\ \A i \in 1..(start - 1) : IsNewline(text[i])
    BY <1>2, <1>3, <2>1
  <2>3. start = 1
    <3> SUFFICES ASSUME start # 1 PROVE FALSE
      OBVIOUS
    <3>1. 1 \in 1..(start - 1)
      BY <1>4
    <3> QED BY <1>3, <2>2, <3>1
  <2> QED BY <1>4, <2>2, <2>3
<1>6. /\ From(text) \in Seq(Byte) /\ Len(From(text)) = n - 1
      /\ \A i \in 1..(n - 1) : From(text)[i] = text[i]
  <2>1. \A i \in 1..(n - 1) : text[i] \in Byte
    <3>1. \A i \in 1..(n - 1) : i \in 1..Len(text)
      OBVIOUS
    <3> QED BY <3>1, ElementOfSeq
  <2>2. 1 \in Int /\ n - 1 \in Int
    OBVIOUS
  <2>3. /\ SubSeq(text, 1, n - 1) \in Seq(Byte)
        /\ Len(SubSeq(text, 1, n - 1)) = IF 1 <= n - 1 THEN (n - 1) - 1 + 1 ELSE 0
        /\ \A i \in 1..((n - 1) - 1 + 1) : SubSeq(text, 1, n - 1)[i] = text[1 + i - 1]
    BY <2>1, <2>2, SubSeqProperties
  <2>4. (n - 1) - 1 + 1 = n - 1 /\ 1 <= n - 1 /\ \A i \in 1..(n - 1) : 1 + i - 1 = i
    OBVIOUS
  <2> QED BY <1>5, <2>3, <2>4
<1>7. DOMAIN From(text) = 1..(n - 1)
  BY <1>6, LenProperties
<1>8. ASSUME NEW i \in DOMAIN From(text)
      PROVE  From(text)[i].of = k /\ From(text)[i].at = i
             /\ From(text)[i].size = Len(From(text)) + 1
  <2>1. i \in 1..n /\ From(text)[i] = text[i] /\ Len(From(text)) + 1 = n
    BY <1>6, <1>7
  <2>2. text[i] = [of |-> k, at |-> i, size |-> n]
    BY <2>1
  <2> QED BY <2>1, <2>2
<1>9. From(text) # <<>> /\ 1 \in DOMAIN From(text)
  BY <1>6, <1>7, EmptySeq
<1>10. IsWhole(From(text))
  <2>1. k > 0
    BY LenProperties DEF Layout
  <2>2. \A i \in DOMAIN From(text) : From(text)[i].of > 0
    BY <1>8, <2>1
  <2> QED BY <1>8, <1>9, <2>2 DEF IsWhole
<1> QED BY <1>6, <1>8, <1>9, <1>10

LEMMA ThrowMay ==
  ASSUME FramingInv, Throw
  PROVE  up /\ MayThrow(Unread, trouble)
<1> DEFINE n == Len(Received)
<1>1. up /\ Receive
  BY DEF Throw, Receive
<1>2. /\ n \in Nat \ {0} /\ taken + n \in DOMAIN stream
  BY <1>1, TakenAfter DEF FramingInv, Receive
<1>3. taken \in Nat /\ DOMAIN stream = 1..Len(stream) /\ Len(stream) \in Nat
  BY BegunIsNumber DEF FramingInv
<1>4. Unread # <<>> /\ Unread \in Seq(Item) /\ Len(Unread) \in Nat /\ Len(Unread) # 0
  <2>1. taken # Len(stream)
    <3>1. taken + n \in 1..Len(stream) /\ n \in Nat \ {0}
      BY <1>2, <1>3
    <3> HIDE DEF n
    <3>2. \A a, b \in Nat : \A c \in Nat \ {0} : a + c \in 1..b => a # b
      OBVIOUS
    <3> QED BY <1>3, <3>1, <3>2
  <2>2. Unread # <<>>
    BY <2>1, UnreadShort DEF FramingInv
  <2>3. Unread \in Seq(Item)
    BY UnreadItems DEF FramingInv
  <2> QED BY <2>2, <2>3, LenProperties, EmptySeq
<1> SUFFICES ASSUME ~MayThrow(Unread, trouble) PROVE FALSE
  BY <1>1
<1>5. /\ Head(Unread) \notin Leftover /\ FitsBuffer(Head(Unread)) /\ ~(Len(Unread) > 1)
      /\ ~(\E reading \in Readings(Unread, "split" \in trouble) : reading.request = Incomplete)
      /\ {"split", "stale"} \cap trouble = {}
  BY <1>4 DEF MayThrow
<1>6. Len(Unread) = 1
  BY <1>4, <1>5
<1>7. /\ Begun + 1 = Len(sent) /\ Begun \in Nat /\ Head(Unread) = sent[Begun + 1].request
      /\ n \in Nat /\ n > 2 /\ n < MAX_BUFFER_SIZE
      /\ \A i \in 1..n : stream[taken + i] = [of |-> Begun + 1, at |-> i, size |-> n]
  BY <1>1, <1>5, <1>6, OneRequestTaken
<1>8. Head(Unread) # Incomplete
  <2> SUFFICES ASSUME Head(Unread) = Incomplete PROVE FALSE
    OBVIOUS
  <2>1. Lead(Unread) = Unread
    BY <1>5 DEF Lead, Leftover
  <2>2. ReadWhole(Unread) \subseteq Readings(Unread, "split" \in trouble)
    <3>1. Head(Unread) # Newline /\ Head(Unread) # Fragment
      BY <1>5 DEF Leftover
    <3> QED BY <1>4, <1>5, <2>1, <3>1 DEF Readings
  <2> DEFINE left    == [rest |-> Tail(Unread), torn |-> 0]
             reading == [request |-> Head(Unread), rest |-> Tail(Unread), torn |-> 0, part |-> 0]
  <2>3. left \in Remains(Tail(Unread)) /\ left.rest = Tail(Unread) /\ left.torn = 0
    BY DEF Remains
  <2> HIDE DEF left
  <2>4. reading \in ReadWhole(Unread)
    BY <2>3 DEF ReadWhole
  <2>5. reading.request = Head(Unread)
    OBVIOUS
  <2> HIDE DEF reading
  <2> QED BY <1>5, <2>2, <2>4, <2>5
<1>9. PICK beyond \in Beyond(n) :
        \A asked \in Asked(From(Received \o beyond)) : asked.request = Incomplete
  BY DEF Throw
<1>10. beyond = <<>>
  <2>1. "stale" \notin trouble /\ n # MAX_BUFFER_SIZE
    BY <1>5, <1>7, BoundAssumption
  <2> HIDE DEF n
  <2> QED BY <2>1 DEF Beyond
<1>11. /\ Received \in Seq(Byte) /\ Received \o beyond = Received
       /\ \A i \in 1..n : Received[i] = stream[taken + i]
  <2>1. /\ Received \in Seq(Byte) /\ \A i \in 1..n : Received[i] = stream[taken + i]
    BY <1>1, ReceivedBytes DEF FramingInv, Receive
  <2> QED BY <1>10, <2>1, ConcatEmptySeq
<1> DEFINE value == From(Received)
<1>12. /\ IsWhole(value) /\ value \in Seq(Byte)
       /\ \A i \in DOMAIN value : value[i].of = Begun + 1
       /\ 1 \in DOMAIN value
  <2>1. \A i \in 1..n : Received[i] = [of |-> Begun + 1, at |-> i, size |-> n]
    BY <1>7, <1>11
  <2>2. Begun + 1 \in 1..Len(sent)
    BY <1>7, BegunIsNumber DEF FramingInv
  <2>3. n = Size(sent[Begun + 1].tree)
    BY <1>1, <1>5, <1>6, OneRequestTaken
  <2>4. Len(Received) = n
    OBVIOUS
  <2> HIDE DEF n
  <2> QED BY <1>7, <1>11, <2>1, <2>2, <2>3, <2>4, WholeIsRead DEF FramingInv
<1>13. Visited(value) = Incomplete
  <2> DEFINE asked == [whole |-> TRUE, request |-> Visited(value)]
  <2>1. asked \in Asked(value) /\ asked.request = Visited(value)
    BY <1>12 DEF Asked
  <2> HIDE DEF asked, value
  <2>2. \A other \in Asked(value) : other.request = Incomplete
    BY <1>9, <1>11 DEF value
  <2> QED BY <2>1, <2>2
<1> HIDE DEF value, n
<1>14. Visited(value) = VisitRequest(sent[Begun + 1].tree)
  BY <1>12 DEF Visited
<1>15. Begun + 1 \in 1..Len(sent)
  <2>1. Len(sent) \in Nat
    BY BegunIsNumber DEF FramingInv
  <2> QED BY <1>7, <2>1
<1>16. VisitRequest(sent[Begun + 1].tree) = sent[Begun + 1].request
  BY <1>15, SentIsRequest DEF FramingInv
<1> QED BY <1>7, <1>8, <1>13, <1>14, <1>16

LEMMA ThrowThrows ==
  ASSUME FramingInv, Throw
  PROVE  Abstract!Throw
<1>1. up /\ Abstract!MayThrow(Unread, trouble)
  BY ThrowMay, SameFrames
<1>2. up' = FALSE /\ UNCHANGED <<trouble, answered>>
  BY DEF Throw, Receive
<1> QED BY <1>1, <1>2 DEF Abstract!Throw

LEMMA InboxInitially == Init => Abstract!InboxInit
<1> SUFFICES ASSUME Init PROVE Abstract!InboxInit
  OBVIOUS
<1>1. sent = <<>> /\ taken = 0 /\ answered = <<>> /\ up = TRUE
  BY DEF Init
<1>2. Layout /\ Progress
  BY InitFraming DEF FramingInv
<1>3. Begun = 0
  BY <1>1 DEF Begun
<1>4. Len(sent) = 0 /\ Cardinality(AnsweredWhole) = 0
  <2>1. AnsweredWhole = {}
    BY <1>1 DEF AnsweredWhole
  <2> QED BY <1>1, <2>1, FS_EmptySet
<1>5. Unread = <<>>
  <2>1. Len(Cut) = 0
    BY <1>1, CutItems
  <2>2. Unread \in Seq(Item) /\ Len(Unread) = Len(Cut) + (Len(sent) - Begun)
    BY <1>2, UnreadItems
  <2>3. Len(Unread) = 0
    BY <1>3, <1>4, <2>1, <2>2
  <2> QED BY <2>2, <2>3, EmptySeq
<1>6. Requests(answered) = <<>>
  <2>1. Requests(answered) \in [1..0 -> Request] /\ 0 \in Nat
    BY <1>1 DEF Requests
  <2>2. Requests(answered) \in Seq(Request) /\ DOMAIN Requests(answered) = 1..0
    BY <2>1, FunctionIsSeq
  <2>3. Len(Requests(answered)) \in Nat /\ DOMAIN Requests(answered) = 1..Len(Requests(answered))
    BY <2>2, LenProperties
  <2>4. Len(Requests(answered)) = 0
    BY <2>2, <2>3
  <2> QED BY <2>2, <2>4, EmptySeq
<1>7. [i \in DOMAIN answered |-> answered[i].request] = <<>>
  BY <1>6 DEF Requests
<1>8. Begun - Cardinality(AnsweredWhole) = 0
  BY <1>3, <1>4
<1> QED BY <1>1, <1>5, <1>7, <1>8 DEF Abstract!InboxInit

LEMMA InboxSteps ==
  ASSUME FramingInv, [Next]_vars
  PROVE  [Abstract!InboxNext]_(Abstract!inboxVars)
<1>1. ASSUME NEW request \in Sends, NEW tree \in Trees(request), Write(request, tree)
      PROVE  Abstract!InboxNext
  BY <1>1, WriteArrives DEF Abstract!InboxNext
<1>2. CASE Answer
  BY <1>2, AnswerAnswers DEF Abstract!InboxNext
<1>3. CASE Throw
  BY <1>3, ThrowThrows DEF Abstract!InboxNext
<1>4. CASE Deliver \/ Finished \/ UNCHANGED vars
  BY <1>4, DeliverStutters DEF Finished
<1> QED BY <1>1, <1>2, <1>3, <1>4 DEF Next

(* The bytes implement the queue that Server is built on: however requests *)
(* are cut, run together or left behind in the buffer, a read is one of    *)
(* those Frames allows, or throws where Frames says it may (socket::read,  *)
(* json::from, server::onSocket).                                           *)
THEOREM BytesImplementInbox == Spec => InboxSpec
<1>1. Init => Abstract!InboxInit
  BY InboxInitially
<1>2. FramingInv /\ [Next]_vars => [Abstract!InboxNext]_(Abstract!inboxVars)
  BY InboxSteps
<1> QED BY <1>1, <1>2, FramingHolds, PTL DEF Spec, InboxSpec, Abstract!InboxSpec
=============================================================================
