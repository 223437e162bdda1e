---------------------------- MODULE MessengerProofs -------------------------
(***************************************************************************)
(* Two clients in one room: nobody speaks unannounced, what the two users  *)
(* read is one conversation, and the first is, with the rest of the room   *)
(* for its environment, what Client says.                                  *)
(***************************************************************************)
EXTENDS Messenger, SequenceTheorems, FiniteSetTheorems, TLAPS

-----------------------------------------------------------------------------
(* The names whose login a connection can have been shown.  To a client    *)
(* they are the names that the server has accepted.                        *)
Announced(c, n, k) == \E j \in (joined[c] + 1)..k : log[j] = LoginResponse(n)

Known(c) == IF c \in present THEN { n \in Names : Announced(c, n, Len(log)) } ELSE {}

PA == INSTANCE ScreenProofs WITH
    user <- userA, Trouble <- TroubleA, Others <- {}, MaxOthers <- 0,
    taken <- Known("a"), others <- 0,
    app <- appA, state <- stateA, ui <- uiA, fragment <- fragmentA, draft <-
    draftA, looper <- looperA, screen <- screenA, address <- addressA, tasks
    <- tasksA, reader <- readerA, visited <- visitedA, sock <- sockA, lock
    <- lockA, link <- linkA, incoming <- incomingA, outgoing <- outgoingA,
    clicks <- clicksA, received <- receivedA

PB == INSTANCE ScreenProofs WITH
    user <- userB, Trouble <- TroubleB, Others <- {}, MaxOthers <- 0,
    taken <- Known("b"), others <- 0,
    app <- appB, state <- stateB, ui <- uiB, fragment <- fragmentB, draft <-
    draftB, looper <- looperB, screen <- screenB, address <- addressB, tasks
    <- tasksB, reader <- readerB, visited <- visitedB, sock <- sockB, lock
    <- lockB, link <- linkB, incoming <- incomingB, outgoing <- outgoingB,
    clicks <- clicksB, received <- receivedB

LEMMA KnownStays ==
  ASSUME UNCHANGED room, NEW c
  PROVE  Known(c)' = Known(c)
BY DEF room, Known, Announced

LEMMA OwnStepA ==
  ASSUME UNCHANGED room, A!OwnNext
  PROVE  PA!OwnNext
<1>0. Known("a")' = Known("a")
  BY KnownStays
<1> USE DEF A!view, PA!view, A!net, PA!net, A!conn, PA!conn
<1>1. A!UserNext => PA!UserNext
  BY <1>0
     DEF A!UserNext, PA!UserNext, A!Login, PA!Login, A!LoginUnknownHost, PA!LoginUnknownHost,
         A!Type, PA!Type, A!OnMsgSend, PA!OnMsgSend, A!Crash, PA!Crash, A!UIIdle, PA!UIIdle,
         A!Running, PA!Running, A!Blank, PA!Blank, A!MessageRequest, PA!MessageRequest
<1>2. A!LoginNext => PA!LoginNext
  BY <1>0
     DEF A!LoginNext, PA!LoginNext, A!LoginConnected, PA!LoginConnected, A!LoginSend,
         PA!LoginSend, A!LoginAttempted, PA!LoginAttempted, A!Running, PA!Running,
         A!LoginRequest, PA!LoginRequest
<1>3. A!PostedNext => PA!PostedNext
  BY <1>0
     DEF A!PostedNext, PA!PostedNext, A!RunCommit, PA!RunCommit, A!RunClear, PA!RunClear,
         A!RunRow, PA!RunRow, A!Post, PA!Post, A!UIIdle, PA!UIIdle, A!Running, PA!Running,
         A!Commit, PA!Commit, A!Clear, PA!Clear, A!Row, PA!Row, A!Blank, PA!Blank, A!Response,
         PA!Response, A!LoginResponse, PA!LoginResponse, A!MessageResponse,
         PA!MessageResponse, A!ServerError, PA!ServerError, A!SERVER_SENDER, PA!SERVER_SENDER,
         A!UNKNOWN_SENDER, PA!UNKNOWN_SENDER, A!ErrorCode, PA!ErrorCode
<1>4. A!TaskNext => PA!TaskNext
  BY <1>0
     DEF A!TaskNext, PA!TaskNext, A!TaskSends, PA!TaskSends, A!TaskTooEarly, PA!TaskTooEarly,
         A!Running, PA!Running, A!Crash, PA!Crash
<1>5. A!ReaderNext => PA!ReaderNext
  BY <1>0
     DEF A!ReaderNext, PA!ReaderNext, A!ReaderLocks, PA!ReaderLocks, A!ReaderConnects,
         PA!ReaderConnects, A!ReaderRefused, PA!ReaderRefused, A!ReaderEnds, PA!ReaderEnds,
         A!VisitThrows, PA!VisitThrows, A!VisitOwnLogin, PA!VisitOwnLogin, A!ShowRoomFragment,
         PA!ShowRoomFragment, A!Announce, PA!Announce, A!VisitOtherLogin, PA!VisitOtherLogin,
         A!VisitMessage, PA!VisitMessage, A!Read, PA!Read, A!Running, PA!Running, A!Crash,
         PA!Crash, A!Commit, PA!Commit, A!Clear, PA!Clear, A!Row, PA!Row, A!None, PA!None,
         A!LoginResponse, PA!LoginResponse, A!MessageResponse, PA!MessageResponse
<1> QED BY <1>1, <1>2, <1>3, <1>4, <1>5 DEF A!OwnNext, PA!OwnNext

LEMMA OwnStepB ==
  ASSUME UNCHANGED room, B!OwnNext
  PROVE  PB!OwnNext
<1>0. Known("b")' = Known("b")
  BY KnownStays
<1> USE DEF B!view, PB!view, B!net, PB!net, B!conn, PB!conn
<1>1. B!UserNext => PB!UserNext
  BY <1>0
     DEF B!UserNext, PB!UserNext, B!Login, PB!Login, B!LoginUnknownHost, PB!LoginUnknownHost,
         B!Type, PB!Type, B!OnMsgSend, PB!OnMsgSend, B!Crash, PB!Crash, B!UIIdle, PB!UIIdle,
         B!Running, PB!Running, B!Blank, PB!Blank, B!MessageRequest, PB!MessageRequest
<1>2. B!LoginNext => PB!LoginNext
  BY <1>0
     DEF B!LoginNext, PB!LoginNext, B!LoginConnected, PB!LoginConnected, B!LoginSend,
         PB!LoginSend, B!LoginAttempted, PB!LoginAttempted, B!Running, PB!Running,
         B!LoginRequest, PB!LoginRequest
<1>3. B!PostedNext => PB!PostedNext
  BY <1>0
     DEF B!PostedNext, PB!PostedNext, B!RunCommit, PB!RunCommit, B!RunClear, PB!RunClear,
         B!RunRow, PB!RunRow, B!Post, PB!Post, B!UIIdle, PB!UIIdle, B!Running, PB!Running,
         B!Commit, PB!Commit, B!Clear, PB!Clear, B!Row, PB!Row, B!Blank, PB!Blank, B!Response,
         PB!Response, B!LoginResponse, PB!LoginResponse, B!MessageResponse,
         PB!MessageResponse, B!ServerError, PB!ServerError, B!SERVER_SENDER, PB!SERVER_SENDER,
         B!UNKNOWN_SENDER, PB!UNKNOWN_SENDER, B!ErrorCode, PB!ErrorCode
<1>4. B!TaskNext => PB!TaskNext
  BY <1>0
     DEF B!TaskNext, PB!TaskNext, B!TaskSends, PB!TaskSends, B!TaskTooEarly, PB!TaskTooEarly,
         B!Running, PB!Running, B!Crash, PB!Crash
<1>5. B!ReaderNext => PB!ReaderNext
  BY <1>0
     DEF B!ReaderNext, PB!ReaderNext, B!ReaderLocks, PB!ReaderLocks, B!ReaderConnects,
         PB!ReaderConnects, B!ReaderRefused, PB!ReaderRefused, B!ReaderEnds, PB!ReaderEnds,
         B!VisitThrows, PB!VisitThrows, B!VisitOwnLogin, PB!VisitOwnLogin, B!ShowRoomFragment,
         PB!ShowRoomFragment, B!Announce, PB!Announce, B!VisitOtherLogin, PB!VisitOtherLogin,
         B!VisitMessage, PB!VisitMessage, B!Read, PB!Read, B!Running, PB!Running, B!Crash,
         PB!Crash, B!Commit, PB!Commit, B!Clear, PB!Clear, B!Row, PB!Row, B!None, PB!None,
         B!LoginResponse, PB!LoginResponse, B!MessageResponse, PB!MessageResponse
<1> QED BY <1>1, <1>2, <1>3, <1>4, <1>5 DEF B!OwnNext, PB!OwnNext

-----------------------------------------------------------------------------
(* What the two instances of Client assume of their constants.             *)
LEMMA Assumptions ==
  /\ Addresses \subseteq PA!Address /\ {} \subseteq PA!Response
  /\ Addresses \subseteq PB!Address /\ {} \subseteq PB!Response
  /\ 0 \in Nat /\ MaxClicks \in Nat /\ Oversize \subseteq Contents
BY AddressesAssumption, BoundAssumption, OversizeAssumption DEF A!Address, PA!Address, PB!Address

LEMMA Vocabularies ==
  /\ PA!Response = Response /\ PA!Request = Request
  /\ PB!Response = Response /\ PB!Request = Request
  /\ \A n : PA!LoginResponse(n) = LoginResponse(n) /\ PB!LoginResponse(n) = LoginResponse(n)
<1>1. PA!Response = Response
  BY
     DEF PA!Response, Response, PA!LoginResponse, LoginResponse, PA!MessageResponse,
         MessageResponse,
         PA!ServerError, ServerError, PA!SERVER_SENDER, SERVER_SENDER, PA!UNKNOWN_SENDER,
         UNKNOWN_SENDER, PA!ErrorCode, ErrorCode
<1>2. PA!Request = Request
  BY DEF PA!Request, Request, PA!LoginRequest, LoginRequest, PA!MessageRequest, MessageRequest,
         PA!Malformed, Malformed, PA!Untagged, Untagged, PA!UnknownTag, UnknownTag,
         PA!Incomplete, Incomplete
<1>3. PB!Response = Response
  BY
     DEF PB!Response, Response, PB!LoginResponse, LoginResponse, PB!MessageResponse,
         MessageResponse,
         PB!ServerError, ServerError, PB!SERVER_SENDER, SERVER_SENDER, PB!UNKNOWN_SENDER,
         UNKNOWN_SENDER, PB!ErrorCode, ErrorCode
<1>4. PB!Request = Request
  BY DEF PB!Request, Request, PB!LoginRequest, LoginRequest, PB!MessageRequest, MessageRequest,
         PB!Malformed, Malformed, PB!Untagged, Untagged, PB!UnknownTag, UnknownTag,
         PB!Incomplete, Incomplete
<1> QED BY <1>1, <1>2, <1>3, <1>4 DEF PA!LoginResponse, PB!LoginResponse, LoginResponse

(* The kinds of responses.                                                 *)
LEMMA Kinds ==
  /\ \A n \in Names : LoginResponse(n) \in Response
       /\ LoginResponse(n).type = "LoginResponse" /\ LoginResponse(n).joiningUsername = n
  /\ \A n \in Names, p \in Contents :
       /\ MessageResponse(n, p) \in Response
       /\ MessageResponse(n, p).type = "MessageResponse"
       /\ MessageResponse(n, p).originator = n
  /\ NameInUse \in Response /\ NameInUse.type = "ServerError"
<1>1. "USER_NAME_IN_USE" \in ErrorCode
  BY DEF ErrorCode
<1>2. NameInUse \in Response /\ NameInUse.type = "ServerError"
  BY <1>1 DEF Response, NameInUse, ServerError
<1>3. \A n \in Names : LoginResponse(n) \in Response
  BY DEF Response
<1>4. \A n \in Names, p \in Contents : MessageResponse(n, p) \in Response
  BY DEF Response
<1> QED BY <1>2, <1>3, <1>4 DEF LoginResponse, MessageResponse

-----------------------------------------------------------------------------
(* The room.  A name is logged in once; whoever speaks is connected and    *)
(* has been shown a login under the name.                                  *)
RoomType ==
  /\ log \in Seq(Response) /\ origin \in Seq(Conns) /\ Len(origin) = Len(log)
  /\ present \subseteq Conns
  /\ joined \in [Conns -> Nat] /\ delivered \in [Conns -> Seq(Response)]
  /\ \A c \in Conns : c \notin present => delivered[c] = <<>>
  /\ \A c \in Conns : joined[c] + Len(delivered[c]) <= Len(log)

OneLogin ==
  \A i, j \in DOMAIN log : log[i].type = "LoginResponse" /\ log[i] = log[j] => i = j

Spoken ==
  \A i \in DOMAIN log : log[i].type = "MessageResponse" =>
    origin[i] \in present /\ Announced(origin[i], log[i].originator, i - 1)

RoomInv == RoomType /\ OneLogin /\ Spoken

(* What a connection was handed is the conversation from where it joined:  *)
(* heard is what its client has received or is about to.                   *)
Hears(c, heard, link) ==
  /\ \A i \in DOMAIN heard :
       c \in present /\ joined[c] + i \in DOMAIN log /\ heard[i] = log[joined[c] + i]
  /\ link = "accepted" => c \in present /\ Len(heard) = Len(delivered[c])

LEMMA KnownNames == \A c : Known(c) \subseteq Names
BY DEF Known

(* Someone enters.                                                         *)
LEMMA Enters ==
  ASSUME RoomInv, NEW c \in Conns, Enter(c), UNCHANGED origin
  PROVE  /\ RoomInv'
         /\ \A d \in Conns : Known(d)' = Known(d)
         /\ \A d \in Conns \ {c} : \A heard, link : Hears(d, heard, link) => Hears(d, heard, link)'
         /\ \A heard \in Seq(Response) : \A link :
              Hears(c, heard, link) => Hears(c, heard, "accepted")'
<1>1. /\ c \notin present /\ present' = present \cup {c} /\ log' = log /\ delivered' = delivered
      /\ joined' = [joined EXCEPT ![c] = Len(log)] /\ Len(log) \in Nat
      /\ DOMAIN log = 1..Len(log)
  BY LenProperties DEF Enter, RoomInv, RoomType
<1>2. \A d \in Conns \ {c} : joined'[d] = joined[d]
  BY <1>1 DEF RoomInv, RoomType
<1>3. joined'[c] = Len(log)
  BY <1>1 DEF RoomInv, RoomType
<1>4. RoomType'
  <2>1. \A d \in Conns : joined'[d] + Len(delivered'[d]) <= Len(log')
    <3>1. delivered[c] = <<>>
      BY <1>1 DEF RoomInv, RoomType
    <3>2. joined'[c] + Len(delivered'[c]) <= Len(log')
      BY <1>1, <1>3, <3>1
    <3>3. \A d \in Conns \ {c} : joined'[d] + Len(delivered'[d]) <= Len(log')
      BY <1>1, <1>2 DEF RoomInv, RoomType
    <3> QED BY <3>2, <3>3
  <2>2. joined' \in [Conns -> Nat] /\ present' \subseteq Conns
    BY <1>1 DEF RoomInv, RoomType
  <2> QED BY <1>1, <2>1, <2>2 DEF RoomInv, RoomType
<1>5. OneLogin'
  BY <1>1 DEF RoomInv, OneLogin
<1>6. \A d \in Conns \ {c} : \A n, k : Announced(d, n, k)' <=> Announced(d, n, k)
  BY <1>1, <1>2 DEF Announced
<1>7. ASSUME NEW i \in DOMAIN log', log'[i].type = "MessageResponse"
      PROVE  origin'[i] \in present' /\ Announced(origin[i], log[i].originator, i - 1)'
  <2>1. origin[i] \in present /\ Announced(origin[i], log[i].originator, i - 1)
    BY <1>1, <1>7 DEF RoomInv, Spoken
  <2>2. origin[i] \in Conns \ {c}
    BY <1>1, <2>1 DEF RoomInv, RoomType
  <2> QED BY <1>1, <1>2, <2>1, <2>2 DEF Announced
<1>8. Spoken'
  BY <1>1, <1>7 DEF Spoken, Announced
<1>9. Known(c)' = {} /\ Known(c) = {}
  BY <1>1, <1>3 DEF Known, Announced
<1>10. \A d \in Conns \ {c} : Known(d)' = Known(d)
  BY <1>1, <1>2 DEF Known, Announced
<1>11. ASSUME NEW d \in Conns \ {c}, NEW heard, NEW link, Hears(d, heard, link)
       PROVE  Hears(d, heard, link)'
  BY <1>1, <1>2, <1>11 DEF Hears
<1>12. ASSUME NEW heard \in Seq(Response), NEW link, Hears(c, heard, link)
       PROVE  Hears(c, heard, "accepted")'
  <2>0. DOMAIN heard = {} /\ DOMAIN heard = 1..Len(heard) /\ Len(heard) \in Nat
    BY <1>1, <1>12, LenProperties DEF Hears
  <2>1. DOMAIN heard = {} /\ Len(heard) = 0
    BY <2>0
  <2>2. delivered'[c] = <<>>
    BY <1>1 DEF RoomInv, RoomType
  <2> QED BY <1>1, <2>1, <2>2 DEF Hears
<1> QED BY <1>4, <1>5, <1>8, <1>9, <1>10, <1>11, <1>12 DEF RoomInv

(* Someone who is present is answered.                                     *)
LEMMA Publishes ==
  ASSUME RoomInv, NEW c \in present, NEW r \in Response, Publish(r), origin' = Append(origin, c),
         r.type = "LoginResponse" => \A i \in DOMAIN log : log[i] # r,
         r.type = "MessageResponse" => Announced(c, r.originator, Len(log))
  PROVE  /\ RoomInv'
         /\ \A d \in Conns : Known(d) \subseteq Known(d)'
         /\ \A d \in Conns : \A heard, link : Hears(d, heard, link) => Hears(d, heard, link)'
<1>1. /\ log' = Append(log, r) /\ UNCHANGED <<present, joined, delivered>>
      /\ log \in Seq(Response) /\ origin \in Seq(Conns) /\ Len(origin) = Len(log)
      /\ c \in Conns
  BY DEF Publish, RoomInv, RoomType
<1>2. /\ Len(log) \in Nat /\ DOMAIN log = 1..Len(log) /\ log' \in Seq(Response)
      /\ Len(log') = Len(log) + 1 /\ DOMAIN log' = 1..(Len(log) + 1)
      /\ \A i \in 1..Len(log) : log'[i] = log[i]
      /\ log'[Len(log) + 1] = r
  BY <1>1, AppendProperties, LenProperties
<1>3. /\ origin' \in Seq(Conns) /\ Len(origin') = Len(log) + 1
      /\ \A i \in 1..Len(log) : origin'[i] = origin[i]
      /\ origin'[Len(log) + 1] = c
  BY <1>1, AppendProperties, LenProperties
<1>4. RoomType'
  <2>1. \A d \in Conns : joined'[d] + Len(delivered'[d]) <= Len(log')
    <3>1. ASSUME NEW d \in Conns PROVE joined'[d] + Len(delivered'[d]) <= Len(log')
      <4>1. /\ joined[d] + Len(delivered[d]) <= Len(log) /\ joined[d] \in Nat
            /\ Len(delivered[d]) \in Nat
        BY LenProperties DEF RoomInv, RoomType
      <4> QED BY <1>1, <1>2, <4>1
    <3> QED BY <3>1
  <2> QED BY <1>1, <1>2, <1>3, <2>1 DEF RoomInv, RoomType
<1>5. OneLogin'
  BY <1>2 DEF RoomInv, OneLogin
<1>6. ASSUME NEW d \in Conns, NEW n, NEW k \in 0..Len(log), Announced(d, n, k)
      PROVE  Announced(d, n, k)'
  <2>1. PICK j \in (joined[d] + 1)..k : log[j] = LoginResponse(n)
    BY <1>6 DEF Announced
  <2>2. joined[d] \in Nat
    BY DEF RoomInv, RoomType
  <2>3. j \in 1..Len(log)
    BY <1>2, <2>1, <2>2
  <2> QED BY <1>1, <1>2, <2>1, <2>3 DEF Announced
<1>7. ASSUME NEW i \in DOMAIN log', log'[i].type = "MessageResponse"
      PROVE  origin'[i] \in present' /\ Announced(origin[i], log[i].originator, i - 1)'
  <2>1. CASE i \in DOMAIN log
    <3>1. log'[i] = log[i] /\ origin'[i] = origin[i] /\ i - 1 \in 0..Len(log)
      BY <1>2, <1>3, <2>1
    <3>2. origin[i] \in present /\ Announced(origin[i], log[i].originator, i - 1)
      BY <1>7, <2>1, <3>1 DEF RoomInv, Spoken
    <3>3. origin[i] \in Conns
      BY <3>2 DEF RoomInv, RoomType
    <3>4. PICK j \in (joined[origin[i]] + 1)..(i - 1) : log[j] = LoginResponse(log[i].originator)
      BY <3>2 DEF Announced
    <3>5. joined[origin[i]] \in Nat
      BY <3>3 DEF RoomInv, RoomType
    <3>6. j \in 1..Len(log)
      BY <1>2, <2>1, <3>4, <3>5
    <3>7. log'[j] = log[j]
      BY <1>2, <3>6
    <3> QED BY <1>1, <3>1, <3>2, <3>4, <3>7 DEF Announced
  <2>2. CASE i = Len(log) + 1
    <3>1. log'[i] = r /\ origin'[i] = c /\ i - 1 = Len(log)
      BY <1>2, <1>3, <2>2
    <3>2. PICK j \in (joined[c] + 1)..Len(log) : log[j] = LoginResponse(r.originator)
      BY <1>7, <3>1 DEF Announced
    <3>3. joined[c] \in Nat
      BY <1>1 DEF RoomInv, RoomType
    <3>4. log'[j] = log[j]
      BY <1>2, <3>2, <3>3
    <3>5. j \in (joined'[origin'[i]] + 1)..(i - 1) /\ log'[j] = LoginResponse(log'[i].originator)
      BY <1>1, <3>1, <3>2, <3>4
    <3>6. \E k \in (joined'[origin'[i]] + 1)..(i - 1) : log'[k] = LoginResponse(log'[i].originator)
      BY <3>5
    <3>7. origin'[i] \in present'
      BY <1>1, <3>1
    <3> QED BY <3>6, <3>7 DEF Announced
  <2>3. i \in DOMAIN log \/ i = Len(log) + 1
    BY <1>2
  <2> QED BY <2>1, <2>2, <2>3
<1>8. Spoken'
  BY <1>7 DEF Spoken, Announced
<1>9. ASSUME NEW d \in Conns PROVE Known(d) \subseteq Known(d)'
  <2>1. CASE d \notin present
    BY <2>1 DEF Known
  <2>2. ASSUME d \in present, NEW n \in Names, Announced(d, n, Len(log))
        PROVE  n \in Known(d)'
    <3>1. PICK j \in (joined[d] + 1)..Len(log) : log[j] = LoginResponse(n)
      BY <2>2 DEF Announced
    <3>2. joined[d] \in Nat
      BY DEF RoomInv, RoomType
    <3>3. j \in (joined[d] + 1)..(Len(log) + 1) /\ log'[j] = log[j]
      BY <1>2, <3>1, <3>2
    <3> QED BY <1>1, <1>2, <2>2, <3>1, <3>3 DEF Known, Announced
  <2> QED BY <2>1, <2>2 DEF Known
<1>10. ASSUME NEW d \in Conns, NEW heard, NEW link, Hears(d, heard, link)
       PROVE  Hears(d, heard, link)'
  BY <1>1, <1>2, <1>10 DEF Hears
<1> QED BY <1>4, <1>5, <1>8, <1>9, <1>10 DEF RoomInv

(* Someone is shown what comes next.                                       *)
LEMMA Shows ==
  ASSUME RoomInv, NEW c \in Conns, Show(c), UNCHANGED origin
  PROVE  /\ RoomInv'
         /\ \A d \in Conns : Known(d)' = Known(d)
         /\ \A d \in Conns \ {c} : \A heard, link :
              Hears(d, heard, link) => Hears(d, heard, link)'
         /\ \E r \in Response :
              /\ delivered'[c][Len(delivered'[c])] = r
              /\ \A n \in Names : r = LoginResponse(n) => n \in Known(c)
              /\ \A heard \in Seq(Response) :
                   Hears(c, heard, "accepted") => Hears(c, Append(heard, r), "accepted")'
<1> DEFINE next == joined[c] + Len(delivered[c]) + 1
<1>1. /\ c \in present /\ next <= Len(log) /\ UNCHANGED <<log, present, joined>>
      /\ delivered' = [delivered EXCEPT ![c] = Append(@, log[next])]
  BY DEF Show
<1>2. /\ log \in Seq(Response) /\ DOMAIN log = 1..Len(log) /\ Len(log) \in Nat
      /\ joined[c] \in Nat /\ delivered[c] \in Seq(Response) /\ Len(delivered[c]) \in Nat
      /\ delivered \in [Conns -> Seq(Response)]
  BY LenProperties DEF RoomInv, RoomType
<1>3. next \in DOMAIN log /\ log[next] \in Response
  BY <1>1, <1>2, ElementOfSeq
<1>r. PICK r \in Response : r = log[next]
  BY <1>3
<1>4. /\ delivered'[c] = Append(delivered[c], log[next])
      /\ \A d \in Conns \ {c} : delivered'[d] = delivered[d]
  BY <1>1, <1>2
<1>5. /\ delivered'[c] \in Seq(Response) /\ Len(delivered'[c]) = Len(delivered[c]) + 1
      /\ delivered'[c][Len(delivered'[c])] = r
  BY <1>2, <1>3, <1>4, <1>r, AppendProperties
<1>6. delivered' \in [Conns -> Seq(Response)]
  BY <1>1, <1>2, <1>4, <1>5
<1>7. RoomType'
  <2>1. joined[c] + Len(delivered'[c]) <= Len(log)
    <3>1. \A a, b, d \in Nat : a + b + 1 <= d => a + (b + 1) <= d
      OBVIOUS
    <3> QED BY <1>1, <1>2, <1>5, <3>1
  <2>2. \A d \in Conns : joined'[d] + Len(delivered'[d]) <= Len(log')
    BY <1>1, <1>4, <2>1 DEF RoomInv, RoomType
  <2> QED BY <1>1, <1>4, <1>6, <2>2 DEF RoomInv, RoomType
<1>8. OneLogin' /\ Spoken'
  BY <1>1 DEF RoomInv, OneLogin, Spoken, Announced
<1>9. \A d \in Conns : Known(d)' = Known(d)
  BY <1>1 DEF Known, Announced
<1>10. ASSUME NEW n \in Names, r = LoginResponse(n) PROVE n \in Known(c)
  <2>1. next \in (joined[c] + 1)..Len(log)
    BY <1>1, <1>2
  <2> QED BY <1>1, <1>r, <1>10, <2>1 DEF Known, Announced
<1>11. ASSUME NEW d \in Conns \ {c}, NEW heard, NEW link, Hears(d, heard, link)
       PROVE  Hears(d, heard, link)'
  BY <1>1, <1>4, <1>11 DEF Hears
<1>12. ASSUME NEW heard \in Seq(Response), Hears(c, heard, "accepted")
       PROVE  Hears(c, Append(heard, r), "accepted")'
  <2> DEFINE more == Append(heard, r)
  <2>1. /\ DOMAIN heard = 1..Len(heard) /\ Len(heard) \in Nat /\ DOMAIN more = 1..(Len(heard) + 1)
        /\ Len(more) = Len(heard) + 1
        /\ \A i \in 1..Len(heard) : more[i] = heard[i]
        /\ more[Len(heard) + 1] = r
    BY AppendProperties, LenProperties
  <2> HIDE DEF more
  <2>2. Len(heard) = Len(delivered[c])
    BY <1>12 DEF Hears
  <2>3. ASSUME NEW i \in DOMAIN more
        PROVE  joined'[c] + i \in DOMAIN log' /\ more[i] = log'[joined'[c] + i]
    <3>1. CASE i \in DOMAIN heard
      BY <1>1, <1>12, <2>1, <3>1 DEF Hears
    <3>2. CASE i = Len(heard) + 1
      <4>1. joined[c] + i = next
        <5>1. \A a, b \in Nat : a + (b + 1) = a + b + 1
          OBVIOUS
        <5> QED BY <1>2, <2>2, <3>2, <5>1
      <4> QED BY <1>1, <1>3, <1>r, <2>1, <3>2, <4>1
    <3> QED BY <2>1, <3>1, <3>2
  <2>4. Len(more) = Len(delivered'[c])
    BY <1>5, <2>1, <2>2
  <2>5. c \in present'
    BY <1>1
  <2>6. Hears(c, more, "accepted")'
    BY <2>3, <2>4, <2>5 DEF Hears
  <2> QED BY <2>6 DEF more
<1> QED BY <1>5, <1>7, <1>8, <1>9, <1>10, <1>11, <1>12 DEF RoomInv

(* The answer to a request: a login is accepted under a name that nobody   *)
(* has, or refused, and a message is published under the name it bears.    *)
LEMMA AnswerIs ==
  ASSUME NEW q, Answer(q)
  PROVE  \E r \in Response :
           /\ Publish(r)
           /\ r.type = "LoginResponse" => \A i \in DOMAIN log : log[i] # r
           /\ r.type = "MessageResponse" => r.originator = q.sender /\ q.type = "MessageRequest"
<1>1. ASSUME NEW n \in Names, Refuse
      PROVE  \E r \in Response : Publish(r) /\ r.type = "ServerError"
  BY <1>1, Kinds DEF Refuse
<1>2. ASSUME NEW n \in Names, LogIn(n)
      PROVE  \E r \in Response :
               Publish(r) /\ r.type = "LoginResponse" /\ \A i \in DOMAIN log : log[i] # r
  <2>1. Publish(LoginResponse(n)) /\ \A i \in DOMAIN log : log[i] # LoginResponse(n)
    BY <1>2 DEF LogIn, Users
  <2> QED BY <2>1, Kinds
<1>3. ASSUME NEW n \in Names, NEW p \in Contents, q = MessageRequest(n, p), Say(n, p)
      PROVE  \E r \in Response :
               /\ Publish(r) /\ r.type = "MessageResponse"
               /\ r.originator = q.sender /\ q.type = "MessageRequest"
  <2>1. q.sender = n /\ q.type = "MessageRequest"
    BY <1>3 DEF MessageRequest
  <2> QED BY <1>3, <2>1, Kinds DEF Say
<1>4. CASE \E n \in Names :
             q = LoginRequest(n) /\ (IF n \in Users THEN Refuse ELSE LogIn(n))
  BY <1>1, <1>2, <1>4
<1>5. CASE \E n \in Names, p \in Contents : q = MessageRequest(n, p) /\ Say(n, p)
  BY <1>3, <1>5
<1> QED BY <1>4, <1>5 DEF Answer

-----------------------------------------------------------------------------
(* The first client: it relies on what it hears being what the room says.  *)
FineA == PA!ClientInv /\ Hears("a", PA!Heard, linkA)

LEMMA InitA == Init => FineA
<1> SUFFICES ASSUME Init PROVE FineA
  OBVIOUS
<1>1. Known("a") = {}
  BY DEF Init, RoomInit, Known
<1>2. userA \in Names /\ A!Init
  BY DEF Init, A!Init
<1>3. PA!Init
  BY <1>1, <1>2 DEF A!Init, PA!Init, A!Blank, PA!Blank, A!None, PA!None
<1>4. PA!ClientInv
  BY <1>3, Assumptions, PA!ClientInit
<1>5. PA!Heard = <<>> /\ linkA = "none"
  BY <1>3 DEF PA!Init, PA!Heard
<1> QED BY <1>4, <1>5 DEF FineA, Hears

(* A name is logged in once, so a client hears of its own login once.      *)
LEMMA OwnOnceA ==
  ASSUME RoomInv, FineA
  PROVE  PA!OwnOnce
<1> DEFINE heard == PA!Heard
<1>1. /\ userA \in Names /\ "a" \in Conns
      /\ PA!Own = LoginResponse(userA) /\ PA!Own.type = "LoginResponse"
  BY ConnsAssumption, Vocabularies, Kinds DEF FineA, PA!ClientInv, PA!TypeOK, PA!Own
<1>2. /\ \A i \in DOMAIN heard :
           "a" \in present /\ joined["a"] + i \in DOMAIN log /\ heard[i] = log[joined["a"] + i]
      /\ joined["a"] \in Nat /\ DOMAIN log = 1..Len(log) /\ Len(log) \in Nat
  BY <1>1, LenProperties DEF FineA, Hears, RoomInv, RoomType
<1>3. \A i \in DOMAIN heard : i \in Nat \ {0}
  <2>1. heard \in Seq(PA!Response)
    BY ConcatProperties DEF PA!Heard, FineA, PA!ClientInv, PA!TypeOK
  <2>2. DOMAIN heard = 1..Len(heard) /\ Len(heard) \in Nat
    BY <2>1, LenProperties
  <2> QED BY <2>2
<1> HIDE DEF heard
<1>4. ASSUME NEW i \in DOMAIN heard, heard[i] = LoginResponse(userA) PROVE userA \in Known("a")
  <2>1. joined["a"] + i \in (joined["a"] + 1)..Len(log) /\ log[joined["a"] + i] = LoginResponse(userA)
    BY <1>2, <1>3, <1>4
  <2> QED BY <1>1, <1>2, <1>4, <2>1 DEF Known, Announced
<1>5. ASSUME NEW i \in DOMAIN heard, NEW j \in DOMAIN heard,
             heard[i] = LoginResponse(userA), heard[j] = LoginResponse(userA)
      PROVE  i = j
  <2>1. joined["a"] + i = joined["a"] + j
    BY <1>1, <1>2, <1>5 DEF RoomInv, OneLogin
  <2> QED BY <1>2, <1>3, <2>1
<1> QED BY <1>1, <1>4, <1>5 DEF PA!OwnOnce, heard

(* What the room does for the other leaves it where it is.                 *)
LEMMA BystanderA ==
  ASSUME FineA, UNCHANGED allA, Known("a") \subseteq Known("a")',
         \A heard, link : Hears("a", heard, link) => Hears("a", heard, link)'
  PROVE  FineA'
<1>1. PA!ClientInv /\ Known("a")' \subseteq Names
  BY DEF FineA, Known
<1>2. /\ UNCHANGED <<appA, stateA, uiA, PA!view, looperA, PA!conn, tasksA, readerA, visitedA, linkA,
                     0, clicksA, receivedA>>
      /\ incomingA' = incomingA /\ outgoingA' = outgoingA
  BY DEF allA, restA, PA!view, PA!conn
<1>3. PA!ClientInv'
  BY <1>1, <1>2, Assumptions, PA!ClientWaits
<1>4. PA!Heard' = PA!Heard /\ linkA' = linkA
  BY <1>2 DEF PA!Heard
<1>5. Hears("a", PA!Heard, linkA)'
  <2>1. PICK heard : heard = PA!Heard
    OBVIOUS
  <2>2. PICK link : link = linkA
    OBVIOUS
  <2>3. Hears("a", heard, link)'
    BY <2>1, <2>2 DEF FineA
  <2> QED BY <1>4, <2>1, <2>2, <2>3
<1> QED BY <1>3, <1>5 DEF FineA

(* Its own steps.                                                          *)
LEMMA ActsA ==
  ASSUME RoomInv, FineA, ActA
  PROVE  FineA'
<1>1. /\ UNCHANGED <<log, present, joined, delivered>> /\ Known("a")' = Known("a")
      /\ PA!ClientInv /\ PA!TypeOK
  BY KnownStays DEF ActA, AloneA, room, FineA, PA!ClientInv
<1>2. PA!OwnOnce
  BY OwnOnceA
<1>3. CASE A!OwnNext
  <2>1. PA!OwnNext
    BY <1>3, OwnStepA DEF ActA, AloneA
  <2>2. PA!ClientInv'
    BY <1>1, <1>2, <2>1, Assumptions, PA!ClientStep DEF PA!Next
  <2>3. PA!Heard' = PA!Heard /\ (linkA' = linkA \/ linkA' = "made")
    BY <1>1, <2>1, Assumptions, PA!HeardStays
  <2>4. Hears("a", PA!Heard, linkA)'
    BY <1>1, <2>3 DEF FineA, Hears
  <2> QED BY <2>2, <2>4 DEF FineA
<1>4. CASE A!LinkLost
  <2>1. PA!LinkLost
    BY <1>1, <1>4 DEF A!LinkLost, PA!LinkLost, A!view, PA!view, A!conn, PA!conn
  <2>2. PA!ClientInv'
    BY <1>1, <1>2, <2>1, Assumptions, PA!ClientStep DEF PA!Next, PA!NetNext
  <2>3. /\ linkA' = "lost"
        /\ \A i \in DOMAIN PA!Heard' : i \in DOMAIN PA!Heard /\ PA!Heard'[i] = PA!Heard[i]
    BY <1>1, <2>1, Assumptions, PA!HeardCut
  <2>4. Hears("a", PA!Heard, linkA)'
    BY <1>1, <2>3 DEF FineA, Hears
  <2> QED BY <2>2, <2>4 DEF FineA
<1> QED BY <1>3, <1>4 DEF ActA

(* It is accepted,                                                         *)
LEMMA EntersA ==
  ASSUME RoomInv, FineA, EnterA
  PROVE  RoomInv' /\ FineA'
<1>1. /\ Enter("a") /\ UNCHANGED origin /\ "a" \in Conns
      /\ PA!ClientInv /\ PA!TypeOK
  BY ConnsAssumption DEF EnterA, FineA, PA!ClientInv
<1>2. /\ RoomInv' /\ Known("a")' = Known("a")
      /\ \A heard \in Seq(Response) : \A link : Hears("a", heard, link) => Hears("a", heard, "accepted")'
  BY <1>1, Enters
<1>3. PA!Accept
  BY <1>2 DEF EnterA, A!Accept, PA!Accept, A!view, PA!view, A!conn, PA!conn
<1>4. PA!ClientInv'
  BY <1>1, <1>3, OwnOnceA, Assumptions, PA!ClientStep DEF PA!Next, PA!NetNext
<1>5. PA!Heard' = PA!Heard /\ linkA' = "accepted" /\ PA!Heard \in Seq(Response)
  <2>1. PA!Heard \in Seq(PA!Response)
    BY <1>1, ConcatProperties DEF PA!Heard, PA!TypeOK
  <2> QED BY <1>3, <2>1, Vocabularies DEF PA!Accept, PA!Heard
<1>6. Hears("a", PA!Heard, linkA)'
  <2>1. PICK heard \in Seq(Response) : heard = PA!Heard
    BY <1>5
  <2>2. Hears("a", heard, linkA)
    BY <2>1 DEF FineA
  <2>3. Hears("a", heard, "accepted")'
    BY <1>2, <2>2
  <2> QED BY <1>5, <2>1, <2>3
<1> QED BY <1>2, <1>4, <1>6 DEF FineA

(* its request is answered, and if that is a message it has been shown a   *)
(* login under its name, or it would not have sent it,                     *)
LEMMA AnswersA ==
  ASSUME RoomInv, FineA, AnswerA
  PROVE  /\ RoomInv' /\ FineA'
         /\ \A d \in Conns : Known(d) \subseteq Known(d)'
         /\ \A d \in Conns : \A heard, link : Hears(d, heard, link) => Hears(d, heard, link)'
<1> DEFINE q == Head(outgoingA)
<1>1. /\ linkA = "accepted" /\ outgoingA # <<>> /\ Answer(q) /\ outgoingA' = Tail(outgoingA)
      /\ origin' = Append(origin, "a") /\ UNCHANGED <<restA, incomingA>>
      /\ PA!ClientInv /\ "a" \in Conns
  BY ConnsAssumption DEF AnswerA, FineA
<1>2. "a" \in present
  BY <1>1 DEF FineA, Hears
<1>3. outgoingA \in Seq(PA!Request) /\ userA \in Names
  BY <1>1 DEF PA!ClientInv, PA!TypeOK
<1>4. 1 \in DOMAIN outgoingA /\ q = outgoingA[1]
  BY <1>1, <1>3, HeadTailProperties, LenProperties
<1> HIDE DEF q
<1>5. q.sender = userA
  <2>1. q \in PA!Signed
    BY <1>1, <1>4 DEF PA!ClientInv, PA!SignedInv
  <2> QED BY <2>1 DEF PA!Signed, PA!LoginRequest, PA!MessageRequest
<1>6. q.type = "MessageRequest" => Announced("a", userA, Len(log))
  <2>1. q.type = "MessageRequest" => userA \in Known("a")
    BY <1>1, <1>4 DEF PA!ClientInv, PA!AcceptedInv
  <2> QED BY <2>1 DEF Known
<1>7. PICK r \in Response :
        /\ Publish(r)
        /\ r.type = "LoginResponse" => \A i \in DOMAIN log : log[i] # r
        /\ r.type = "MessageResponse" => r.originator = q.sender /\ q.type = "MessageRequest"
  BY <1>1, AnswerIs
<1>8. r.type = "MessageResponse" => Announced("a", r.originator, Len(log))
  BY <1>5, <1>6, <1>7
<1>9. /\ RoomInv'
      /\ \A d \in Conns : Known(d) \subseteq Known(d)'
      /\ \A d \in Conns : \A heard, link : Hears(d, heard, link) => Hears(d, heard, link)'
  BY <1>1, <1>2, <1>7, <1>8, Publishes
<1>10. /\ UNCHANGED <<appA, stateA, uiA, PA!view, looperA, PA!conn, tasksA, readerA, visitedA, linkA,
                      0, clicksA, receivedA>>
       /\ incomingA' = incomingA /\ Known("a")' \subseteq Names /\ Known("a") \subseteq Known("a")'
  BY <1>1, <1>9 DEF restA, PA!view, PA!conn, Known
<1>11. PA!ClientInv'
  BY <1>1, <1>10, Assumptions, PA!ClientWaits
<1>12. Hears("a", PA!Heard, linkA)'
  <2>1. PICK heard : heard = PA!Heard
    OBVIOUS
  <2>2. PICK link : link = linkA
    OBVIOUS
  <2>3. Hears("a", heard, link)'
    BY <1>1, <1>9, <2>1, <2>2 DEF FineA
  <2>4. PA!Heard' = PA!Heard /\ linkA' = linkA
    BY <1>10 DEF PA!Heard
  <2> QED BY <2>1, <2>2, <2>3, <2>4
<1> QED BY <1>9, <1>11, <1>12 DEF FineA

(* and it is shown the next response.                                      *)
LEMMA ShowsA ==
  ASSUME RoomInv, FineA, ShowA
  PROVE  RoomInv' /\ FineA'
<1>1. /\ linkA = "accepted" /\ Show("a") /\ UNCHANGED <<origin, restA, outgoingA>>
      /\ incomingA' = Append(incomingA, delivered'["a"][Len(delivered'["a"])])
      /\ PA!ClientInv /\ "a" \in Conns
  BY ConnsAssumption DEF ShowA, FineA
<1>2. /\ receivedA \in Seq(Response) /\ incomingA \in Seq(Response) /\ userA \in Names
      /\ PA!Heard \in Seq(Response)
  BY <1>1, Vocabularies, ConcatProperties DEF PA!ClientInv, PA!TypeOK, PA!Heard
<1>3. RoomInv' /\ Known("a")' = Known("a")
  BY <1>1, Shows
<1>4. PICK r \in Response :
        /\ delivered'["a"][Len(delivered'["a"])] = r
        /\ \A n \in Names : r = LoginResponse(n) => n \in Known("a")
        /\ \A heard \in Seq(Response) :
             Hears("a", heard, "accepted") => Hears("a", Append(heard, r), "accepted")'
  BY <1>1, Shows
<1>5. /\ UNCHANGED <<appA, stateA, uiA, PA!view, looperA, PA!conn, tasksA, readerA, visitedA, linkA,
                     0, clicksA, receivedA>>
      /\ outgoingA' = outgoingA /\ incomingA' = Append(incomingA, r)
      /\ Known("a")' \subseteq Names /\ Known("a") \subseteq Known("a")'
  BY <1>1, <1>3, <1>4 DEF restA, PA!view, PA!conn, Known
<1>6. r \in PA!Response /\ (r = PA!LoginResponse(userA) => userA \in Known("a")')
  BY <1>2, <1>3, <1>4, Vocabularies
<1>7. PA!ClientInv'
  BY <1>1, <1>5, <1>6, Assumptions, PA!ClientWaits
<1>8. PA!Heard' = Append(PA!Heard, r)
  <2>1. receivedA \in Seq(PA!Response) /\ incomingA \in Seq(PA!Response)
    BY <1>2, Vocabularies
  <2> QED BY <1>5, <1>6, <2>1, PA!ReplyAppends DEF PA!Heard
<1>9. Hears("a", PA!Heard, linkA)'
  <2>1. PICK heard \in Seq(Response) : heard = PA!Heard
    BY <1>2
  <2>2. Hears("a", heard, "accepted")
    BY <1>1, <2>1 DEF FineA
  <2>3. Hears("a", Append(heard, r), "accepted")'
    BY <1>4, <2>2
  <2>4. linkA' = "accepted"
    BY <1>1, <1>5
  <2> QED BY <1>8, <2>1, <2>3, <2>4
<1> QED BY <1>3, <1>7, <1>9 DEF FineA

(* So its screen shows what the room has said.                             *)
LEMMA ReadsA ==
  ASSUME RoomInv, FineA, A!RowCount > 0
  PROVE  \E k \in DOMAIN log : A!Stretch(log, k)
<1>1. A!RowCount = PA!RowCount /\ \A k : A!Stretch(log, k) <=> PA!Stretch(log, k)
  BY DEF A!RowCount, PA!RowCount, A!Stretch, PA!Stretch, A!Posted, PA!Posted, A!RowNo, PA!RowNo,
         A!Cardinality, PA!Cardinality
<1>2. PA!TypeOK /\ PA!ScreenInv /\ log \in Seq(PA!Response) /\ joined["a"] \in Nat
  BY Vocabularies, ConnsAssumption DEF FineA, PA!ClientInv, RoomInv, RoomType
<1>3. \A i \in DOMAIN PA!Heard :
        joined["a"] + i \in DOMAIN log /\ log[joined["a"] + i] = PA!Heard[i]
  BY DEF FineA, Hears
<1>4. \E k \in DOMAIN log : PA!Stretch(log, k)
  BY <1>1, <1>2, <1>3, Assumptions, PA!StretchMoves
<1> QED BY <1>1, <1>4

-----------------------------------------------------------------------------
(* The second client, word for word.                                       *)
FineB == PB!ClientInv /\ Hears("b", PB!Heard, linkB)

LEMMA InitB == Init => FineB
<1> SUFFICES ASSUME Init PROVE FineB
  OBVIOUS
<1>1. Known("b") = {}
  BY DEF Init, RoomInit, Known
<1>2. userB \in Names /\ B!Init
  BY DEF Init, B!Init
<1>3. PB!Init
  BY <1>1, <1>2 DEF B!Init, PB!Init, B!Blank, PB!Blank, B!None, PB!None
<1>4. PB!ClientInv
  BY <1>3, Assumptions, PB!ClientInit
<1>5. PB!Heard = <<>> /\ linkB = "none"
  BY <1>3 DEF PB!Init, PB!Heard
<1> QED BY <1>4, <1>5 DEF FineB, Hears

LEMMA OwnOnceB ==
  ASSUME RoomInv, FineB
  PROVE  PB!OwnOnce
<1> DEFINE heard == PB!Heard
<1>1. /\ userB \in Names /\ "b" \in Conns
      /\ PB!Own = LoginResponse(userB) /\ PB!Own.type = "LoginResponse"
  BY ConnsAssumption, Vocabularies, Kinds DEF FineB, PB!ClientInv, PB!TypeOK, PB!Own
<1>2. /\ \A i \in DOMAIN heard :
           "b" \in present /\ joined["b"] + i \in DOMAIN log /\ heard[i] = log[joined["b"] + i]
      /\ joined["b"] \in Nat /\ DOMAIN log = 1..Len(log) /\ Len(log) \in Nat
  BY <1>1, LenProperties DEF FineB, Hears, RoomInv, RoomType
<1>3. \A i \in DOMAIN heard : i \in Nat \ {0}
  <2>1. heard \in Seq(PB!Response)
    BY ConcatProperties DEF PB!Heard, FineB, PB!ClientInv, PB!TypeOK
  <2>2. DOMAIN heard = 1..Len(heard) /\ Len(heard) \in Nat
    BY <2>1, LenProperties
  <2> QED BY <2>2
<1> HIDE DEF heard
<1>4. ASSUME NEW i \in DOMAIN heard, heard[i] = LoginResponse(userB) PROVE userB \in Known("b")
  <2>1. joined["b"] + i \in (joined["b"] + 1)..Len(log) /\ log[joined["b"] + i] = LoginResponse(userB)
    BY <1>2, <1>3, <1>4
  <2> QED BY <1>1, <1>2, <1>4, <2>1 DEF Known, Announced
<1>5. ASSUME NEW i \in DOMAIN heard, NEW j \in DOMAIN heard,
             heard[i] = LoginResponse(userB), heard[j] = LoginResponse(userB)
      PROVE  i = j
  <2>1. joined["b"] + i = joined["b"] + j
    BY <1>1, <1>2, <1>5 DEF RoomInv, OneLogin
  <2> QED BY <1>2, <1>3, <2>1
<1> QED BY <1>1, <1>4, <1>5 DEF PB!OwnOnce, heard

LEMMA BystanderB ==
  ASSUME FineB, UNCHANGED allB, Known("b") \subseteq Known("b")',
         \A heard, link : Hears("b", heard, link) => Hears("b", heard, link)'
  PROVE  FineB'
<1>1. PB!ClientInv /\ Known("b")' \subseteq Names
  BY DEF FineB, Known
<1>2. /\ UNCHANGED <<appB, stateB, uiB, PB!view, looperB, PB!conn, tasksB, readerB, visitedB, linkB,
                     0, clicksB, receivedB>>
      /\ incomingB' = incomingB /\ outgoingB' = outgoingB
  BY DEF allB, restB, PB!view, PB!conn
<1>3. PB!ClientInv'
  BY <1>1, <1>2, Assumptions, PB!ClientWaits
<1>4. PB!Heard' = PB!Heard /\ linkB' = linkB
  BY <1>2 DEF PB!Heard
<1>5. Hears("b", PB!Heard, linkB)'
  <2>1. PICK heard : heard = PB!Heard
    OBVIOUS
  <2>2. PICK link : link = linkB
    OBVIOUS
  <2>3. Hears("b", heard, link)'
    BY <2>1, <2>2 DEF FineB
  <2> QED BY <1>4, <2>1, <2>2, <2>3
<1> QED BY <1>3, <1>5 DEF FineB

LEMMA ActsB ==
  ASSUME RoomInv, FineB, ActB
  PROVE  FineB'
<1>1. /\ UNCHANGED <<log, present, joined, delivered>> /\ Known("b")' = Known("b")
      /\ PB!ClientInv /\ PB!TypeOK
  BY KnownStays DEF ActB, room, allA, room, FineB, PB!ClientInv
<1>2. PB!OwnOnce
  BY OwnOnceB
<1>3. CASE B!OwnNext
  <2>1. PB!OwnNext
    BY <1>3, OwnStepB DEF ActB, room, allA
  <2>2. PB!ClientInv'
    BY <1>1, <1>2, <2>1, Assumptions, PB!ClientStep DEF PB!Next
  <2>3. PB!Heard' = PB!Heard /\ (linkB' = linkB \/ linkB' = "made")
    BY <1>1, <2>1, Assumptions, PB!HeardStays
  <2>4. Hears("b", PB!Heard, linkB)'
    BY <1>1, <2>3 DEF FineB, Hears
  <2> QED BY <2>2, <2>4 DEF FineB
<1>4. CASE B!LinkLost
  <2>1. PB!LinkLost
    BY <1>1, <1>4 DEF B!LinkLost, PB!LinkLost, B!view, PB!view, B!conn, PB!conn
  <2>2. PB!ClientInv'
    BY <1>1, <1>2, <2>1, Assumptions, PB!ClientStep DEF PB!Next, PB!NetNext
  <2>3. /\ linkB' = "lost"
        /\ \A i \in DOMAIN PB!Heard' : i \in DOMAIN PB!Heard /\ PB!Heard'[i] = PB!Heard[i]
    BY <1>1, <2>1, Assumptions, PB!HeardCut
  <2>4. Hears("b", PB!Heard, linkB)'
    BY <1>1, <2>3 DEF FineB, Hears
  <2> QED BY <2>2, <2>4 DEF FineB
<1> QED BY <1>3, <1>4 DEF ActB

LEMMA EntersB ==
  ASSUME RoomInv, FineB, EnterB
  PROVE  RoomInv' /\ FineB'
<1>1. /\ Enter("b") /\ UNCHANGED origin /\ "b" \in Conns
      /\ PB!ClientInv /\ PB!TypeOK
  BY ConnsAssumption DEF EnterB, FineB, PB!ClientInv
<1>2. /\ RoomInv' /\ Known("b")' = Known("b")
      /\ \A heard \in Seq(Response) : \A link : Hears("b", heard, link) => Hears("b", heard, "accepted")'
  BY <1>1, Enters
<1>3. PB!Accept
  BY <1>2 DEF EnterB, B!Accept, PB!Accept, B!view, PB!view, B!conn, PB!conn
<1>4. PB!ClientInv'
  BY <1>1, <1>3, OwnOnceB, Assumptions, PB!ClientStep DEF PB!Next, PB!NetNext
<1>5. PB!Heard' = PB!Heard /\ linkB' = "accepted" /\ PB!Heard \in Seq(Response)
  <2>1. PB!Heard \in Seq(PB!Response)
    BY <1>1, ConcatProperties DEF PB!Heard, PB!TypeOK
  <2> QED BY <1>3, <2>1, Vocabularies DEF PB!Accept, PB!Heard
<1>6. Hears("b", PB!Heard, linkB)'
  <2>1. PICK heard \in Seq(Response) : heard = PB!Heard
    BY <1>5
  <2>2. Hears("b", heard, linkB)
    BY <2>1 DEF FineB
  <2>3. Hears("b", heard, "accepted")'
    BY <1>2, <2>2
  <2> QED BY <1>5, <2>1, <2>3
<1> QED BY <1>2, <1>4, <1>6 DEF FineB

LEMMA AnswersB ==
  ASSUME RoomInv, FineB, AnswerB
  PROVE  /\ RoomInv' /\ FineB'
         /\ \A d \in Conns : Known(d) \subseteq Known(d)'
         /\ \A d \in Conns : \A heard, link : Hears(d, heard, link) => Hears(d, heard, link)'
<1> DEFINE q == Head(outgoingB)
<1>1. /\ linkB = "accepted" /\ outgoingB # <<>> /\ Answer(q) /\ outgoingB' = Tail(outgoingB)
      /\ origin' = Append(origin, "b") /\ UNCHANGED <<restB, incomingB>>
      /\ PB!ClientInv /\ "b" \in Conns
  BY ConnsAssumption DEF AnswerB, FineB
<1>2. "b" \in present
  BY <1>1 DEF FineB, Hears
<1>3. outgoingB \in Seq(PB!Request) /\ userB \in Names
  BY <1>1 DEF PB!ClientInv, PB!TypeOK
<1>4. 1 \in DOMAIN outgoingB /\ q = outgoingB[1]
  BY <1>1, <1>3, HeadTailProperties, LenProperties
<1> HIDE DEF q
<1>5. q.sender = userB
  <2>1. q \in PB!Signed
    BY <1>1, <1>4 DEF PB!ClientInv, PB!SignedInv
  <2> QED BY <2>1 DEF PB!Signed, PB!LoginRequest, PB!MessageRequest
<1>6. q.type = "MessageRequest" => Announced("b", userB, Len(log))
  <2>1. q.type = "MessageRequest" => userB \in Known("b")
    BY <1>1, <1>4 DEF PB!ClientInv, PB!AcceptedInv
  <2> QED BY <2>1 DEF Known
<1>7. PICK r \in Response :
        /\ Publish(r)
        /\ r.type = "LoginResponse" => \A i \in DOMAIN log : log[i] # r
        /\ r.type = "MessageResponse" => r.originator = q.sender /\ q.type = "MessageRequest"
  BY <1>1, AnswerIs
<1>8. r.type = "MessageResponse" => Announced("b", r.originator, Len(log))
  BY <1>5, <1>6, <1>7
<1>9. /\ RoomInv'
      /\ \A d \in Conns : Known(d) \subseteq Known(d)'
      /\ \A d \in Conns : \A heard, link : Hears(d, heard, link) => Hears(d, heard, link)'
  BY <1>1, <1>2, <1>7, <1>8, Publishes
<1>10. /\ UNCHANGED <<appB, stateB, uiB, PB!view, looperB, PB!conn, tasksB, readerB, visitedB, linkB,
                      0, clicksB, receivedB>>
       /\ incomingB' = incomingB /\ Known("b")' \subseteq Names /\ Known("b") \subseteq Known("b")'
  BY <1>1, <1>9 DEF restB, PB!view, PB!conn, Known
<1>11. PB!ClientInv'
  BY <1>1, <1>10, Assumptions, PB!ClientWaits
<1>12. Hears("b", PB!Heard, linkB)'
  <2>1. PICK heard : heard = PB!Heard
    OBVIOUS
  <2>2. PICK link : link = linkB
    OBVIOUS
  <2>3. Hears("b", heard, link)'
    BY <1>1, <1>9, <2>1, <2>2 DEF FineB
  <2>4. PB!Heard' = PB!Heard /\ linkB' = linkB
    BY <1>10 DEF PB!Heard
  <2> QED BY <2>1, <2>2, <2>3, <2>4
<1> QED BY <1>9, <1>11, <1>12 DEF FineB

LEMMA ShowsB ==
  ASSUME RoomInv, FineB, ShowB
  PROVE  RoomInv' /\ FineB'
<1>1. /\ linkB = "accepted" /\ Show("b") /\ UNCHANGED <<origin, restB, outgoingB>>
      /\ incomingB' = Append(incomingB, delivered'["b"][Len(delivered'["b"])])
      /\ PB!ClientInv /\ "b" \in Conns
  BY ConnsAssumption DEF ShowB, FineB
<1>2. /\ receivedB \in Seq(Response) /\ incomingB \in Seq(Response) /\ userB \in Names
      /\ PB!Heard \in Seq(Response)
  BY <1>1, Vocabularies, ConcatProperties DEF PB!ClientInv, PB!TypeOK, PB!Heard
<1>3. RoomInv' /\ Known("b")' = Known("b")
  BY <1>1, Shows
<1>4. PICK r \in Response :
        /\ delivered'["b"][Len(delivered'["b"])] = r
        /\ \A n \in Names : r = LoginResponse(n) => n \in Known("b")
        /\ \A heard \in Seq(Response) :
             Hears("b", heard, "accepted") => Hears("b", Append(heard, r), "accepted")'
  BY <1>1, Shows
<1>5. /\ UNCHANGED <<appB, stateB, uiB, PB!view, looperB, PB!conn, tasksB, readerB, visitedB, linkB,
                     0, clicksB, receivedB>>
      /\ outgoingB' = outgoingB /\ incomingB' = Append(incomingB, r)
      /\ Known("b")' \subseteq Names /\ Known("b") \subseteq Known("b")'
  BY <1>1, <1>3, <1>4 DEF restB, PB!view, PB!conn, Known
<1>6. r \in PB!Response /\ (r = PB!LoginResponse(userB) => userB \in Known("b")')
  BY <1>2, <1>3, <1>4, Vocabularies
<1>7. PB!ClientInv'
  BY <1>1, <1>5, <1>6, Assumptions, PB!ClientWaits
<1>8. PB!Heard' = Append(PB!Heard, r)
  <2>1. receivedB \in Seq(PB!Response) /\ incomingB \in Seq(PB!Response)
    BY <1>2, Vocabularies
  <2> QED BY <1>5, <1>6, <2>1, PB!ReplyAppends DEF PB!Heard
<1>9. Hears("b", PB!Heard, linkB)'
  <2>1. PICK heard \in Seq(Response) : heard = PB!Heard
    BY <1>2
  <2>2. Hears("b", heard, "accepted")
    BY <1>1, <2>1 DEF FineB
  <2>3. Hears("b", Append(heard, r), "accepted")'
    BY <1>4, <2>2
  <2>4. linkB' = "accepted"
    BY <1>1, <1>5
  <2> QED BY <1>8, <2>1, <2>3, <2>4
<1> QED BY <1>3, <1>7, <1>9 DEF FineB

LEMMA ReadsB ==
  ASSUME RoomInv, FineB, B!RowCount > 0
  PROVE  \E k \in DOMAIN log : B!Stretch(log, k)
<1>1. B!RowCount = PB!RowCount /\ \A k : B!Stretch(log, k) <=> PB!Stretch(log, k)
  BY DEF B!RowCount, PB!RowCount, B!Stretch, PB!Stretch, B!Posted, PB!Posted, B!RowNo, PB!RowNo,
         B!Cardinality, PB!Cardinality
<1>2. PB!TypeOK /\ PB!ScreenInv /\ log \in Seq(PB!Response) /\ joined["b"] \in Nat
  BY Vocabularies, ConnsAssumption DEF FineB, PB!ClientInv, RoomInv, RoomType
<1>3. \A i \in DOMAIN PB!Heard :
        joined["b"] + i \in DOMAIN log /\ log[joined["b"] + i] = PB!Heard[i]
  BY DEF FineB, Hears
<1>4. \E k \in DOMAIN log : PB!Stretch(log, k)
  BY <1>1, <1>2, <1>3, Assumptions, PB!StretchMoves
<1> QED BY <1>1, <1>4

-----------------------------------------------------------------------------
(* Both clients and the room between them.                                 *)
MessengerInv == RoomInv /\ FineA /\ FineB

LEMMA InitRoom == Init => RoomInv
<1> SUFFICES ASSUME Init PROVE RoomInv
  OBVIOUS
<1>1. RoomType
  BY LenProperties DEF Init, RoomInit, RoomType
<1>2. OneLogin /\ Spoken
  BY DEF Init, RoomInit, OneLogin, Spoken
<1> QED BY <1>1, <1>2 DEF RoomInv

LEMMA MessengerStep ==
  ASSUME MessengerInv, [Next]_vars
  PROVE  MessengerInv'
<1> USE DEF MessengerInv
<1>0. "a" \in Conns \ {"b"} /\ "b" \in Conns \ {"a"} /\ "a" \in Conns /\ "b" \in Conns
  BY ConnsAssumption
<1>1. ASSUME UNCHANGED room
      PROVE  /\ RoomInv'
             /\ \A d : Known(d)' = Known(d)
             /\ \A d, heard, link : Hears(d, heard, link) => Hears(d, heard, link)'
  <2>1. RoomInv'
    BY <1>1 DEF room, RoomInv, RoomType, OneLogin, Spoken, Announced
  <2>2. \A d, heard, link : Hears(d, heard, link) => Hears(d, heard, link)'
    BY <1>1 DEF room, Hears
  <2> QED BY <1>1, <2>1, <2>2, KnownStays
<1>2. CASE UNCHANGED vars
  <2>1. UNCHANGED room /\ UNCHANGED allA /\ UNCHANGED allB
    BY <1>2 DEF vars
  <2>2. FineA'
    BY <1>1, <2>1, BystanderA
  <2>3. FineB'
    BY <1>1, <2>1, BystanderB
  <2> QED BY <1>1, <2>1, <2>2, <2>3
<1>3. CASE ActA
  <2>1. UNCHANGED room /\ UNCHANGED allB
    BY <1>3 DEF ActA, AloneA
  <2>2. FineA'
    BY <1>3, ActsA
  <2>3. FineB'
    BY <1>1, <2>1, BystanderB
  <2> QED BY <1>1, <2>1, <2>2, <2>3
<1>4. CASE ActB
  <2>1. UNCHANGED room /\ UNCHANGED allA
    BY <1>4 DEF ActB
  <2>2. FineB'
    BY <1>4, ActsB
  <2>3. FineA'
    BY <1>1, <2>1, BystanderA
  <2> QED BY <1>1, <2>1, <2>2, <2>3
<1>5. CASE EnterA
  <2>1. Enter("a") /\ UNCHANGED origin /\ UNCHANGED allB
    BY <1>5 DEF EnterA
  <2>2. /\ Known("b")' = Known("b")
        /\ \A heard, link : Hears("b", heard, link) => Hears("b", heard, link)'
    BY <1>0, <2>1, Enters
  <2>3. FineB'
    BY <2>1, <2>2, BystanderB
  <2> QED BY <1>5, <2>3, EntersA
<1>6. CASE EnterB
  <2>1. Enter("b") /\ UNCHANGED origin /\ UNCHANGED allA
    BY <1>6 DEF EnterB
  <2>2. /\ Known("a")' = Known("a")
        /\ \A heard, link : Hears("a", heard, link) => Hears("a", heard, link)'
    BY <1>0, <2>1, Enters
  <2>3. FineA'
    BY <2>1, <2>2, BystanderA
  <2> QED BY <1>6, <2>3, EntersB
<1>7. CASE AnswerA
  <2>1. /\ RoomInv' /\ FineA' /\ Known("b") \subseteq Known("b")'
        /\ \A heard, link : Hears("b", heard, link) => Hears("b", heard, link)'
    BY <1>0, <1>7, AnswersA
  <2>2. FineB'
    BY <1>7, <2>1, BystanderB DEF AnswerA
  <2> QED BY <2>1, <2>2
<1>8. CASE AnswerB
  <2>1. /\ RoomInv' /\ FineB' /\ Known("a") \subseteq Known("a")'
        /\ \A heard, link : Hears("a", heard, link) => Hears("a", heard, link)'
    BY <1>0, <1>8, AnswersB
  <2>2. FineA'
    BY <1>8, <2>1, BystanderA DEF AnswerB
  <2> QED BY <2>1, <2>2
<1>9. CASE ShowA
  <2>1. Show("a") /\ UNCHANGED origin /\ UNCHANGED allB
    BY <1>9 DEF ShowA
  <2>2. /\ Known("b")' = Known("b")
        /\ \A heard, link : Hears("b", heard, link) => Hears("b", heard, link)'
    BY <1>0, <2>1, Shows
  <2>3. FineB'
    BY <2>1, <2>2, BystanderB
  <2> QED BY <1>9, <2>3, ShowsA
<1>10. CASE ShowB
  <2>1. Show("b") /\ UNCHANGED origin /\ UNCHANGED allA
    BY <1>10 DEF ShowB
  <2>2. /\ Known("a")' = Known("a")
        /\ \A heard, link : Hears("a", heard, link) => Hears("a", heard, link)'
    BY <1>0, <2>1, Shows
  <2>3. FineA'
    BY <2>1, <2>2, BystanderA
  <2> QED BY <1>10, <2>3, ShowsB
<1> QED BY <1>2, <1>3, <1>4, <1>5, <1>6, <1>7, <1>8, <1>9, <1>10 DEF Next

LEMMA MessengerHolds == Spec => []MessengerInv
<1>1. Init => MessengerInv
  BY InitRoom, InitA, InitB DEF MessengerInv
<1>2. MessengerInv /\ [Next]_vars => MessengerInv'
  BY MessengerStep
<1> QED BY <1>1, <1>2, PTL DEF Spec

(* Whoever speaks in the room has been shown, since connecting, a login    *)
(* under the name: the three threads of a client, whoever else is in the   *)
(* room and whatever name they want, never send a message before that.     *)
THEOREM NobodyUnannounced == Spec => []SpeakersWereAnnounced
<1>1. MessengerInv => SpeakersWereAnnounced
  BY DEF MessengerInv, RoomInv, Spoken, Announced, SpeakersWereAnnounced
<1> QED BY <1>1, MessengerHolds, PTL

(* What the two users read is one conversation, the room's: the rows of    *)
(* either, shown or posted, are a stretch of it, whenever they connect,    *)
(* fall behind, crash or are cut off.                                      *)
THEOREM BothReadOneConversation == Spec => []OneConversation
<1>1. MessengerInv => OneConversation
  BY ReadsA, ReadsB DEF MessengerInv, OneConversation
<1> QED BY <1>1, MessengerHolds, PTL

-----------------------------------------------------------------------------
(* The first client, seen alone, with the room and the second client for   *)
(* its environment.  The second sends a login and a message for each of    *)
(* its clicks, so that there are never more answers to it than View bounds.*)
OthersSent == Cardinality(ByOthers)

Bounded == OthersSent \in Nat /\ PB!Quota(OthersSent)

LEMMA ByOthersSteps ==
  ASSUME RoomInv, IsFiniteSet(ByOthers)
  PROVE  /\ IsFiniteSet(ByOthers) /\ OthersSent \in Nat
         /\ origin' = origin => ByOthers' = ByOthers
         /\ origin' = Append(origin, "a") => ByOthers' = ByOthers
         /\ origin' = Append(origin, "b") =>
              IsFiniteSet(ByOthers)' /\ OthersSent' = OthersSent + 1
<1>1. /\ origin \in Seq(Conns) /\ DOMAIN origin = 1..Len(origin) /\ Len(origin) \in Nat
      /\ "a" \in Conns /\ "b" \in Conns /\ "a" # "b"
  BY LenProperties, ConnsAssumption DEF RoomInv, RoomType
<1>2. \A c \in Conns : origin' = Append(origin, c) =>
        /\ DOMAIN origin' = 1..(Len(origin) + 1)
        /\ \A i \in 1..Len(origin) : origin'[i] = origin[i]
        /\ origin'[Len(origin) + 1] = c
  BY <1>1, AppendProperties, LenProperties
<1>3. OthersSent \in Nat
  BY FS_CardinalityType DEF OthersSent
<1>4. ASSUME origin' = Append(origin, "a") PROVE ByOthers' = ByOthers
  BY <1>1, <1>2, <1>4 DEF ByOthers
<1>5. ASSUME origin' = Append(origin, "b")
      PROVE  IsFiniteSet(ByOthers)' /\ OthersSent' = OthersSent + 1
  <2>1. ByOthers' = ByOthers \cup {Len(origin) + 1} /\ Len(origin) + 1 \notin ByOthers
    BY <1>1, <1>2, <1>5 DEF ByOthers
  <2> QED BY <2>1, FS_AddElement DEF OthersSent
<1> QED BY <1>3, <1>4, <1>5 DEF ByOthers

CountInv == IsFiniteSet(ByOthers) /\ Bounded

LEMMA InitCount == Init => CountInv
<1> SUFFICES ASSUME Init PROVE CountInv
  OBVIOUS
<1>1. ByOthers = {}
  BY DEF Init, ByOthers
<1>2. IsFiniteSet(ByOthers) /\ OthersSent = 0
  BY <1>1, FS_EmptySet DEF OthersSent
<1>3. /\ tasksB = <<>> /\ outgoingB = <<>> /\ clicksB = 0
      /\ stateB = "NOCONNECTION" /\ uiB = "idle"
  BY DEF Init, B!Init
<1> QED BY <1>2, <1>3 DEF CountInv, Bounded, PB!Quota, PB!LoginMade

LEMMA CountStep ==
  ASSUME MessengerInv, CountInv, [Next]_vars
  PROVE  CountInv' /\ (AnswerB => OthersSent < MaxClicks + 1)
<1>1. PB!TypeOK /\ RoomInv
  BY DEF MessengerInv, FineB, PB!ClientInv
<1>2. ASSUME UNCHANGED <<stateB, uiB, tasksB, outgoingB, clicksB>>, ByOthers' = ByOthers
      PROVE  CountInv'
  BY <1>2 DEF CountInv, Bounded, OthersSent, PB!Quota, PB!LoginMade
<1>3. /\ OthersSent \in Nat
      /\ origin' = origin \/ origin' = Append(origin, "a") => ByOthers' = ByOthers
      /\ origin' = Append(origin, "b") =>
              IsFiniteSet(ByOthers)' /\ OthersSent' = OthersSent + 1
  BY <1>1, ByOthersSteps DEF CountInv
<1>4. ASSUME UNCHANGED vars PROVE CountInv'
  BY <1>2, <1>3, <1>4 DEF vars, allB, restB, room
<1>5. ASSUME ActA \/ EnterA \/ AnswerA \/ ShowA PROVE CountInv'
  BY <1>2, <1>3, <1>5 DEF ActA, AloneA, EnterA, AnswerA, ShowA, allB, restB, room
<1>6. ASSUME EnterB PROVE CountInv'
  BY <1>2, <1>3, <1>6 DEF EnterB, B!Accept, B!view, B!conn
<1>7. ASSUME ShowB PROVE CountInv'
  BY <1>2, <1>3, <1>7 DEF ShowB, restB
<1>8. ASSUME ActB PROVE CountInv'
  <2>1. UNCHANGED room /\ ByOthers' = ByOthers
    BY <1>3, <1>8 DEF ActB, room
  <2>2. PB!OwnNext \/ PB!LinkLost
    <3>1. Known("b")' = Known("b")
      BY <2>1, KnownStays
    <3>2. B!LinkLost => PB!LinkLost
      BY <3>1 DEF B!LinkLost, PB!LinkLost, B!view, PB!view, B!conn, PB!conn
    <3> QED BY <1>8, <2>1, <3>2, OwnStepB DEF ActB
  <2>3. PICK m \in Nat : m = OthersSent
    BY <1>3
  <2>4. PB!Quota(m)'
    BY <1>1, <2>2, <2>3, Assumptions, PB!QuotaStep DEF CountInv, Bounded
  <2>5. OthersSent' = m
    BY <2>1, <2>3 DEF OthersSent
  <2>6. PB!Quota(OthersSent)'
    BY <2>4, <2>5 DEF PB!Quota, PB!LoginMade
  <2> QED BY <2>1, <2>3, <2>5, <2>6 DEF CountInv, Bounded
<1>9. ASSUME AnswerB PROVE CountInv'
  <2>1. /\ UNCHANGED <<stateB, uiB, tasksB, clicksB>> /\ outgoingB # <<>> /\ outgoingB' = Tail(outgoingB)
        /\ IsFiniteSet(ByOthers)' /\ OthersSent' = OthersSent + 1
    BY <1>3, <1>9 DEF AnswerB, restB
  <2>2. PICK m \in Nat : m = OthersSent
    BY <1>3
  <2>3. PB!Quota(m + 1)' /\ m < MaxClicks + 1
    BY <1>1, <2>1, <2>2, Assumptions, PB!QuotaAnswer DEF CountInv, Bounded
  <2>4. PB!Quota(OthersSent)'
    BY <2>1, <2>2, <2>3 DEF PB!Quota, PB!LoginMade
  <2> QED BY <2>1, <2>2, <2>3, <2>4 DEF CountInv, Bounded
<1>10. ASSUME AnswerB PROVE OthersSent < MaxClicks + 1
  <2>1. /\ UNCHANGED <<stateB, uiB, tasksB, clicksB>> /\ outgoingB # <<>> /\ outgoingB' = Tail(outgoingB)
    BY <1>10 DEF AnswerB, restB
  <2>2. PICK m \in Nat : m = OthersSent
    BY <1>3
  <2>3. m < MaxClicks + 1
    BY <1>1, <2>1, <2>2, Assumptions, PB!QuotaAnswer DEF CountInv, Bounded
  <2> QED BY <2>2, <2>3
<1>11. CountInv'
  BY <1>4, <1>5, <1>6, <1>7, <1>8, <1>9 DEF Next
<1> QED BY <1>10, <1>11

-----------------------------------------------------------------------------
(* A reader finds the same response first, whether or not more follow.     *)
LEMMA FirstOfMore ==
  ASSUME NEW T, NEW s \in Seq(T), NEW t \in Seq(T), s # <<>>
  PROVE  /\ s \o t # <<>> /\ Head(s \o t) = Head(s) /\ Tail(s \o t) = Tail(s) \o t
         /\ Len(s) > 1 => Len(s \o t) > 1
<1> DEFINE a == s \o t
           b == Tail(s) \o t
<1>1. /\ Head(s) \in T /\ Tail(s) \in Seq(T) /\ Len(s) \in Nat \ {0} /\ Len(t) \in Nat
      /\ Len(Tail(s)) = Len(s) - 1 /\ Head(s) = s[1]
      /\ \A i \in 1..(Len(s) - 1) : Tail(s)[i] = s[i + 1]
  BY HeadTailProperties, LenProperties, EmptySeq
<1>2. /\ a \in Seq(T) /\ Len(a) = Len(s) + Len(t)
      /\ \A i \in 1..(Len(s) + Len(t)) : a[i] = IF i <= Len(s) THEN s[i] ELSE t[i - Len(s)]
  BY ConcatProperties
<1>3. /\ b \in Seq(T) /\ Len(b) = Len(s) - 1 + Len(t)
      /\ \A i \in 1..(Len(s) - 1 + Len(t)) :
           b[i] = IF i <= Len(s) - 1 THEN Tail(s)[i] ELSE t[i - (Len(s) - 1)]
  <2>1. /\ b \in Seq(T) /\ Len(b) = Len(Tail(s)) + Len(t)
        /\ \A i \in 1..(Len(Tail(s)) + Len(t)) :
             b[i] = IF i <= Len(Tail(s)) THEN Tail(s)[i] ELSE t[i - Len(Tail(s))]
    BY <1>1, ConcatProperties
  <2> QED BY <1>1, <2>1
<1> HIDE DEF a, b
<1>4. a # <<>> /\ a[1] = s[1] /\ Head(a) = s[1]
  <2>1. 1 \in 1..(Len(s) + Len(t)) /\ 1 <= Len(s)
    BY <1>1
  <2>2. a # <<>>
    BY <1>1, <1>2, EmptySeq
  <2> QED BY <1>2, <2>1, <2>2, HeadTailProperties
<1>5. /\ Tail(a) \in Seq(T) /\ Len(Tail(a)) = Len(s) + Len(t) - 1
      /\ \A i \in 1..(Len(s) + Len(t) - 1) : Tail(a)[i] = a[i + 1]
  BY <1>2, <1>4, HeadTailProperties
<1>6. ASSUME NEW i \in 1..(Len(s) + Len(t) - 1) PROVE Tail(a)[i] = b[i]
  <2>1. Tail(a)[i] = a[i + 1] /\ i + 1 \in 1..(Len(s) + Len(t)) /\ i \in 1..(Len(s) - 1 + Len(t))
    BY <1>1, <1>5
  <2>2. CASE i <= Len(s) - 1
    <3>1. i + 1 <= Len(s) /\ i \in 1..(Len(s) - 1)
      BY <1>1, <2>2
    <3> QED BY <1>1, <1>2, <1>3, <2>1, <2>2, <3>1
  <2>3. CASE ~(i <= Len(s) - 1)
    <3>1. ~(i + 1 <= Len(s)) /\ i + 1 - Len(s) = i - (Len(s) - 1)
      BY <1>1, <2>3
    <3> QED BY <1>2, <1>3, <2>1, <2>3, <3>1
  <2> QED BY <2>2, <2>3
<1>7. Tail(a) = b
  <2>1. Len(Tail(a)) = Len(b) /\ \A i \in 1..Len(Tail(a)) : Tail(a)[i] = b[i]
    BY <1>1, <1>3, <1>5, <1>6
  <2> QED BY <1>3, <1>5, <2>1, SeqEqual
<1> QED BY <1>1, <1>2, <1>4, <1>7 DEF a, b

(* What the room has said to the first client and not yet handed it.       *)
LEMMA PendingType ==
  ASSUME RoomInv, FineA
  PROVE  /\ incomingA \in Seq(Response) /\ Pending \in Seq(Response)
         /\ linkA = "lost" => Pending = <<>>
<1>1. incomingA \in Seq(Response)
  BY Vocabularies DEF FineA, PA!ClientInv, PA!TypeOK
<1>2. /\ log \in Seq(Response) /\ Len(log) \in Nat /\ DOMAIN log = 1..Len(log)
      /\ joined["a"] \in Nat /\ Len(delivered["a"]) \in Nat
  BY LenProperties, ConnsAssumption DEF RoomInv, RoomType
<1>3. \A i \in (joined["a"] + Len(delivered["a"]) + 1)..Len(log) : log[i] \in Response
  BY <1>2, ElementOfSeq
<1>4. SubSeq(log, joined["a"] + Len(delivered["a"]) + 1, Len(log)) \in Seq(Response)
  BY <1>2, <1>3, SubSeqProperties
<1> QED BY <1>1, <1>4, EmptySeq DEF Pending

LEMMA LinkStays ==
  ASSUME FineA, UNCHANGED room, A!OwnNext
  PROVE  Pending' = Pending /\ Users' = Users /\ ByOthers' = ByOthers
<1>1. PA!TypeOK /\ PA!Unconnected /\ PA!OwnNext
  BY OwnStepA DEF FineA, PA!ClientInv
<1>2. linkA' = linkA \/ (readerA = "connecting" /\ linkA' = "made")
  BY <1>1, Assumptions, PA!HeardStays
<1>3. linkA' = "accepted" <=> linkA = "accepted"
  BY <1>1, <1>2 DEF PA!Unconnected
<1> QED BY <1>3 DEF room, Pending, Users, ByOthers

(* Its own steps are those of Client, for a reader takes what is first.    *)
LEMMA OwnStepView ==
  ASSUME RoomInv, FineA, UNCHANGED room, A!OwnNext
  PROVE  View!OwnNext
<1>0. /\ Pending' = Pending /\ Users' = Users /\ ByOthers' = ByOthers
      /\ incomingA \in Seq(Response) /\ Pending \in Seq(Response)
      /\ linkA = "lost" => Pending = <<>>
  BY LinkStays, PendingType
<1> USE DEF A!view, View!view, A!net, View!net, A!conn, View!conn
<1>1. A!UserNext => View!UserNext
  BY <1>0
     DEF A!UserNext, View!UserNext, A!Login, View!Login, A!LoginUnknownHost,
         View!LoginUnknownHost, A!Type, View!Type, A!OnMsgSend, View!OnMsgSend, A!Crash,
         View!Crash, A!UIIdle, View!UIIdle, A!Running, View!Running, A!Blank, View!Blank,
         A!MessageRequest, View!MessageRequest
<1>2. A!LoginNext => View!LoginNext
  BY <1>0
     DEF A!LoginNext, View!LoginNext, A!LoginConnected, View!LoginConnected, A!LoginSend,
         View!LoginSend, A!LoginAttempted, View!LoginAttempted, A!Running, View!Running,
         A!LoginRequest, View!LoginRequest
<1>3. A!PostedNext => View!PostedNext
  <2>1. A!Response = View!Response
    BY DEF A!Response, View!Response, A!LoginResponse, View!LoginResponse, A!MessageResponse,
           View!MessageResponse, A!ServerError, View!ServerError, A!SERVER_SENDER,
           View!SERVER_SENDER, A!UNKNOWN_SENDER, View!UNKNOWN_SENDER, A!ErrorCode,
           View!ErrorCode
  <2>2. \A item : A!Post(item) => View!Post(item)
    BY DEF A!Post, View!Post, A!UIIdle, View!UIIdle, A!Running, View!Running
  <2>3. A!RunCommit => View!RunCommit
    BY <1>0, <2>2 DEF A!RunCommit, View!RunCommit, A!Commit, View!Commit
  <2>4. A!RunClear => View!RunClear
    BY <1>0, <2>2 DEF A!RunClear, View!RunClear, A!Clear, View!Clear, A!Blank, View!Blank
  <2>5. \A r : A!RunRow(r) => View!RunRow(r)
    BY <1>0, <2>2 DEF A!RunRow, View!RunRow, A!Row, View!Row
  <2> QED BY <2>1, <2>3, <2>4, <2>5 DEF A!PostedNext, View!PostedNext, A!UIIdle, View!UIIdle,
                                        A!Running, View!Running
<1>4. A!TaskNext => View!TaskNext
  BY <1>0
     DEF A!TaskNext, View!TaskNext, A!TaskSends, View!TaskSends, A!TaskTooEarly,
         View!TaskTooEarly, A!Running, View!Running, A!Crash, View!Crash
<1>5. /\ A!ReaderLocks => View!ReaderLocks
      /\ A!ReaderConnects => View!ReaderConnects
      /\ A!ReaderRefused => View!ReaderRefused
      /\ A!ShowRoomFragment => View!ShowRoomFragment
      /\ A!Announce => View!Announce
  BY <1>0
     DEF A!ReaderLocks, View!ReaderLocks, A!ReaderConnects, View!ReaderConnects,
         A!ReaderRefused, View!ReaderRefused, A!ShowRoomFragment, View!ShowRoomFragment,
         A!Announce, View!Announce, A!Running, View!Running, A!Commit, View!Commit, A!Row,
         View!Row, A!None, View!None
<1>6. A!ReaderEnds => View!ReaderEnds
  <2>1. incomingA = <<>> /\ Pending = <<>> => incomingA \o Pending = <<>>
    BY <1>0, ConcatEmptySeq
  <2> QED BY <1>0, <2>1 DEF A!ReaderEnds, View!ReaderEnds, A!Running, View!Running
<1>7. /\ incomingA # <<>> =>
           /\ incomingA \o Pending # <<>> /\ Head(incomingA \o Pending) = Head(incomingA)
           /\ Tail(incomingA \o Pending) = Tail(incomingA) \o Pending
           /\ Len(incomingA) > 1 => Len(incomingA \o Pending) > 1
  BY <1>0, FirstOfMore
<1>8. A!VisitThrows => View!VisitThrows
  BY <1>0, <1>7 DEF A!VisitThrows, View!VisitThrows, A!Crash, View!Crash, A!Running, View!Running
<1>9. \A r : A!Read(r) => View!Read(r)
  BY <1>0, <1>7 DEF A!Read, View!Read, A!Running, View!Running
<1>10. /\ \A n : A!LoginResponse(n) = View!LoginResponse(n)
       /\ \A n, p : A!MessageResponse(n, p) = View!MessageResponse(n, p)
  BY DEF A!LoginResponse, View!LoginResponse, A!MessageResponse, View!MessageResponse
<1>11. A!VisitOwnLogin => View!VisitOwnLogin
  BY <1>9, <1>10 DEF A!VisitOwnLogin, View!VisitOwnLogin
<1>12. \A n : A!VisitOtherLogin(n) => View!VisitOtherLogin(n)
  BY <1>9, <1>10 DEF A!VisitOtherLogin, View!VisitOtherLogin
<1>13. \A n, p : A!VisitMessage(n, p) => View!VisitMessage(n, p)
  BY <1>9, <1>10 DEF A!VisitMessage, View!VisitMessage, A!Clear, View!Clear, A!Row, View!Row
<1>14. A!ReaderNext => View!ReaderNext
  BY <1>5, <1>6, <1>8, <1>11, <1>12, <1>13 DEF A!ReaderNext, View!ReaderNext
<1> QED BY <1>1, <1>2, <1>3, <1>4, <1>14 DEF A!OwnNext, View!OwnNext

(* It is cut off: what was on its way to it, and what was still to be      *)
(* handed to it, is lost from some response on.                            *)
LEMMA CutView ==
  ASSUME RoomInv, FineA, UNCHANGED room, A!LinkLost
  PROVE  View!LinkLost
<1>1. /\ linkA' = "lost" /\ Users' = Users /\ ByOthers' = ByOthers
      /\ incomingA \in Seq(Response) /\ Pending \in Seq(Response)
  BY PendingType DEF A!LinkLost, room, Users, ByOthers
<1>2. PICK n \in 0..Len(incomingA) : incomingA' = SubSeq(incomingA, 1, n)
  BY DEF A!LinkLost
<1>3. /\ Len(incomingA) \in Nat /\ Len(Pending) \in Nat /\ n \in Nat
      /\ Len(incomingA \o Pending) = Len(incomingA) + Len(Pending)
  BY <1>1, LenProperties, ConcatProperties
<1>4. SubSeq(incomingA \o Pending, 1, n) = SubSeq(incomingA, 1, n)
  <2>1. CASE n = 0
    BY <2>1, SubSeqEmpty
  <2>2. CASE n # 0
    <3>1. n \in 1..Len(incomingA) /\ 1 \in 1..Len(incomingA)
      BY <1>3, <2>2
    <3> QED BY <1>1, <3>1, SubSeqOfConcat1
  <2> QED BY <2>1, <2>2
<1>5. incomingA' \in Seq(Response) /\ Pending' = <<>>
  <2>1. \A i \in 1..n : incomingA[i] \in Response
    BY <1>1, <1>3, ElementOfSeq
  <2>2. SubSeq(incomingA, 1, n) \in Seq(Response)
    BY <1>3, <2>1, SubSeqProperties
  <2> QED BY <1>1, <1>2, <2>2 DEF Pending
<1>6. (incomingA \o Pending)' = SubSeq(incomingA \o Pending, 1, n)
  BY <1>2, <1>4, <1>5, ConcatEmptySeq
<1>7. n \in 0..Len(incomingA \o Pending)
  BY <1>3
<1> QED BY <1>1, <1>6, <1>7 DEF A!LinkLost, View!LinkLost, A!view, View!view, A!conn, View!conn

(* It is accepted: from here on it hears what is said.                     *)
LEMMA EnterView ==
  ASSUME RoomInv, FineA, EnterA
  PROVE  View!Accept
<1>1. /\ Enter("a") /\ A!Accept /\ origin' = origin /\ "a" \in Conns /\ "a" \notin present
      /\ log \in Seq(Response) /\ Len(log) \in Nat /\ log' = log
      /\ joined' = [joined EXCEPT !["a"] = Len(log)] /\ joined \in [Conns -> Nat]
      /\ delivered' = delivered /\ delivered["a"] = <<>>
  BY ConnsAssumption, LenProperties DEF EnterA, Enter, RoomInv, RoomType
<1>2. Pending = <<>> /\ incomingA' = incomingA
  BY <1>1 DEF A!Accept, Pending
<1>3. Pending' = <<>>
  <2>1. joined'["a"] = Len(log) /\ Len(delivered'["a"]) = 0
    BY <1>1
  <2>2. joined'["a"] + Len(delivered'["a"]) + 1 = Len(log) + 1 /\ Len(log) < Len(log) + 1
    BY <1>1, <2>1
  <2>3. SubSeq(log, Len(log) + 1, Len(log)) = <<>>
    BY <1>1, <2>2, SubSeqEmpty
  <2> QED BY <1>1, <2>2, <2>3 DEF Pending
<1>4. (incomingA \o Pending)' = incomingA \o Pending
  BY <1>2, <1>3
<1>5. Users' = Users /\ ByOthers' = ByOthers
  BY <1>1 DEF Users, ByOthers
<1> QED BY <1>1, <1>4, <1>5 DEF A!Accept, View!Accept, A!view, View!view, A!conn, View!conn

(* The room says something: who is connected will hear it last of all, and *)
(* if it is a login the name is in use.                                    *)
LEMMA Heralds ==
  ASSUME RoomInv, FineA, NEW r \in Response, Publish(r), UNCHANGED <<linkA, incomingA>>
  PROVE  /\ (incomingA \o Pending)' =
              IF linkA = "accepted" THEN Append(incomingA \o Pending, r) ELSE incomingA \o Pending
         /\ Users' = Users \cup { n \in Names : r = LoginResponse(n) }
<1> DEFINE k == joined["a"] + Len(delivered["a"]) + 1
<1>1. /\ log \in Seq(Response) /\ Len(log) \in Nat /\ DOMAIN log = 1..Len(log)
      /\ log' = Append(log, r) /\ joined' = joined /\ delivered' = delivered
      /\ joined["a"] \in Nat /\ Len(delivered["a"]) \in Nat
      /\ joined["a"] + Len(delivered["a"]) <= Len(log)
  BY LenProperties, ConnsAssumption DEF RoomInv, RoomType, Publish
<1>2. k \in 1..(Len(log) + 1) /\ k' = k /\ Len(log) + 1 \in k..(Len(log) + 1)
  BY <1>1
<1> HIDE DEF k
<1>3. /\ log' \in Seq(Response) /\ Len(log') = Len(log) + 1 /\ log'[Len(log) + 1] = r
      /\ DOMAIN log' = 1..(Len(log) + 1) /\ \A i \in 1..Len(log) : log'[i] = log[i]
  BY <1>1, AppendProperties, LenProperties
<1>4. incomingA \in Seq(Response) /\ Pending \in Seq(Response)
  BY PendingType
<1>5. ASSUME linkA = "accepted"
      PROVE  (incomingA \o Pending)' = Append(incomingA \o Pending, r)
  <2>1. Pending = SubSeq(log, k, Len(log)) /\ Pending' = SubSeq(log', k, Len(log) + 1)
    BY <1>2, <1>3, <1>5 DEF Pending, k
  <2>2. SubSeq(log', k, Len(log) + 1) = SubSeq(log', k, Len(log) + 1 - 1) \o <<r>>
    BY <1>2, <1>3, SubSeqRecursiveSecond
  <2>3. SubSeq(log', k, Len(log)) = SubSeq(log, k, Len(log))
    <3>1. CASE k = Len(log) + 1
      BY <1>1, <1>2, <3>1, SubSeqEmpty
    <3>2. CASE k # Len(log) + 1
      <4>1. k \in 1..Len(log) /\ Len(log) \in 1..Len(log)
        BY <1>1, <1>2, <3>2
      <4>2. log' = log \o <<r>> /\ <<r>> \in Seq(Response)
        BY <1>1, AppendIsConcat
      <4> QED BY <1>1, <4>1, <4>2, SubSeqOfConcat1
    <3> QED BY <3>1, <3>2
  <2>4. Len(log) + 1 - 1 = Len(log)
    BY <1>1
  <2>5. Pending' = Append(Pending, r)
    BY <1>4, <2>1, <2>2, <2>3, <2>4, AppendIsConcat
  <2> QED BY <1>4, <2>5, Assumptions, PA!ReplyAppends
<1>6. ASSUME linkA # "accepted" PROVE (incomingA \o Pending)' = incomingA \o Pending
  BY <1>6 DEF Pending
<1>7. Users' = Users \cup { n \in Names : r = LoginResponse(n) }
  <2>1. ASSUME NEW n \in Names
        PROVE  (\E i \in DOMAIN log' : log'[i] = LoginResponse(n)) <=>
                 (\E i \in DOMAIN log : log[i] = LoginResponse(n)) \/ r = LoginResponse(n)
    <3>1. \A i \in 1..(Len(log) + 1) : i \in 1..Len(log) \/ i = Len(log) + 1
      BY <1>1
    <3>2. Len(log) + 1 \in 1..(Len(log) + 1) /\ \A i \in 1..Len(log) : i \in 1..(Len(log) + 1)
      BY <1>1
    <3> QED BY <1>1, <1>3, <3>1, <3>2
  <2> QED BY <2>1 DEF Users
<1> QED BY <1>5, <1>6, <1>7

(* Its request is answered.                                                *)
LEMMA AnswerView ==
  ASSUME RoomInv, FineA, CountInv, AnswerA
  PROVE  View!NetNext
<1>1. /\ linkA = "accepted" /\ outgoingA # <<>> /\ Answer(Head(outgoingA))
      /\ outgoingA' = Tail(outgoingA) /\ origin' = Append(origin, "a")
      /\ UNCHANGED restA /\ UNCHANGED incomingA /\ linkA' = linkA
  BY DEF AnswerA, restA
<1>2. ByOthers' = ByOthers
  BY <1>1, ByOthersSteps DEF CountInv
<1>3. ASSUME NEW r \in Response, Publish(r)
      PROVE  /\ (incomingA \o Pending)' = Append(incomingA \o Pending, r)
             /\ Users' = Users \cup { n \in Names : r = LoginResponse(n) }
  BY <1>1, <1>3, Heralds
<1>4. /\ \A n : View!LoginRequest(n) = LoginRequest(n) /\ View!LoginResponse(n) = LoginResponse(n)
      /\ \A n, p : /\ View!MessageRequest(n, p) = MessageRequest(n, p)
                   /\ View!MessageResponse(n, p) = MessageResponse(n, p)
      /\ View!NameInUse = NameInUse
  BY DEF View!LoginRequest, LoginRequest, View!LoginResponse, LoginResponse,
         View!MessageRequest, MessageRequest, View!MessageResponse, MessageResponse,
         View!NameInUse, NameInUse, View!ServerError, ServerError, View!SERVER_SENDER,
         SERVER_SENDER
<1>5. ASSUME NEW n \in Names, Head(outgoingA) = LoginRequest(n),
             IF n \in Users THEN Refuse ELSE LogIn(n)
      PROVE  View!AnswerLogin(n)
  <2>1. CASE n \in Users
    <3>1. Publish(NameInUse) /\ NameInUse \in Response
      BY <1>5, <2>1, Kinds DEF Refuse
    <3>2. \A m \in Names : NameInUse # LoginResponse(m)
      BY Kinds DEF LoginResponse
    <3>3. Users' = Users \cup {n} /\ (incomingA \o Pending)' = Append(incomingA \o Pending, NameInUse)
      BY <1>3, <2>1, <3>1, <3>2
    <3> QED BY <1>1, <1>2, <1>4, <1>5, <2>1, <3>3
            DEF View!AnswerLogin, View!Reply, restA, View!view, View!conn
  <2>2. CASE n \notin Users
    <3>1. Publish(LoginResponse(n)) /\ LoginResponse(n) \in Response
      BY <1>5, <2>2, Kinds DEF LogIn
    <3>2. \A m \in Names : LoginResponse(n) = LoginResponse(m) <=> m = n
      BY Kinds
    <3>3. Users' = Users \cup {n} /\ (incomingA \o Pending)' = Append(incomingA \o Pending, LoginResponse(n))
      BY <1>3, <1>5, <3>1, <3>2
    <3> QED BY <1>1, <1>2, <1>4, <1>5, <2>2, <3>3
            DEF View!AnswerLogin, View!Reply, restA, View!view, View!conn
  <2> QED BY <2>1, <2>2
<1>6. ASSUME NEW n \in Names, NEW p \in Contents, Head(outgoingA) = MessageRequest(n, p), Say(n, p)
      PROVE  View!AnswerMessage(n, p)
  <2>1. Publish(MessageResponse(n, p)) /\ MessageResponse(n, p) \in Response
    BY <1>6, Kinds DEF Say
  <2>2. \A m \in Names : MessageResponse(n, p) # LoginResponse(m)
    BY Kinds
  <2>3. Users' = Users /\ (incomingA \o Pending)' = Append(incomingA \o Pending, MessageResponse(n, p))
    BY <1>3, <2>1, <2>2
  <2> QED BY <1>1, <1>2, <1>4, <1>6, <2>3
          DEF View!AnswerMessage, View!Reply, restA, View!view, View!conn
<1>7. CASE \E n \in Names :
             Head(outgoingA) = LoginRequest(n) /\ (IF n \in Users THEN Refuse ELSE LogIn(n))
  BY <1>5, <1>7 DEF View!NetNext
<1>8. CASE \E n \in Names, p \in Contents : Head(outgoingA) = MessageRequest(n, p) /\ Say(n, p)
  BY <1>6, <1>8 DEF View!NetNext
<1> QED BY <1>1, <1>7, <1>8 DEF Answer

(* Another's request is answered, one of boundedly many.                   *)
LEMMA OtherView ==
  ASSUME RoomInv, FineA, CountInv, AnswerB, OthersSent < MaxClicks + 1
  PROVE  View!NetNext
<1>1. /\ Answer(Head(outgoingB)) /\ origin' = Append(origin, "b") /\ UNCHANGED allA
      /\ linkA' = linkA /\ incomingA' = incomingA
  BY DEF AnswerB, allA, restA
<1>2. /\ Cardinality(ByOthers)' = Cardinality(ByOthers) + 1
      /\ Cardinality(ByOthers) < MaxClicks + 1
  BY <1>1, ByOthersSteps DEF CountInv, OthersSent
<1>3. PICK r \in Answers : Publish(r) /\ \A n \in Users : r # LoginResponse(n)
  <2>1. ASSUME NEW n \in Names, LogIn(n)
        PROVE  \E r \in Answers : Publish(r) /\ \A m \in Users : r # LoginResponse(m)
    <3>1. Publish(LoginResponse(n)) /\ n \notin Users /\ Users \subseteq Names
      BY <2>1 DEF LogIn, Users
    <3>2. \A m \in Users : LoginResponse(n) # LoginResponse(m)
      BY <3>1, Kinds
    <3> QED BY <3>1, <3>2 DEF Answers
  <2>2. ASSUME Refuse
        PROVE  \E r \in Answers : Publish(r) /\ \A m \in Users : r # LoginResponse(m)
    <3>1. \A m \in Users : NameInUse # LoginResponse(m)
      BY Kinds DEF Users
    <3> QED BY <2>2, <3>1 DEF Refuse, Answers
  <2>3. ASSUME NEW n \in Names, NEW p \in Contents, Say(n, p)
        PROVE  \E r \in Answers : Publish(r) /\ \A m \in Users : r # LoginResponse(m)
    <3>1. \A m \in Users : MessageResponse(n, p) # LoginResponse(m)
      BY Kinds DEF Users
    <3> QED BY <2>3, <3>1 DEF Say, Answers
  <2> QED BY <1>1, <2>1, <2>2, <2>3 DEF Answer
<1>4. r \in Response
  BY <1>3, Kinds DEF Answers
<1>5. /\ (incomingA \o Pending)' =
           IF linkA = "accepted" THEN Append(incomingA \o Pending, r) ELSE incomingA \o Pending
      /\ Users' = Users \cup { n \in Names : r = LoginResponse(n) }
  BY <1>1, <1>3, <1>4, Heralds
<1>6. \A n : View!LoginResponse(n) = LoginResponse(n)
  BY DEF View!LoginResponse, LoginResponse
<1>7. View!AnswerOther(r)
  BY <1>1, <1>2, <1>3, <1>5, <1>6
     DEF View!AnswerOther, View!Reply, allA, restA, View!view, View!conn
<1> QED BY <1>3, <1>7 DEF View!NetNext

(* It is handed its next response, which it was due already.               *)
LEMMA ShowView ==
  ASSUME RoomInv, FineA, ShowA
  PROVE  (incomingA \o Pending)' = incomingA \o Pending /\ Users' = Users
<1> DEFINE k == joined["a"] + Len(delivered["a"]) + 1
<1>1. /\ linkA = "accepted" /\ linkA' = linkA /\ Show("a") /\ "a" \in Conns
      /\ incomingA' = Append(incomingA, delivered'["a"][Len(delivered'["a"])])
  BY ConnsAssumption DEF ShowA, restA
<1>2. /\ log \in Seq(Response) /\ Len(log) \in Nat
      /\ joined["a"] \in Nat /\ delivered["a"] \in Seq(Response) /\ Len(delivered["a"]) \in Nat
      /\ delivered \in [Conns -> Seq(Response)]
  BY <1>1, LenProperties DEF RoomInv, RoomType
<1>3. /\ k \in 1..Len(log) /\ Len(log) \in k..Len(log) /\ log' = log /\ joined' = joined
      /\ delivered' = [delivered EXCEPT !["a"] = Append(delivered["a"], log[k])]
  BY <1>1, <1>2 DEF Show
<1>4. log[k] \in Response
  BY <1>2, <1>3, ElementOfSeq
<1>5. /\ delivered'["a"] = Append(delivered["a"], log[k])
      /\ Len(delivered'["a"]) = Len(delivered["a"]) + 1
      /\ delivered'["a"][Len(delivered'["a"])] = log[k]
  BY <1>1, <1>2, <1>3, <1>4, AppendProperties
<1>6. joined'["a"] + Len(delivered'["a"]) + 1 = k + 1
  <2>1. joined'["a"] = joined["a"]
    BY <1>3
  <2> QED BY <1>2, <1>5, <2>1
<1>7. Pending = SubSeq(log, k, Len(log)) /\ Pending' = SubSeq(log, k + 1, Len(log))
  BY <1>1, <1>3, <1>6 DEF Pending
<1> HIDE DEF k
<1>8. Pending = <<log[k]>> \o Pending'
  BY <1>2, <1>3, <1>7, SubSeqRecursiveFirst
<1>9. incomingA \in Seq(Response) /\ Pending' \in Seq(Response) /\ <<log[k]>> \in Seq(Response)
  <2>1. k + 1 \in Int /\ Len(log) \in Int /\ \A i \in (k + 1)..Len(log) : i \in 1..Len(log)
    BY <1>2, <1>3
  <2>2. \A i \in (k + 1)..Len(log) : log[i] \in Response
    BY <1>2, <2>1, ElementOfSeq
  <2> QED BY <1>4, <1>7, <2>1, <2>2, SubSeqProperties, PendingType
<1>10. (incomingA \o <<log[k]>>) \o Pending' = incomingA \o (<<log[k]>> \o Pending')
  BY <1>9, ConcatAssociative
<1>11. incomingA' = incomingA \o <<log[k]>>
  BY <1>1, <1>4, <1>5, <1>9, AppendIsConcat
<1>12. Users' = Users
  BY <1>3 DEF Users
<1> QED BY <1>8, <1>10, <1>11, <1>12

-----------------------------------------------------------------------------
LEMMA ViewInit == Init => View!Init
<1> SUFFICES ASSUME Init PROVE View!Init
  OBVIOUS
<1>1. A!Init /\ log = <<>> /\ origin = <<>>
  BY DEF Init, RoomInit
<1>2. /\ incomingA = <<>> /\ Pending = <<>> /\ incomingA \o Pending = <<>>
  <2>1. incomingA = <<>> /\ linkA = "none"
    BY <1>1 DEF A!Init
  <2> QED BY <2>1, EmptySeq, ConcatEmptySeq DEF Pending
<1>3. Users = {} /\ Cardinality(ByOthers) = 0
  BY <1>1, FS_EmptySet DEF Users, ByOthers
<1> QED BY <1>1, <1>2, <1>3 DEF A!Init, View!Init, A!Blank, View!Blank, A!None, View!None

LEMMA ViewStep ==
  ASSUME MessengerInv, CountInv, AnswerB => OthersSent < MaxClicks + 1, [Next]_vars
  PROVE  View!Next \/ UNCHANGED View!vars
<1>1. RoomInv /\ FineA
  BY DEF MessengerInv
<1> USE DEF View!vars, View!view, View!conn, View!net, restA
<1>2. ASSUME UNCHANGED allA, Pending' = Pending, Users' = Users, ByOthers' = ByOthers
      PROVE  UNCHANGED View!vars
  BY <1>2 DEF allA
<1>3. ASSUME UNCHANGED room, UNCHANGED allA PROVE UNCHANGED View!vars
  BY <1>2, <1>3 DEF allA, room, Pending, Users, ByOthers
<1>4. CASE UNCHANGED vars
  BY <1>3, <1>4 DEF vars
<1>5. CASE ActA
  BY <1>1, <1>5, OwnStepView, CutView DEF ActA, AloneA, View!Next, View!NetNext
<1>6. CASE ActB
  BY <1>3, <1>6 DEF ActB
<1>7. CASE EnterA
  BY <1>1, <1>7, EnterView DEF View!Next, View!NetNext
<1>8. CASE EnterB \/ ShowB
  <2>1. UNCHANGED <<log, origin>> /\ UNCHANGED allA
    BY <1>8 DEF EnterB, Enter, ShowB, Show
  <2>2. joined'["a"] = joined["a"] /\ delivered'["a"] = delivered["a"]
    BY <1>1, <1>8, ConnsAssumption DEF EnterB, Enter, ShowB, Show, RoomInv, RoomType
  <2>3. Pending' = Pending /\ Users' = Users /\ ByOthers' = ByOthers
    BY <2>1, <2>2 DEF allA, Pending, Users, ByOthers
  <2> QED BY <1>2, <2>1, <2>3
<1>9. CASE AnswerA
  BY <1>1, <1>9, AnswerView DEF View!Next
<1>10. CASE AnswerB
  BY <1>1, <1>10, OtherView DEF View!Next
<1>11. CASE ShowA
  <2>1. (incomingA \o Pending)' = incomingA \o Pending /\ Users' = Users /\ ByOthers' = ByOthers
    BY <1>1, <1>11, ShowView DEF ShowA, ByOthers
  <2> QED BY <1>11, <2>1 DEF ShowA
<1> QED BY <1>4, <1>5, <1>6, <1>7, <1>8, <1>9, <1>10, <1>11 DEF Next

(* The first client, seen with the room and the second client for its      *)
(* environment, is a Client: what Client assumes of the server, of the     *)
(* network and of everybody else is what they do.                          *)
THEOREM TheFirstIsAClient == Spec => ViewSpec
<1>1. Init => CountInv
  BY InitCount
<1>2. MessengerInv /\ CountInv /\ [Next]_vars => CountInv'
  BY CountStep
<1>3. Init => View!Init
  BY ViewInit
<1>4. MessengerInv /\ CountInv /\ [Next]_vars => [View!Next]_View!vars
  BY CountStep, ViewStep
<1> QED BY <1>1, <1>2, <1>3, <1>4, MessengerHolds, PTL DEF Spec, ViewSpec, View!Spec
=============================================================================
