---------------------------- MODULE ClientProofs ----------------------------
(***************************************************************************)
(* Theorems about Client, for every name, address and bound, and whatever  *)
(* other clients make the server broadcast.                                *)
(***************************************************************************)
EXTENDS Client, SequenceTheorems, TLAPS

(* An exception ends the process and changes nothing else; so only these   *)
(* steps are of interest.                                                  *)
Crashes ==
  TaskTooEarly \/ VisitThrows \/ \E a \in Addresses : LoginUnknownHost(a)

LEMMA CrashFrame ==
  ASSUME Crashes
  PROVE  /\ app' = "crashed"
         /\ UNCHANGED <<state, ui, view, looper, conn, tasks, reader, visited, net, clicks, received>>
BY DEF Crashes, TaskTooEarly, VisitThrows, LoginUnknownHost, Crash

LEMMA StepCases ==
  ASSUME [Next]_vars
  PROVE  \/ UNCHANGED vars \/ Crashes
         \/ \E a \in Addresses : Login(a)
         \/ \E p \in Contents : Type(p)
         \/ OnMsgSend \/ LoginNext \/ PostedNext \/ TaskSends
         \/ ReaderLocks \/ ReaderConnects \/ ReaderRefused \/ ReaderEnds
         \/ VisitOwnLogin \/ ShowRoomFragment \/ Announce
         \/ \E n \in Names : VisitOtherLogin(n) \/ \E p \in Contents : VisitMessage(n, p)
         \/ \E n \in Names : AnswerLogin(n) \/ \E p \in Contents : AnswerMessage(n, p)
         \/ \E r \in Others : AnswerOther(r)
         \/ Accept \/ LinkLost
BY DEF Next, OwnNext, UserNext, TaskNext, ReaderNext, NetNext, Crashes

(* The name that was typed does not change.                                *)
LEMMA UserStays ==
  ASSUME [Next]_vars
  PROVE  user' = user
<1> USE DEF conn
<1>1. CASE UNCHANGED vars
  BY <1>1 DEF vars
<1>2. CASE Crashes
  BY <1>2, CrashFrame
<1>3. CASE (\E a \in Addresses : Login(a)) \/ (\E p \in Contents : Type(p)) \/ OnMsgSend
  BY <1>3 DEF Login, Type, OnMsgSend
<1>4. CASE LoginNext \/ PostedNext \/ TaskSends
  BY <1>4 DEF LoginNext, LoginConnected, LoginSend, LoginAttempted,
              PostedNext, RunCommit, RunClear, RunRow, TaskSends
<1>5. CASE \/ ReaderLocks \/ ReaderConnects \/ ReaderRefused \/ ReaderEnds
           \/ ShowRoomFragment \/ Announce
  BY <1>5 DEF ReaderLocks, ReaderConnects, ReaderRefused, ReaderEnds, ShowRoomFragment, Announce
<1>6. CASE VisitOwnLogin \/ \E n \in Names : VisitOtherLogin(n)
  BY <1>6 DEF VisitOwnLogin, VisitOtherLogin, Read
<1>7. CASE \E n \in Names, p \in Contents : VisitMessage(n, p) \/ AnswerMessage(n, p)
  BY <1>7 DEF VisitMessage, AnswerMessage, Read
<1>8. CASE \/ \E n \in Names : AnswerLogin(n)
           \/ \E r \in Others : AnswerOther(r)
           \/ Accept \/ LinkLost
  BY <1>8 DEF AnswerLogin, AnswerOther, Accept, LinkLost
<1> QED BY <1>1, <1>2, <1>3, <1>4, <1>5, <1>6, <1>7, <1>8, StepCases

-----------------------------------------------------------------------------
(* The vocabulary.                                                         *)
LEMMA Vocabulary ==
  /\ \A n \in Names : LoginRequest(n) \in Request /\ LoginResponse(n) \in Response
  /\ \A n \in Names, p \in Contents :
       MessageRequest(n, p) \in Request /\ MessageResponse(n, p) \in Response
  /\ NameInUse \in Response
<1>1. \A n \in Names : LoginRequest(n) \in Request /\ LoginResponse(n) \in Response
  BY DEF Request, Response
<1>2. \A n \in Names, p \in Contents :
        MessageRequest(n, p) \in Request /\ MessageResponse(n, p) \in Response
  BY DEF Request, Response
<1>3. NameInUse \in Response
  <2>1. "USER_NAME_IN_USE" \in ErrorCode BY DEF ErrorCode
  <2> QED BY <2>1 DEF NameInUse, Response
<1> QED BY <1>1, <1>2, <1>3

(* A login response names one user, and is no other response.              *)
LEMMA LoginResponseNames ==
  ASSUME NEW n, LoginResponse(n) = LoginResponse(user)
  PROVE  n = user
BY DEF LoginResponse

LEMMA NotALogin ==
  ASSUME NEW n, NEW p
  PROVE  /\ MessageResponse(n, p) # LoginResponse(user)
         /\ NameInUse # LoginResponse(user)
         /\ LoginRequest(n).type # "MessageRequest"
<1>1. /\ MessageResponse(n, p).type = "MessageResponse"
      /\ NameInUse.type = "ServerError"
      /\ LoginResponse(user).type = "LoginResponse"
  BY DEF MessageResponse, NameInUse, ServerError, LoginResponse
<1>2. LoginRequest(n).type # "MessageRequest"
  BY DEF LoginRequest
<1> QED BY <1>1, <1>2

-----------------------------------------------------------------------------
(* Type correctness.                                                       *)
Announcing == reader \in {"showing", "announcing"} => visited \in Response

LEMMA InitType == Init => TypeOK /\ Announcing
<1> SUFFICES ASSUME Init PROVE TypeOK /\ Announcing
  OBVIOUS
<1>1. others \in 0..MaxOthers /\ clicks \in 0..MaxClicks
  BY BoundAssumption DEF Init
<1>2. sock \in BOOLEAN
  BY DEF Init
<1>3. <<>> \in Seq(Runnable) /\ <<>> \in Seq(Response) /\ <<>> \in Seq(Request)
  OBVIOUS
<1>4. TypeOK
  BY <1>1, <1>2, <1>3 DEF Init, TypeOK, State
<1> QED BY <1>4 DEF Init, Announcing

LEMMA TypeStep ==
  ASSUME TypeOK, Announcing, [Next]_vars
  PROVE  TypeOK'
<1> USE DEF TypeOK, State, view, conn, net
<1>0. user' = user /\ user \in Names
  BY UserStays
<1>1. CASE UNCHANGED vars
  BY <1>1 DEF vars
<1>2. CASE Crashes
  BY <1>2, CrashFrame
<1>3. ASSUME NEW a \in Addresses, Login(a) PROVE TypeOK'
  BY <1>3 DEF Login
<1>4. ASSUME NEW p \in Contents, Type(p) PROVE TypeOK'
  BY <1>4 DEF Type
<1>5. CASE OnMsgSend
  <2>1. draft \in Contents BY <1>5 DEF OnMsgSend
  <2>2. MessageRequest(user, draft) \in Request BY <2>1, Vocabulary
  <2>3. tasks' \in Seq(Request) BY <1>5, <2>2, AppendProperties DEF OnMsgSend
  <2>4. clicks' \in 0..MaxClicks BY <1>5, BoundAssumption DEF OnMsgSend
  <2> QED BY <1>5, <2>3, <2>4 DEF OnMsgSend
<1>6. CASE LoginNext
  <2>1. LoginRequest(user) \in Request BY Vocabulary
  <2>2. Append(tasks, LoginRequest(user)) \in Seq(Request) BY <2>1, AppendProperties
  <2> QED BY <1>6, <2>2 DEF LoginNext, LoginConnected, LoginSend, LoginAttempted
<1>7. CASE PostedNext
  <2>1. looper # <<>> /\ looper' = Tail(looper)
    BY <1>7 DEF PostedNext, RunCommit, RunClear, RunRow, Post
  <2>2. looper' \in Seq(Runnable) BY <2>1, HeadTailProperties
  <2>3. ASSUME NEW r \in Response, RunRow(r) PROVE TypeOK'
    <3>1. screen' \in Seq(Response) BY <2>3, AppendProperties DEF RunRow
    <3> QED BY <2>2, <2>3, <3>1 DEF RunRow
  <2>4. CASE RunCommit \/ RunClear
    BY <2>2, <2>4 DEF RunCommit, RunClear
  <2> QED BY <1>7, <2>3, <2>4 DEF PostedNext
<1>8. CASE TaskSends
  <2>1. Head(tasks) \in Request /\ tasks' \in Seq(Request)
    BY <1>8, HeadTailProperties DEF TaskSends
  <2>2. outgoing' \in Seq(Request) BY <1>8, <2>1, AppendProperties DEF TaskSends
  <2> QED BY <1>8, <2>1, <2>2 DEF TaskSends
<1>9. CASE ReaderLocks \/ ReaderConnects \/ ReaderRefused \/ ReaderEnds
  BY <1>9 DEF ReaderLocks, ReaderConnects, ReaderRefused, ReaderEnds
<1>10. ASSUME NEW r \in Response, Read(r)
       PROVE  incoming' \in Seq(Response) /\ received' \in Seq(Response)
  BY <1>10, HeadTailProperties, AppendProperties DEF Read
<1>11. ASSUME NEW n \in Names, VisitOwnLogin \/ VisitOtherLogin(n) PROVE TypeOK'
  <2>1. PICK m \in Names : Read(LoginResponse(m)) /\ visited' = LoginResponse(m)
    BY <1>11 DEF VisitOwnLogin, VisitOtherLogin
  <2>2. LoginResponse(m) \in Response BY Vocabulary
  <2>3. incoming' \in Seq(Response) /\ received' \in Seq(Response)
    BY <1>10, <2>1, <2>2
  <2>4. visited' \in Response
    BY <2>1, <2>2
  <2> QED BY <1>11, <2>3, <2>4 DEF VisitOwnLogin, VisitOtherLogin, Read
<1>12. CASE ShowRoomFragment
  <2>1. Commit \in Runnable BY DEF Runnable
  <2>2. looper' \in Seq(Runnable) BY <1>12, <2>1, AppendProperties DEF ShowRoomFragment
  <2> QED BY <1>12, <2>2 DEF ShowRoomFragment
<1>13. CASE Announce
  <2>1. looper' \in Seq(Runnable)
    <3>1. CASE state = "ISLOGGEDIN"
      <4>1. visited \in Response BY <1>13 DEF Announce, Announcing
      <4>2. Row(visited) \in Runnable BY <4>1 DEF Runnable
      <4> QED BY <1>13, <3>1, <4>2, AppendProperties DEF Announce
    <3> QED BY <1>13, <3>1 DEF Announce
  <2> QED BY <1>13, <2>1 DEF Announce
<1>14. ASSUME NEW n \in Names, NEW p \in Contents, VisitMessage(n, p) PROVE TypeOK'
  <2>1. MessageResponse(n, p) \in Response BY Vocabulary
  <2>2. incoming' \in Seq(Response) /\ received' \in Seq(Response)
    BY <1>10, <1>14, <2>1 DEF VisitMessage
  <2>3. Clear \in Runnable /\ Row(MessageResponse(n, p)) \in Runnable
    BY <2>1 DEF Runnable
  <2>4. <<Clear>> \in Seq(Runnable) /\ <<Row(MessageResponse(n, p))>> \in Seq(Runnable)
    BY <2>3
  <2>5. looper' \in Seq(Runnable)
    BY <1>14, <2>4, ConcatProperties DEF VisitMessage
  <2> QED BY <1>14, <2>2, <2>5 DEF VisitMessage, Read
<1>15. ASSUME NEW r \in Response, Reply(r) PROVE incoming' \in Seq(Response)
  BY <1>15, AppendProperties DEF Reply
<1>16. ASSUME NEW n \in Names, AnswerLogin(n) PROVE TypeOK'
  <2>1. incoming' \in Seq(Response)
    BY <1>15, <1>16, Vocabulary DEF AnswerLogin
  <2>2. outgoing' \in Seq(Request)
    BY <1>16, HeadTailProperties DEF AnswerLogin
  <2> QED BY <1>16, <2>1, <2>2 DEF AnswerLogin
<1>17. ASSUME NEW n \in Names, NEW p \in Contents, AnswerMessage(n, p) PROVE TypeOK'
  <2>1. incoming' \in Seq(Response)
    BY <1>15, <1>17, Vocabulary DEF AnswerMessage
  <2>2. outgoing' \in Seq(Request)
    BY <1>17, HeadTailProperties DEF AnswerMessage
  <2> QED BY <1>17, <2>1, <2>2 DEF AnswerMessage
<1>18. ASSUME NEW r \in Others, AnswerOther(r) PROVE TypeOK'
  <2>1. incoming' \in Seq(Response)
    <3>1. CASE Reply(r) BY <1>15, <3>1, OthersAssumption
    <3>2. CASE incoming' = incoming BY <3>2
    <3> QED BY <1>18, <3>1, <3>2 DEF AnswerOther
  <2>2. others' \in 0..MaxOthers
    BY <1>18, BoundAssumption DEF AnswerOther
  <2> QED BY <1>18, <2>1, <2>2 DEF AnswerOther
<1>19. CASE LinkLost
  <2>1. PICK n \in 0..Len(incoming) : incoming' = SubSeq(incoming, 1, n)
    BY <1>19 DEF LinkLost
  <2>2. \A i \in 1..n : incoming[i] \in Response
    BY ElementOfSeq
  <2>3. incoming' \in Seq(Response)
    BY <2>1, <2>2, SubSeqProperties
  <2>4. outgoing' \in Seq(Request)
    BY <1>19 DEF LinkLost
  <2> QED BY <1>19, <2>3, <2>4 DEF LinkLost
<1>20. CASE Accept
  BY <1>20 DEF Accept
<1> QED BY <1>1, <1>2, <1>3, <1>4, <1>5, <1>6, <1>7, <1>8, <1>9, <1>11, <1>12,
           <1>13, <1>14, <1>16, <1>17, <1>18, <1>19, <1>20, <1>0, StepCases

(* The reader announces what it has read.                                  *)
LEMMA AnnouncingStep ==
  ASSUME TypeOK, Announcing, [Next]_vars
  PROVE  Announcing'
<1> USE DEF Announcing
<1>1. CASE UNCHANGED vars
  BY <1>1 DEF vars
<1>2. CASE Crashes
  BY <1>2, CrashFrame
<1>3. CASE (\E a \in Addresses : Login(a)) \/ (\E p \in Contents : Type(p)) \/ OnMsgSend
  BY <1>3 DEF Login, Type, OnMsgSend
<1>4. CASE LoginNext \/ PostedNext \/ TaskSends
  BY <1>4 DEF LoginNext, LoginConnected, LoginSend, LoginAttempted,
              PostedNext, RunCommit, RunClear, RunRow, TaskSends
<1>5. CASE ReaderLocks \/ ReaderConnects \/ ReaderRefused \/ ReaderEnds \/ ShowRoomFragment \/ Announce
  BY <1>5 DEF ReaderLocks, ReaderConnects, ReaderRefused, ReaderEnds, ShowRoomFragment, Announce
<1>6. CASE VisitOwnLogin \/ \E n \in Names : VisitOtherLogin(n)
  BY <1>6, Vocabulary DEF VisitOwnLogin, VisitOtherLogin, TypeOK
<1>7. CASE \E n \in Names, p \in Contents : VisitMessage(n, p) \/ AnswerMessage(n, p)
  BY <1>7 DEF VisitMessage, AnswerMessage
<1>8. CASE (\E n \in Names : AnswerLogin(n)) \/ (\E r \in Others : AnswerOther(r))
  BY <1>8 DEF AnswerLogin, AnswerOther
<1>9. CASE Accept \/ LinkLost
  BY <1>9 DEF Accept, LinkLost
<1> QED BY <1>1, <1>2, <1>3, <1>4, <1>5, <1>6, <1>7, <1>8, <1>9, StepCases

(* Every variable has its type in every state of every behaviour.          *)
THEOREM TypeCorrect == Spec => []TypeOK
<1>1. TypeOK /\ Announcing /\ [Next]_vars => (TypeOK /\ Announcing)'
  BY TypeStep, AnnouncingStep
<1> QED BY <1>1, InitType, PTL DEF Spec

LEMMA Types == Spec => [](TypeOK /\ Announcing)
<1>1. TypeOK /\ Announcing /\ [Next]_vars => (TypeOK /\ Announcing)'
  BY TypeStep, AnnouncingStep
<1> QED BY <1>1, InitType, PTL DEF Spec

-----------------------------------------------------------------------------
(* The room is there before anything is posted for it: whoever believes to *)
(* be logged in, and has left showRoomFragment, has posted the transaction.*)
Opened ==
  fragment = "room" \/ \E j \in DOMAIN looper : looper[j] = Commit

RoomInv ==
  /\ RoomFirst
  /\ state = "ISLOGGEDIN" /\ reader # "showing" => Opened

(* Posting for the views of a room that has been opened.                   *)
LEMMA PostLater ==
  ASSUME looper \in Seq(Runnable), RoomFirst, Opened,
         NEW items \in Seq(Runnable), looper' = looper \o items,
         fragment' = fragment
  PROVE  RoomFirst' /\ Opened'
<1>1. /\ Len(looper \o items) = Len(looper) + Len(items)
      /\ \A i \in 1..(Len(looper) + Len(items)) :
           (looper \o items)[i] =
             IF i <= Len(looper) THEN looper[i] ELSE items[i - Len(looper)]
      /\ looper \o items \in Seq(Runnable)
  BY ConcatProperties
<1>2. /\ DOMAIN looper = 1..Len(looper) /\ Len(looper) \in Nat /\ Len(items) \in Nat
      /\ DOMAIN looper' = 1..(Len(looper) + Len(items))
      /\ \A i \in 1..Len(looper) : looper'[i] = looper[i]
  BY <1>1
<1>3. Opened'
  BY <1>2 DEF Opened
<1>4. ASSUME NEW i \in DOMAIN looper', looper'[i] # Commit
      PROVE  fragment' = "room" \/ \E j \in 1..(i - 1) : looper'[j] = Commit
  <2>1. i \in 1..(Len(looper) + Len(items)) /\ Len(looper) \in Nat /\ Len(items) \in Nat
    BY <1>2, <1>4
  <2>2. CASE i \in 1..Len(looper)
    BY <1>2, <1>4, <2>2 DEF RoomFirst
  <2>3. CASE i > Len(looper)
    BY <1>2, <1>4, <2>1, <2>3 DEF Opened
  <2> QED BY <2>1, <2>2, <2>3
<1> QED BY <1>3, <1>4 DEF RoomFirst

LEMMA RoomStep ==
  ASSUME TypeOK, TypeOK', Announcing, RoomInv, [Next]_vars
  PROVE  RoomInv'
<1> USE DEF RoomInv
<1>1. ASSUME UNCHANGED <<state, fragment, looper>>,
             reader' = "showing" \/ reader # "showing" \/ state # "ISLOGGEDIN"
      PROVE  RoomInv'
  BY <1>1 DEF RoomFirst, Opened
<1>2. ASSUME UNCHANGED <<fragment, looper>>, state' # "ISLOGGEDIN"
      PROVE  RoomInv'
  BY <1>2 DEF RoomFirst
<1> USE DEF view, conn, net
<1>3. CASE UNCHANGED vars
  BY <1>1, <1>3 DEF vars
<1>4. CASE Crashes
  BY <1>1, <1>4, CrashFrame
<1>5. CASE \E a \in Addresses : Login(a)
  BY <1>1, <1>5 DEF Login
<1>6. CASE (\E p \in Contents : Type(p)) \/ OnMsgSend
  BY <1>1, <1>6 DEF Type, OnMsgSend
<1>7. CASE LoginNext
  BY <1>1, <1>2, <1>7 DEF LoginNext, LoginConnected, LoginSend, LoginAttempted
<1>8. CASE PostedNext
  <2>1. fragment' = "room"
    BY <1>8 DEF PostedNext, RunCommit, RunClear, RunRow
  <2>2. RoomFirst'
    BY <2>1 DEF RoomFirst
  <2>3. Opened'
    BY <2>1 DEF Opened
  <2> QED BY <2>2, <2>3
<1>9. CASE TaskSends
  BY <1>1, <1>9 DEF TaskSends
<1>10. CASE ReaderLocks \/ ReaderConnects \/ ReaderRefused \/ ReaderEnds
  BY <1>1, <1>10 DEF ReaderLocks, ReaderConnects, ReaderRefused, ReaderEnds
<1>11. CASE VisitOwnLogin
  BY <1>11 DEF VisitOwnLogin, Read, RoomFirst
<1>12. CASE ShowRoomFragment
  <2>1. looper' = Append(looper, Commit) /\ UNCHANGED <<state, fragment>>
    BY <1>12 DEF ShowRoomFragment
  <2>2. looper \in Seq(Runnable) /\ Commit \in Runnable
    BY DEF TypeOK, Runnable
  <2>3. /\ Len(looper') = Len(looper) + 1 /\ Len(looper) \in Nat
        /\ DOMAIN looper' = 1..(Len(looper) + 1) /\ DOMAIN looper = 1..Len(looper)
        /\ \A i \in 1..Len(looper) : looper'[i] = looper[i]
        /\ looper'[Len(looper) + 1] = Commit
    BY <2>1, <2>2, AppendProperties
  <2>4. Opened'
    BY <2>3 DEF Opened
  <2>5. RoomFirst'
    BY <2>1, <2>3 DEF RoomFirst
  <2> QED BY <2>4, <2>5
<1>13. CASE Announce
  <2>1. CASE state = "ISLOGGEDIN"
    <3>1. Row(visited) \in Runnable
      BY <1>13 DEF Announce, Announcing, Runnable
    <3>2. looper \in Seq(Runnable)
      BY DEF TypeOK
    <3>3. looper' = looper \o <<Row(visited)>>
      BY <1>13, <2>1, <3>1, <3>2, AppendIsConcat DEF Announce
    <3>4. Opened
      BY <1>13, <2>1 DEF Announce
    <3>5. <<Row(visited)>> \in Seq(Runnable) /\ fragment' = fragment
      BY <1>13, <3>1 DEF Announce
    <3> QED BY <3>2, <3>3, <3>4, <3>5, PostLater
  <2>2. CASE state # "ISLOGGEDIN"
    BY <1>1, <1>13, <2>2 DEF Announce
  <2> QED BY <2>1, <2>2
<1>14. ASSUME NEW n \in Names, VisitOtherLogin(n) PROVE RoomInv'
  BY <1>1, <1>14 DEF VisitOtherLogin, Read
<1>15. ASSUME NEW n \in Names, NEW p \in Contents, VisitMessage(n, p) PROVE RoomInv'
  <2>1. CASE state = "ISLOGGEDIN"
    <3>1. Clear \in Runnable /\ Row(MessageResponse(n, p)) \in Runnable
      BY Vocabulary DEF Runnable
    <3>2. PICK items \in Seq(Runnable) : looper' = looper \o items
      <4>1. looper \in Seq(Runnable) BY DEF TypeOK
      <4>2. <<Clear>> \in Seq(Runnable) /\ <<Row(MessageResponse(n, p))>> \in Seq(Runnable)
        BY <3>1
      <4>3. CASE n = user
        <5>1. looper' = (looper \o <<Clear>>) \o <<Row(MessageResponse(n, p))>>
          BY <1>15, <2>1, <4>3 DEF VisitMessage
        <5>2. looper' = looper \o (<<Clear>> \o <<Row(MessageResponse(n, p))>>)
          BY <4>1, <4>2, <5>1, ConcatAssociative
        <5>3. <<Clear>> \o <<Row(MessageResponse(n, p))>> \in Seq(Runnable)
          BY <4>2, ConcatProperties
        <5> QED BY <5>2, <5>3
      <4>4. CASE n # user
        <5>1. looper' = (looper \o <<>>) \o <<Row(MessageResponse(n, p))>>
          BY <1>15, <2>1, <4>4 DEF VisitMessage
        <5>2. looper' = looper \o <<Row(MessageResponse(n, p))>>
          BY <4>1, <5>1, ConcatEmptySeq
        <5> QED BY <4>2, <5>2
      <4> QED BY <4>3, <4>4
    <3>3. Opened
      BY <1>15, <2>1 DEF VisitMessage, Read
    <3>4. looper \in Seq(Runnable) /\ fragment' = fragment
      BY <1>15 DEF TypeOK, VisitMessage, Read
    <3> QED BY <3>2, <3>3, <3>4, PostLater
  <2>2. CASE state # "ISLOGGEDIN"
    BY <1>1, <1>15, <2>2 DEF VisitMessage, Read
  <2> QED BY <2>1, <2>2
<1>16. ASSUME NEW n \in Names, AnswerLogin(n) \/ \E p \in Contents : AnswerMessage(n, p)
       PROVE  RoomInv'
  BY <1>1, <1>16 DEF AnswerLogin, AnswerMessage
<1>17. CASE (\E r \in Others : AnswerOther(r)) \/ Accept \/ LinkLost
  BY <1>1, <1>17 DEF AnswerOther, Accept, LinkLost
<1> QED BY <1>3, <1>4, <1>5, <1>6, <1>7, <1>8, <1>9, <1>10, <1>11, <1>12, <1>13,
           <1>14, <1>15, <1>16, <1>17, StepCases

(* Nothing is ever run on the views of a room that is not there: with rows *)
(* and clears posted by the reader thread, no run of the looper meets one  *)
(* before the transaction that creates the fragment.                       *)
THEOREM RoomComesFirst == Spec => []RoomFirst
<1>1. Init => RoomInv
  BY DEF Init, RoomInv, RoomFirst
<1>2. TypeOK /\ Announcing /\ TypeOK' /\ RoomInv /\ [Next]_vars => RoomInv'
  BY RoomStep
<1>3. RoomInv => RoomFirst
  BY DEF RoomInv
<1> QED BY <1>1, <1>2, <1>3, Types, PTL DEF Spec

-----------------------------------------------------------------------------
(* As long as the server has not accepted the name, nothing says that it   *)
(* has: no response, not the state, and no request depends on it.          *)
AcceptedInv ==
  user \notin taken =>
    /\ state # "ISLOGGEDIN"
    /\ \A i \in DOMAIN incoming : incoming[i] # LoginResponse(user)
    /\ \A i \in DOMAIN tasks : tasks[i].type # "MessageRequest"
    /\ \A i \in DOMAIN outgoing : outgoing[i].type # "MessageRequest"

(* Queues keep a property of their elements.                               *)
LEMMA AppendKeeps ==
  ASSUME NEW S, NEW q \in Seq(S), NEW e \in S, NEW P, e \in P,
         \A i \in DOMAIN q : q[i] \in P
  PROVE  \A i \in DOMAIN Append(q, e) : Append(q, e)[i] \in P
<1>1. /\ DOMAIN q = 1..Len(q) /\ Len(q) \in Nat
      /\ DOMAIN Append(q, e) = 1..(Len(q) + 1)
      /\ \A i \in 1..Len(q) : Append(q, e)[i] = q[i]
      /\ Append(q, e)[Len(q) + 1] = e
  BY AppendProperties
<1> QED BY <1>1

LEMMA TailKeeps ==
  ASSUME NEW S, NEW q \in Seq(S), q # <<>>, NEW P,
         \A i \in DOMAIN q : q[i] \in P
  PROVE  Head(q) \in P /\ \A i \in DOMAIN Tail(q) : Tail(q)[i] \in P
<1>1. /\ DOMAIN q = 1..Len(q) /\ Len(q) \in Nat /\ Len(q) > 0
      /\ DOMAIN Tail(q) = 1..(Len(q) - 1)
      /\ \A i \in 1..(Len(q) - 1) : Tail(q)[i] = q[i + 1]
      /\ Head(q) = q[1]
  BY HeadTailProperties
<1> QED BY <1>1

(* AcceptedInv with its three queues put alike.                            *)
Foreign == { r \in Response : r # LoginResponse(user) }
Quiet   == { r \in Request : r.type # "MessageRequest" }

LEMMA AcceptedAlike ==
  ASSUME TypeOK
  PROVE  AcceptedInv <=>
           (user \notin taken =>
              /\ state # "ISLOGGEDIN"
              /\ \A i \in DOMAIN incoming : incoming[i] \in Foreign
              /\ \A i \in DOMAIN tasks : tasks[i] \in Quiet
              /\ \A i \in DOMAIN outgoing : outgoing[i] \in Quiet)
<1>1. \A i \in DOMAIN incoming : incoming[i] \in Response
  BY DEF TypeOK
<1>2. \A i \in DOMAIN tasks : tasks[i] \in Request
  BY DEF TypeOK
<1>3. \A i \in DOMAIN outgoing : outgoing[i] \in Request
  BY DEF TypeOK
<1> QED BY <1>1, <1>2, <1>3 DEF AcceptedInv, Foreign, Quiet

(* A name that was accepted stays so.                                      *)
LEMMA TakenGrows ==
  ASSUME [Next]_vars
  PROVE  taken \subseteq taken'
<1> USE DEF net
<1>1. CASE UNCHANGED vars
  BY <1>1 DEF vars
<1>2. CASE Crashes
  BY <1>2, CrashFrame
<1>3. CASE (\E a \in Addresses : Login(a)) \/ (\E p \in Contents : Type(p)) \/ OnMsgSend
  BY <1>3 DEF Login, Type, OnMsgSend
<1>4. CASE LoginNext \/ PostedNext \/ TaskSends
  BY <1>4 DEF LoginNext, LoginConnected, LoginSend, LoginAttempted,
              PostedNext, RunCommit, RunClear, RunRow, TaskSends
<1>5. CASE \/ ReaderLocks \/ ReaderConnects \/ ReaderRefused \/ ReaderEnds
           \/ ShowRoomFragment \/ Announce
  BY <1>5 DEF ReaderLocks, ReaderConnects, ReaderRefused, ReaderEnds, ShowRoomFragment, Announce
<1>6. CASE VisitOwnLogin \/ \E n \in Names : VisitOtherLogin(n)
  BY <1>6 DEF VisitOwnLogin, VisitOtherLogin, Read
<1>7. CASE \E n \in Names, p \in Contents : VisitMessage(n, p) \/ AnswerMessage(n, p)
  BY <1>7 DEF VisitMessage, AnswerMessage, Read
<1>8. CASE \/ \E n \in Names : AnswerLogin(n)
           \/ \E r \in Others : AnswerOther(r)
           \/ Accept \/ LinkLost
  BY <1>8 DEF AnswerLogin, AnswerOther, Accept, LinkLost
<1> QED BY <1>1, <1>2, <1>3, <1>4, <1>5, <1>6, <1>7, <1>8, StepCases

LEMMA AcceptedStep ==
  ASSUME TypeOK, TypeOK', AcceptedInv, [Next]_vars
  PROVE  AcceptedInv'
<1>0. user' = user /\ user \in Names
  BY UserStays DEF TypeOK
<1>1. SUFFICES ASSUME user \notin taken'
               PROVE  /\ state' # "ISLOGGEDIN"
                      /\ \A i \in DOMAIN incoming' : incoming'[i] \in Foreign
                      /\ \A i \in DOMAIN tasks' : tasks'[i] \in Quiet
                      /\ \A i \in DOMAIN outgoing' : outgoing'[i] \in Quiet
  <2>1. TypeOK' => (AcceptedInv' <=>
           (user \notin taken' =>
              /\ state' # "ISLOGGEDIN"
              /\ \A i \in DOMAIN incoming' : incoming'[i] \in Foreign
              /\ \A i \in DOMAIN tasks' : tasks'[i] \in Quiet
              /\ \A i \in DOMAIN outgoing' : outgoing'[i] \in Quiet))
    <3>1. \A i \in DOMAIN incoming' : TypeOK' => incoming'[i] \in Response
      BY DEF TypeOK
    <3>2. \A i \in DOMAIN tasks' : TypeOK' => tasks'[i] \in Request
      BY DEF TypeOK
    <3>3. \A i \in DOMAIN outgoing' : TypeOK' => outgoing'[i] \in Request
      BY DEF TypeOK
    <3> QED BY <1>0, <3>1, <3>2, <3>3 DEF AcceptedInv, Foreign, Quiet
  <2> QED BY <2>1
<1> DEFINE Q == /\ state # "ISLOGGEDIN"
                /\ \A i \in DOMAIN incoming : incoming[i] \in Foreign
                /\ \A i \in DOMAIN tasks : tasks[i] \in Quiet
                /\ \A i \in DOMAIN outgoing : outgoing[i] \in Quiet
<1>2. taken \subseteq taken' /\ Foreign' = Foreign
  BY <1>0, TakenGrows DEF Foreign
<1>3. Q
  BY <1>1, <1>2, AcceptedAlike
<1>4. /\ incoming \in Seq(Response) /\ tasks \in Seq(Request) /\ outgoing \in Seq(Request)
  BY DEF TypeOK
<1> SUFFICES Q'
  BY <1>0 DEF Q, Foreign
<1> HIDE DEF Q
<1>5. ASSUME state' = state, incoming' = incoming, tasks' = tasks, outgoing' = outgoing
      PROVE  Q'
  BY <1>2, <1>3, <1>5 DEF Q
<1>6. ASSUME UNCHANGED <<state, tasks, outgoing>>, incoming # <<>>, incoming' = Tail(incoming)
      PROVE  Q' /\ Head(incoming) \in Foreign
  BY <1>2, <1>3, <1>4, <1>6, TailKeeps DEF Q
<1>7. ASSUME NEW r \in Foreign, Reply(r), UNCHANGED <<state, tasks>>,
             outgoing' = outgoing \/ (outgoing # <<>> /\ outgoing' = Tail(outgoing))
      PROVE  Q'
  <2>1. r \in Response BY <1>7 DEF Foreign
  <2>2. \A i \in DOMAIN incoming' : incoming'[i] \in Foreign
    BY <1>3, <1>4, <1>7, <2>1, AppendKeeps DEF Q, Reply
  <2>3. \A i \in DOMAIN outgoing' : outgoing'[i] \in Quiet
    BY <1>3, <1>4, <1>7, TailKeeps DEF Q
  <2> QED BY <1>2, <1>3, <1>7, <2>2, <2>3 DEF Q
<1> USE DEF view, conn, net
<1>8. CASE UNCHANGED vars
  BY <1>5, <1>8 DEF vars
<1>9. CASE Crashes
  BY <1>5, <1>9, CrashFrame
<1>10. CASE (\E a \in Addresses : Login(a)) \/ (\E p \in Contents : Type(p)) \/ PostedNext
  BY <1>5, <1>10 DEF Login, Type, PostedNext, RunCommit, RunClear, RunRow
<1>11. CASE OnMsgSend
  BY <1>3, <1>11 DEF Q, OnMsgSend
<1>12. CASE LoginNext
  <2>1. CASE LoginSend
    <3>1. LoginRequest(user) \in Quiet
      BY Vocabulary, <1>0, NotALogin DEF Quiet
    <3>2. LoginRequest(user) \in Request BY <3>1 DEF Quiet
    <3>3. \A i \in DOMAIN tasks' : tasks'[i] \in Quiet
      BY <1>3, <1>4, <2>1, <3>1, <3>2, AppendKeeps DEF Q, LoginSend
    <3> QED BY <1>2, <1>3, <2>1, <3>3 DEF Q, LoginSend
  <2>2. CASE LoginConnected \/ LoginAttempted
    BY <1>2, <1>3, <2>2 DEF Q, LoginConnected, LoginAttempted
  <2> QED BY <1>12, <2>1, <2>2 DEF LoginNext
<1>13. CASE TaskSends
  <2>1. Head(tasks) \in Quiet /\ \A i \in DOMAIN tasks' : tasks'[i] \in Quiet
    BY <1>3, <1>4, <1>13, TailKeeps DEF Q, TaskSends
  <2>2. Head(tasks) \in Request BY <2>1 DEF Quiet
  <2>3. \A i \in DOMAIN outgoing' : outgoing'[i] \in Quiet
    BY <1>3, <1>4, <1>13, <2>1, <2>2, AppendKeeps DEF Q, TaskSends
  <2> QED BY <1>2, <1>3, <1>13, <2>1, <2>3 DEF Q, TaskSends
<1>14. CASE \/ ReaderLocks \/ ReaderConnects \/ ReaderRefused \/ ReaderEnds
            \/ ShowRoomFragment \/ Announce
  BY <1>5, <1>14 DEF ReaderLocks, ReaderConnects, ReaderRefused, ReaderEnds, ShowRoomFragment, Announce
<1>15. CASE VisitOwnLogin
  <2>1. incoming # <<>> /\ Head(incoming) = LoginResponse(user)
    BY <1>15 DEF VisitOwnLogin, Read
  <2>2. Head(incoming) \in Foreign
    BY <1>3, <1>4, <2>1, TailKeeps DEF Q
  <2> QED BY <2>1, <2>2 DEF Foreign
<1>16. ASSUME NEW n \in Names, VisitOtherLogin(n) \/ \E p \in Contents : VisitMessage(n, p)
       PROVE  Q'
  BY <1>6, <1>16 DEF VisitOtherLogin, VisitMessage, Read
<1>17. ASSUME NEW n \in Names, AnswerLogin(n) PROVE Q'
  <2>1. n \in taken' BY <1>17 DEF AnswerLogin
  <2>2. LoginResponse(n) # LoginResponse(user)
    BY <1>1, <2>1, LoginResponseNames
  <2>3. LoginResponse(n) \in Foreign /\ NameInUse \in Foreign
    BY <2>2, Vocabulary, NotALogin DEF Foreign
  <2> QED BY <1>7, <1>17, <2>3 DEF AnswerLogin
<1>18. ASSUME NEW n \in Names, NEW p \in Contents, AnswerMessage(n, p) PROVE Q'
  <2>1. MessageResponse(n, p) \in Foreign
    BY Vocabulary, NotALogin DEF Foreign
  <2> QED BY <1>7, <1>18, <2>1 DEF AnswerMessage
<1>19. ASSUME NEW r \in Others, AnswerOther(r) PROVE Q'
  <2>1. r # LoginResponse(user)
    BY <1>1, <1>19, <1>0 DEF AnswerOther
  <2>2. r \in Foreign
    BY <2>1, OthersAssumption DEF Foreign
  <2>3. CASE Reply(r) BY <1>7, <1>19, <2>2, <2>3 DEF AnswerOther
  <2>4. CASE incoming' = incoming BY <1>5, <1>19, <2>4 DEF AnswerOther
  <2> QED BY <1>19, <2>3, <2>4 DEF AnswerOther
<1>20. CASE LinkLost
  <2>1. PICK n \in 0..Len(incoming) : incoming' = SubSeq(incoming, 1, n)
    BY <1>20 DEF LinkLost
  <2>2. /\ DOMAIN incoming = 1..Len(incoming) /\ Len(incoming) \in Nat
        /\ \A i \in 1..n : incoming[i] \in Response
    BY <1>4
  <2>3. DOMAIN incoming' = 1..n /\ \A i \in 1..n : incoming'[i] = incoming[i]
    BY <2>1, <2>2, SubSeqProperties
  <2>4. \A i \in DOMAIN incoming' : incoming'[i] \in Foreign
    BY <1>3, <2>2, <2>3 DEF Q
  <2>5. DOMAIN outgoing' = {} /\ tasks' = tasks /\ state' = state
    BY <1>20 DEF LinkLost
  <2> QED BY <1>2, <1>3, <2>4, <2>5 DEF Q
<1>21. CASE Accept
  BY <1>5, <1>21 DEF Accept
<1> QED
  BY <1>8, <1>9, <1>10, <1>11, <1>12, <1>13, <1>14, <1>15, <1>16, <1>17, <1>18,
     <1>19, <1>20, <1>21, StepCases

(* A message is sent only under a name that the server has accepted,       *)
(* whichever thread wrote state last and however responses and clicks      *)
(* interleave.                                                             *)
THEOREM TalksOnlyLoggedIn == Spec => []TalksLoggedIn
<1>1. Init => AcceptedInv
  BY DEF Init, AcceptedInv
<1>2. TypeOK /\ Announcing /\ TypeOK' /\ AcceptedInv /\ [Next]_vars => AcceptedInv'
  BY AcceptedStep
<1>3. AcceptedInv => TalksLoggedIn
  BY DEF AcceptedInv, TalksLoggedIn, Range
<1> QED BY <1>1, <1>2, <1>3, Types, PTL DEF Spec
-----------------------------------------------------------------------------
(* A client's requests bear its user's name.                               *)
Signed == {LoginRequest(user)} \cup { MessageRequest(user, p) : p \in Contents }

SignedInv ==
  /\ \A i \in DOMAIN tasks : tasks[i] \in Signed
  /\ \A i \in DOMAIN outgoing : outgoing[i] \in Signed

LEMMA SignedStep ==
  ASSUME TypeOK, SignedInv, [Next]_vars
  PROVE  SignedInv'
<1>1. user' = user /\ user \in Names /\ Signed' = Signed
  BY UserStays DEF TypeOK, Signed
<1>2. /\ tasks \in Seq(Request) /\ outgoing \in Seq(Request) /\ Signed \subseteq Request
  BY <1>1, Vocabulary DEF TypeOK, Signed
<1> HIDE DEF Signed
<1>3. ASSUME UNCHANGED <<tasks, outgoing>> PROVE SignedInv'
  BY <1>1, <1>3 DEF SignedInv
<1>4. ASSUME NEW r \in Signed, tasks' = Append(tasks, r), outgoing' = outgoing
      PROVE  SignedInv'
  BY <1>1, <1>2, <1>4, AppendKeeps DEF SignedInv
<1>5. ASSUME outgoing # <<>>, outgoing' = Tail(outgoing), tasks' = tasks PROVE SignedInv'
  BY <1>1, <1>2, <1>5, TailKeeps DEF SignedInv
<1> USE DEF view, conn, net
<1>6. CASE UNCHANGED vars
  BY <1>3, <1>6 DEF vars
<1>7. CASE Crashes
  BY <1>3, <1>7, CrashFrame
<1>8. CASE (\E a \in Addresses : Login(a)) \/ (\E p \in Contents : Type(p)) \/ PostedNext
  BY <1>3, <1>8 DEF Login, Type, PostedNext, RunCommit, RunClear, RunRow
<1>9. CASE OnMsgSend
  <2>1. MessageRequest(user, draft) \in Signed
    BY <1>9 DEF OnMsgSend, TypeOK, Signed
  <2> QED BY <1>4, <1>9, <2>1 DEF OnMsgSend
<1>10. CASE LoginNext
  <2>1. LoginRequest(user) \in Signed
    BY DEF Signed
  <2> QED BY <1>3, <1>4, <1>10, <2>1 DEF LoginNext, LoginConnected, LoginSend, LoginAttempted
<1>11. CASE TaskSends
  <2>1. Head(tasks) \in Signed /\ \A i \in DOMAIN tasks' : tasks'[i] \in Signed
    BY <1>2, <1>11, TailKeeps DEF TaskSends, SignedInv
  <2>2. \A i \in DOMAIN outgoing' : outgoing'[i] \in Signed
    BY <1>2, <1>11, <2>1, AppendKeeps DEF TaskSends, SignedInv
  <2> QED BY <1>1, <2>1, <2>2 DEF SignedInv
<1>12. CASE \/ ReaderLocks \/ ReaderConnects \/ ReaderRefused \/ ReaderEnds
            \/ ShowRoomFragment \/ Announce
  BY <1>3, <1>12 DEF ReaderLocks, ReaderConnects, ReaderRefused, ReaderEnds, ShowRoomFragment,
                     Announce
<1>13. CASE \/ VisitOwnLogin
            \/ \E n \in Names : VisitOtherLogin(n) \/ \E p \in Contents : VisitMessage(n, p)
  BY <1>3, <1>13 DEF VisitOwnLogin, VisitOtherLogin, VisitMessage, Read
<1>14. CASE \E n \in Names : AnswerLogin(n) \/ \E p \in Contents : AnswerMessage(n, p)
  BY <1>5, <1>14 DEF AnswerLogin, AnswerMessage
<1>15. CASE (\E r \in Others : AnswerOther(r)) \/ Accept
  BY <1>3, <1>15 DEF AnswerOther, Accept
<1>16. CASE LinkLost
  BY <1>1, <1>16 DEF LinkLost, SignedInv
<1> QED BY <1>6, <1>7, <1>8, <1>9, <1>10, <1>11, <1>12, <1>13, <1>14, <1>15, <1>16, StepCases
=============================================================================
