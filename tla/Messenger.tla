----------------------------- MODULE Messenger -----------------------------
(***************************************************************************)
(* Two clients in one room: each is Client, thread by thread, and between  *)
(* them stands what the server promises, ChatRoom, instead of the server.  *)
(* Client is checked with an environment that answers as it pleases within *)
(* bounds; here the answers are those of a room in which another client    *)
(* logs in and talks, perhaps under the same name.                         *)
(***************************************************************************)
EXTENDS ChatRoom, FiniteSets

CONSTANTS
  TypedA,     \* the names the first user may type; the second may type any
  TroubleA, TroubleB,     \* of Client, for the first and for the second
  Addresses, MaxClicks    \* of Client, for both

ASSUME ConnsAssumption  == Conns = {"a", "b"}
ASSUME BoundAssumption  == MaxClicks \in Nat

VARIABLES
  appA, stateA, uiA, fragmentA, draftA, looperA, screenA, addressA, tasksA,
  readerA, visitedA, sockA, lockA, linkA, incomingA, outgoingA, clicksA,
  receivedA,
  appB, stateB, uiB, fragmentB, draftB, looperB, screenB, addressB, tasksB,
  readerB, visitedB, sockB, lockB, linkB, incomingB, outgoingB, clicksB,
  receivedB,
  userA, userB,   \* the names they type, which may be the same
  origin          \* history: whose request each response in log answers

A == INSTANCE Client WITH
    user <- userA, Trouble <- TroubleA, Others <- {}, MaxOthers <- 0, taken <- Users, others <- 0,
    app <- appA, state <- stateA, ui <- uiA, fragment <- fragmentA, draft <-
    draftA, looper <- looperA, screen <- screenA, address <- addressA, tasks
    <- tasksA, reader <- readerA, visited <- visitedA, sock <- sockA, lock
    <- lockA, link <- linkA, incoming <- incomingA, outgoing <- outgoingA,
    clicks <- clicksA, received <- receivedA

B == INSTANCE Client WITH
    user <- userB, Trouble <- TroubleB, Others <- {}, MaxOthers <- 0, taken <- Users, others <- 0,
    app <- appB, state <- stateB, ui <- uiB, fragment <- fragmentB, draft <-
    draftB, looper <- looperB, screen <- screenB, address <- addressB, tasks
    <- tasksB, reader <- readerB, visited <- visitedB, sock <- sockB, lock
    <- lockB, link <- linkB, incoming <- incomingB, outgoing <- outgoingB,
    clicks <- clicksB, received <- receivedB

ASSUME AddressesAssumption == Addresses \subseteq A!Address

restA ==
  <<userA, appA, stateA, uiA, fragmentA, draftA, looperA, screenA, addressA,
  tasksA, readerA, visitedA, sockA, lockA, linkA, clicksA, receivedA>>
restB ==
  <<userB, appB, stateB, uiB, fragmentB, draftB, looperB, screenB, addressB,
  tasksB, readerB, visitedB, sockB, lockB, linkB, clicksB, receivedB>>
allA == <<restA, incomingA, outgoingA>>
allB == <<restB, incomingB, outgoingB>>
room == <<log, present, joined, delivered, origin>>

vars == <<allA, allB, room>>

Init ==
  /\ RoomInit /\ origin = <<>>
  /\ userA \in TypedA /\ A!Init
  /\ B!Init

-----------------------------------------------------------------------------
(* A client does what it does without asking the server.                   *)
AloneA == UNCHANGED <<room, allB>>

ActA == AloneA /\ (A!OwnNext \/ A!LinkLost)

ActB == UNCHANGED <<room, allA>> /\ (B!OwnNext \/ B!LinkLost)

(* Its connection is accepted,                                             *)
EnterA == Enter("a") /\ UNCHANGED <<origin, allB>> /\ A!Accept

EnterB == Enter("b") /\ UNCHANGED <<origin, allA>> /\ B!Accept

(* its requests are answered in the order in which it sent them,           *)
Answer(request) ==
  \/ \E n \in Names :
       request = LoginRequest(n) /\ (IF n \in Users THEN Refuse ELSE LogIn(n))
  \/ \E n \in Names, p \in Contents : request = MessageRequest(n, p) /\ Say(n, p)

AnswerA ==
  /\ linkA = "accepted" /\ outgoingA # <<>>
  /\ Answer(Head(outgoingA))
  /\ outgoingA' = Tail(outgoingA) /\ origin' = Append(origin, "a")
  /\ UNCHANGED <<restA, incomingA, allB>>

AnswerB ==
  /\ linkB = "accepted" /\ outgoingB # <<>>
  /\ Answer(Head(outgoingB))
  /\ outgoingB' = Tail(outgoingB) /\ origin' = Append(origin, "b")
  /\ UNCHANGED <<restB, incomingB, allA>>

(* and it is shown the conversation, response by response.                 *)
ShowA ==
  /\ linkA = "accepted" /\ Show("a")
  /\ incomingA' = Append(incomingA, delivered'["a"][Len(delivered'["a"])])
  /\ UNCHANGED <<origin, restA, outgoingA, allB>>

ShowB ==
  /\ linkB = "accepted" /\ Show("b")
  /\ incomingB' = Append(incomingB, delivered'["b"][Len(delivered'["b"])])
  /\ UNCHANGED <<origin, restB, outgoingB, allA>>

Next ==
  \/ ActA \/ EnterA \/ AnswerA \/ ShowA
  \/ ActB \/ EnterB \/ AnswerB \/ ShowB

Spec == Init /\ [][Next]_vars

(* The first client's threads are scheduled, and the server writes to it   *)
(* what it broadcasts; as all these have boundedly many steps to take, it  *)
(* is enough that some of them is taken.  The second may do nothing.       *)
ThreadsA == AloneA /\ (A!LoginNext \/ A!PostedNext \/ A!TaskNext \/ A!ReaderNext)

FairSpec == Spec /\ WF_vars(ThreadsA \/ ShowA)
-----------------------------------------------------------------------------
(* Properties.                                                             *)

(* Nobody speaks in the room who has not been shown, since connecting, a   *)
(* login under the name.  It need not be one's own: of two users who want  *)
(* one name, the second takes the login of the first for the answer to its *)
(* own, if connected by then.  But whoever comes later is refused, and     *)
(* says nothing under the name.                                            *)
SpeakersWereAnnounced ==
  \A i \in DOMAIN log : log[i].type = "MessageResponse" =>
    \E j \in (joined[origin[i]] + 1)..(i - 1) : log[j] = LoginResponse(log[i].originator)

(* What the two users read, on the screen or about to be, is one           *)
(* conversation: each a stretch of it without a gap, whenever the two have *)
(* connected, entered, fallen behind, crashed or been cut off.             *)
OneConversation ==
  /\ A!RowCount > 0 => \E k \in DOMAIN log : A!Stretch(log, k)
  /\ B!RowCount > 0 => \E k \in DOMAIN log : B!Stretch(log, k)

(* A user who is logged in reads the whole conversation in the end, what   *)
(* the other user says included, unless the client crashes, its connection *)
(* is lost or login() takes the state back.                                *)
CatchesUp ==
  stateA = "ISLOGGEDIN" ~>
    \/ stateA # "ISLOGGEDIN" \/ appA = "crashed" \/ linkA = "lost"
    \/ \E k \in DOMAIN log : screenA = SubSeq(log, k, Len(log))

(* What Client assumes of the server, the network and everybody else is    *)
(* what they do here: the first client, with the rest of the room for its  *)
(* environment, is a Client.  A response is on its way to it from the      *)
(* moment the room has it.                                                 *)
Pending ==
  IF linkA = "accepted"
  THEN SubSeq(log, joined["a"] + Len(delivered["a"]) + 1, Len(log))
  ELSE <<>>

ByOthers == { i \in DOMAIN origin : origin[i] # "a" }

Answers ==
  { LoginResponse(n) : n \in Names } \cup {NameInUse}
    \cup { MessageResponse(n, p) : n \in Names, p \in Contents }

View == INSTANCE Client WITH
    user <- userA, Trouble <- TroubleA, Others <- Answers, MaxOthers <- MaxClicks + 1,
    taken <- Users, others <- Cardinality(ByOthers),
    incoming <- incomingA \o Pending,
    app <- appA, state <- stateA, ui <- uiA, fragment <- fragmentA, draft <-
    draftA, looper <- looperA, screen <- screenA, address <- addressA, tasks
    <- tasksA, reader <- readerA, visited <- visitedA, sock <- sockA, lock
    <- lockA, link <- linkA, outgoing <- outgoingA, clicks <- clicksA,
    received <- receivedA

ViewSpec == View!Spec
=============================================================================
