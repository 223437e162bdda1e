---------------------------- MODULE ServerProofs ----------------------------
(***************************************************************************)
(* Theorems about Server, for every set of connections, names, contents    *)
(* and requests, and for every bound and every trouble.                    *)
(***************************************************************************)
EXTENDS Server, FramesProofs, SequenceTheorems, FiniteSetTheorems, TLAPS

-----------------------------------------------------------------------------
(* The steps of Next by what they disturb.                                 *)
Waits ==
  SelectStdin \/ SelectMaster \/ \E c \in Conns : SelectSocket(c)

Stops ==
  AcceptFails \/ WaitThrows \/ \E c \in Conns : OnSocketThrows(c) \/ WriteKills(c) \/ WriteThrows(c)

Visits(c) ==
  VisitLogin(c) \/ VisitLoginInUse(c) \/ VisitMessage(c) \/ VisitError(c)

(* Every step is one of these; a proof about a step goes through them.     *)
LEMMA StepCases ==
  ASSUME [Next]_vars
  PROVE  \/ UNCHANGED vars \/ Waits \/ Stops \/ EnvNext
         \/ OnSTDINExit \/ OnSTDINOther \/ ReturnFromMain \/ OnSocketServer
         \/ \E c \in Conns : \/ Visits(c) \/ Disconnected(c) \/ ReadFails(c)
                             \/ WriteToLive(c) \/ WriteToClosed(c) \/ WriteFails(c)
BY DEF Next, ServerNext, Timeout, Finished, OnSocket, Write, Waits, Stops, Visits

(* Choosing what to dispatch changes nothing but the choice.               *)
LEMMA WaitsFrame ==
  ASSUME Waits
  PROVE  UNCHANGED <<proc, inActivity, next, registry, files, network, console, history>>
BY DEF Waits, SelectStdin, SelectMaster, SelectSocket, Dispatch

(* A step that ends the process changes nothing else.                      *)
LEMMA StopsFrame ==
  ASSUME Stops
  PROVE  /\ proc' \in {"aborted", "killed"}
         /\ UNCHANGED <<inActivity, pc, turn, next, registry, files, network, console, history>>
BY DEF Stops, AcceptFails, WaitThrows, OnSocketThrows, WriteKills, WriteThrows, Abort

(* What happens outside the server does not touch the server's own state.  *)
LEMMA EnvFrame ==
  ASSUME EnvNext
  PROVE  UNCHANGED <<control, registry, files, history>>
BY DEF EnvNext, Connect, ClientRead, Leave, Reset, Send, TypeLine, EndInput

(* A request that a client sends is no leftover of one.                    *)
LEMMA SendsAreWhole == Sends \cap Leftover = {}
BY SendsAssumption
   DEF Leftover, Fragment, Newline, Request, LoginRequest, MessageRequest,
       Malformed, Untagged, UnknownTag, Incomplete

(* What a read leaves of an inbox (FramesProofs).                          *)
LEMMA ReadAccount ==
  ASSUME NEW c \in Conns, inbox[c] \in Seq(Sends \cup Leftover), NEW reading \in Read(c)
  PROVE  AccountsFor(Sends, inbox[c], reading) /\ parts[c] + reading.part <= MaxParts
<1>1. /\ reading \in Readings(inbox[c], "split" \in Trouble)
      /\ parts[c] + reading.part <= MaxParts
  BY DEF Read
<1>2. AccountsFor(Sends, inbox[c], reading)
  BY <1>1, SendsAreWhole, ReadingsAccount, Zenon
<1> QED BY <1>1, <1>2

(* A request that is answered adds a response to the conversation.         *)
LEMMA VisitsFrame ==
  ASSUME NEW c \in Conns, Visits(c)
  PROVE  Handling(c) /\ \E reading \in Read(c), r \in Response : Broadcast(c, reading, r)
<1>1. CASE VisitLogin(c)
  <2>1. PICK reading \in Read(c), name \in Names : Broadcast(c, reading, LoginResponse(name))
    BY <1>1 DEF VisitLogin
  <2>2. LoginResponse(name) \in Response
    BY DEF LoginResponse, Response
  <2> QED BY <1>1, <2>1, <2>2 DEF VisitLogin
<1>2. CASE VisitLoginInUse(c)
  <2>1. NameInUse \in Response
    <3>1. "USER_NAME_IN_USE" \in ErrorCode BY DEF ErrorCode
    <3> QED BY <3>1 DEF NameInUse, Response
  <2> QED BY <1>2, <2>1 DEF VisitLoginInUse
<1>3. CASE VisitMessage(c)
  <2>1. PICK reading \in Read(c), name \in Names, content \in Contents :
          Broadcast(c, reading, MessageResponse(name, content))
    BY <1>3 DEF VisitMessage
  <2>2. MessageResponse(name, content) \in Response
    BY DEF MessageResponse, Response
  <2> QED BY <1>3, <2>1, <2>2 DEF VisitMessage
<1>4. CASE VisitError(c)
  <2>1. BadRequest \in Response
    <3>1. "MALFORMED_REQUEST_NO_TYPE" \in ErrorCode BY DEF ErrorCode
    <3> QED BY <3>1 DEF BadRequest, Response
  <2> QED BY <1>4, <2>1 DEF VisitError
<1> QED BY <1>1, <1>2, <1>3, <1>4 DEF Visits

-----------------------------------------------------------------------------
(* Type correctness, and with it what the program counter says of the      *)
(* registries: the event being dispatched is still there, and a broadcast  *)
(* always has a socket to write to and a response to write.                *)
ControlInv ==
  /\ pc = "dispatch" /\ turn = "master" => backlog # <<>>
  /\ pc = "dispatch" /\ turn \in Conns => turn \in sockets /\ open[turn]
  /\ pc = "broadcast" => next <= Len(socketList) /\ log # <<>>

LEMMA InitTypeOK == Init => TypeOK /\ ControlInv
<1> SUFFICES ASSUME Init PROVE TypeOK /\ ControlInv
  OBVIOUS
<1>1. ControlTypeOK  BY DEF Init, ControlTypeOK
<1>2. RegistryTypeOK BY DEF Init, RegistryTypeOK
<1>3. NetworkTypeOK
  BY SendBufAssumption, BoundsAssumption DEF Init, NetworkTypeOK, PeerState
<1>4. ConsoleTypeOK
  <2>1. stdin = <<>> /\ ended = FALSE /\ typed = 0  BY DEF Init
  <2>2. stdin \in Seq({"exit", "text"}) BY <2>1
  <2>3. ended \in BOOLEAN BY <2>1
  <2>4. typed \in 0..MaxLines BY <2>1, BoundsAssumption
  <2> QED BY <2>2, <2>3, <2>4 DEF ConsoleTypeOK
<1>5. HistoryTypeOK  BY BoundsAssumption DEF Init, HistoryTypeOK
<1>6. ControlInv
  <2>1. pc = "wait"  BY DEF Init
  <2> QED BY <2>1 DEF ControlInv
<1> QED BY <1>1, <1>2, <1>3, <1>4, <1>5, <1>6 DEF TypeOK

LEMMA ControlTypeStep ==
  ASSUME TypeOK, [Next]_vars
  PROVE  ControlTypeOK'
<1> USE DEF TypeOK, ControlTypeOK, control
<1>1. CASE UNCHANGED vars BY <1>1 DEF vars
<1>2. CASE Waits
  BY <1>2 DEF Waits, SelectStdin, SelectMaster, SelectSocket, Dispatch
<1>3. CASE Stops BY <1>3, StopsFrame
<1>4. CASE EnvNext BY <1>4, EnvFrame
<1>5. CASE OnSTDINExit BY <1>5 DEF OnSTDINExit
<1>6. CASE OnSTDINOther BY <1>6 DEF OnSTDINOther
<1>7. CASE ReturnFromMain BY <1>7 DEF ReturnFromMain
<1>8. CASE OnSocketServer BY <1>8 DEF OnSocketServer
<1>9. ASSUME NEW c \in Conns, Visits(c) PROVE ControlTypeOK'
  BY <1>9, VisitsFrame DEF Broadcast
<1>10. ASSUME NEW c \in Conns, Disconnected(c) \/ ReadFails(c) PROVE ControlTypeOK'
  BY <1>10 DEF Disconnected, ReadFails
<1>11. ASSUME NEW c \in Conns, WriteToLive(c) \/ WriteToClosed(c) \/ WriteFails(c)
       PROVE  ControlTypeOK'
  BY <1>11 DEF WriteToLive, WriteToClosed, WriteFails, Advance
<1> QED
  BY StepCases, <1>1, <1>2, <1>3, <1>4, <1>5, <1>6, <1>7, <1>8, <1>9, <1>10, <1>11

LEMMA RegistryTypeStep ==
  ASSUME TypeOK, ControlInv, [Next]_vars
  PROVE  RegistryTypeOK'
<1> USE DEF TypeOK, RegistryTypeOK, registry, files
<1>1. CASE UNCHANGED vars BY <1>1 DEF vars
<1>2. CASE Waits BY <1>2, WaitsFrame
<1>3. CASE Stops BY <1>3, StopsFrame
<1>4. CASE EnvNext BY <1>4, EnvFrame
<1>5. CASE OnSTDINExit
  <2>1. Survivors(socketList) \in Seq(Conns)
    BY DEF Survivors
  <2>2. Range(socketList) \subseteq Conns
    BY DEF Range
  <2> QED BY <1>5, <2>1, <2>2 DEF OnSTDINExit
<1>6. CASE OnSTDINOther BY <1>6 DEF OnSTDINOther
<1>7. CASE ReturnFromMain BY <1>7 DEF ReturnFromMain
<1>8. CASE OnSocketServer
  <2>1. Head(backlog) \in Conns
    BY <1>8 DEF OnSocketServer, Handling, ControlInv, NetworkTypeOK
  <2> QED BY <1>8, <2>1 DEF OnSocketServer
<1>9. ASSUME NEW c \in Conns, Visits(c) PROVE RegistryTypeOK'
  <2>1. UNCHANGED <<socketList, sockets, files>>
    BY <1>9, VisitsFrame DEF Broadcast
  <2>2. clientNames' \in Seq(Names)
    BY <1>9 DEF Visits, VisitLogin, VisitLoginInUse, VisitMessage, VisitError
  <2> QED BY <2>1, <2>2
<1>10. ASSUME NEW c \in Conns, Disconnected(c) PROVE RegistryTypeOK'
  <2>1. ASSUME NEW i \in DOMAIN socketList PROVE WithoutAt(socketList, i) \in Seq(Conns)
    BY DEF WithoutAt
  <2> QED BY <1>10, <2>1 DEF Disconnected
<1>11. ASSUME NEW c \in Conns,
              ReadFails(c) \/ WriteToLive(c) \/ WriteToClosed(c) \/ WriteFails(c)
       PROVE  RegistryTypeOK'
  BY <1>11 DEF ReadFails, WriteToLive, WriteToClosed, WriteFails
<1> QED
  BY StepCases, <1>1, <1>2, <1>3, <1>4, <1>5, <1>6, <1>7, <1>8, <1>9, <1>10, <1>11


LEMMA NetworkTypeStep ==
  ASSUME TypeOK, ControlInv, [Next]_vars
  PROVE  NetworkTypeOK'
<1> USE DEF TypeOK, NetworkTypeOK, network
<1> USE SendBufAssumption, BoundsAssumption
<1>1. CASE UNCHANGED vars BY <1>1 DEF vars
<1>2. CASE Waits BY <1>2, WaitsFrame
<1>3. CASE Stops BY <1>3, StopsFrame
<1>4. CASE EnvNext
  <2>1. ASSUME NEW c \in Conns, Connect(c) PROVE NetworkTypeOK'
    BY <2>1 DEF Connect, PeerState
  <2>2. ASSUME NEW c \in Conns, ClientRead(c) PROVE NetworkTypeOK'
    BY <2>2 DEF ClientRead
  <2>3. ASSUME NEW c \in Conns, Leave(c) \/ Reset(c) PROVE NetworkTypeOK'
    BY <2>3 DEF Leave, Reset, PeerState
  <2>4. ASSUME NEW c \in Conns, NEW r \in Sends, Send(c, r) PROVE NetworkTypeOK'
    <3>1. /\ inbox' \in [Conns -> Seq(Sends \cup Leftover)]
          /\ sent' \in [Conns -> 0..MaxSends]
      BY <2>4 DEF Send
    <3> QED BY <2>4, <3>1 DEF Send
  <2>5. ASSUME (\E line \in {"exit", "text"} : TypeLine(line)) \/ EndInput
        PROVE  NetworkTypeOK'
    BY <2>5 DEF TypeLine, EndInput
  <2> QED BY <1>4, <2>1, <2>2, <2>3, <2>4, <2>5 DEF EnvNext
<1>5. CASE OnSTDINExit \/ OnSTDINOther \/ ReturnFromMain
  BY <1>5 DEF OnSTDINExit, OnSTDINOther, ReturnFromMain
<1>6. CASE OnSocketServer
  BY <1>6 DEF OnSocketServer, Handling, ControlInv
<1>7. ASSUME NEW c \in Conns, Visits(c) PROVE NetworkTypeOK'
  <2>1. PICK reading \in Read(c), r \in Response : Broadcast(c, reading, r)
    BY <1>7, VisitsFrame
  <2>2. reading.rest \in Seq(Sends \cup Leftover)
    BY ReadAccount DEF AccountsFor
  <2> QED BY <2>1, <2>2 DEF Broadcast
<1>8. ASSUME NEW c \in Conns, Disconnected(c) \/ ReadFails(c) \/ WriteFails(c)
      PROVE  NetworkTypeOK'
  BY <1>8 DEF Disconnected, ReadFails, WriteFails
<1>9. ASSUME NEW c \in Conns, WriteToLive(c) PROVE NetworkTypeOK'
  BY <1>9 DEF WriteToLive
<1>10. ASSUME NEW c \in Conns, WriteToClosed(c) PROVE NetworkTypeOK'
  BY <1>10 DEF WriteToClosed, PeerState
<1> QED
  BY StepCases, <1>1, <1>2, <1>3, <1>4, <1>5, <1>6, <1>7, <1>8, <1>9, <1>10

LEMMA ConsoleTypeStep ==
  ASSUME TypeOK, [Next]_vars
  PROVE  ConsoleTypeOK'
<1> USE BoundsAssumption DEF TypeOK, ConsoleTypeOK, console
<1>1. CASE UNCHANGED vars BY <1>1 DEF vars
<1>2. CASE Waits BY <1>2, WaitsFrame
<1>3. CASE Stops BY <1>3, StopsFrame
<1>4. CASE EnvNext
  <2>1. ASSUME NEW line \in {"exit", "text"}, TypeLine(line) PROVE ConsoleTypeOK'
    BY <2>1 DEF TypeLine
  <2>2. CASE EndInput
    BY <2>2 DEF EndInput
  <2>3. ASSUME NEW c \in Conns, NEW r \in Sends,
               Connect(c) \/ ClientRead(c) \/ Leave(c) \/ Reset(c) \/ Send(c, r)
        PROVE  ConsoleTypeOK'
    BY <2>3 DEF Connect, ClientRead, Leave, Reset, Send
  <2>4. ASSUME NEW c \in Conns, Connect(c) \/ ClientRead(c) \/ Leave(c) \/ Reset(c)
        PROVE  ConsoleTypeOK'
    BY <2>4 DEF Connect, ClientRead, Leave, Reset
  <2> QED BY <1>4, <2>1, <2>2, <2>3, <2>4 DEF EnvNext
<1>5. CASE OnSTDINExit \/ OnSTDINOther
  <2>1. ASSUME NEW n \in 1..Len(stdin)
        PROVE  SubSeq(stdin, n + 1, Len(stdin)) \in Seq({"exit", "text"})
    BY SubSeqProperties
  <2> QED BY <1>5, <2>1 DEF OnSTDINExit, OnSTDINOther, ReadLines
<1>6. CASE ReturnFromMain BY <1>6 DEF ReturnFromMain
<1>7. CASE OnSocketServer BY <1>7 DEF OnSocketServer
<1>8. ASSUME NEW c \in Conns, Visits(c) PROVE ConsoleTypeOK'
  BY <1>8, VisitsFrame DEF Broadcast
<1>9. ASSUME NEW c \in Conns,
             \/ Disconnected(c) \/ ReadFails(c)
             \/ WriteToLive(c) \/ WriteToClosed(c) \/ WriteFails(c)
      PROVE  ConsoleTypeOK'
  BY <1>9 DEF Disconnected, ReadFails, WriteToLive, WriteToClosed, WriteFails
<1> QED BY StepCases, <1>1, <1>2, <1>3, <1>4, <1>5, <1>6, <1>7, <1>8, <1>9

LEMMA HistoryTypeStep ==
  ASSUME TypeOK, ControlInv, [Next]_vars
  PROVE  HistoryTypeOK'
<1> USE DEF TypeOK, HistoryTypeOK, history
<1>1. CASE UNCHANGED vars BY <1>1 DEF vars
<1>2. CASE Waits BY <1>2, WaitsFrame
<1>3. CASE Stops BY <1>3, StopsFrame
<1>4. CASE EnvNext BY <1>4, EnvFrame
<1>5. CASE OnSTDINExit \/ OnSTDINOther \/ ReturnFromMain
  BY <1>5 DEF OnSTDINExit, OnSTDINOther, ReturnFromMain
<1>6. CASE OnSocketServer
  <2>1. Head(backlog) \in Conns
    BY <1>6 DEF OnSocketServer, Handling, ControlInv, NetworkTypeOK
  <2>2. UNCHANGED <<log, origin, torn, parts, delivered>>
    BY <1>6 DEF OnSocketServer
  <2>3. present' \subseteq Conns
    BY <1>6, <2>1 DEF OnSocketServer
  <2>4. joined' \in [Conns -> Nat]
    BY <1>6, <2>1 DEF OnSocketServer
  <2> QED BY <2>2, <2>3, <2>4
<1>7. ASSUME NEW c \in Conns, Visits(c) PROVE HistoryTypeOK'
  <2>1. PICK reading \in Read(c), r \in Response : Broadcast(c, reading, r)
    BY <1>7, VisitsFrame
  <2>2. log' \in Seq(Response) /\ origin' \in Seq(Conns)
    BY <2>1 DEF Broadcast
  <2>3. UNCHANGED <<present, joined, delivered>>
    BY <2>1 DEF Broadcast
  <2>4. torn' \in [Conns -> Nat] /\ parts' \in [Conns -> 0..MaxParts]
    <3>1. /\ reading.torn \in {0, 1} /\ reading.part \in {0, 1}
          /\ parts[c] + reading.part <= MaxParts
      BY ReadAccount DEF NetworkTypeOK, AccountsFor
    <3> QED BY <2>1, <3>1, BoundsAssumption DEF Broadcast
  <2> QED BY <2>2, <2>3, <2>4
<1>8. ASSUME NEW c \in Conns, Disconnected(c) \/ ReadFails(c) \/ WriteFails(c)
      PROVE  HistoryTypeOK'
  BY <1>8 DEF Disconnected, ReadFails, WriteFails
<1>9. ASSUME NEW c \in Conns, WriteToLive(c) \/ WriteToClosed(c)
      PROVE  HistoryTypeOK'
  <2>1. log # <<>>
    BY <1>9 DEF WriteToLive, WriteToClosed, Writing, ControlInv
  <2>2. log[Len(log)] \in Response
    BY <2>1, Len(log) \in 1..Len(log)
  <2>3. /\ delivered' = [delivered EXCEPT ![c] = Append(@, log[Len(log)])]
        /\ UNCHANGED <<log, origin, present, joined, torn, parts>>
    BY <1>9 DEF WriteToLive, WriteToClosed, Hand
  <2>4. delivered' \in [Conns -> Seq(Response)]
    BY <2>2, <2>3
  <2> QED BY <2>3, <2>4
<1> QED BY StepCases, <1>1, <1>2, <1>3, <1>4, <1>5, <1>6, <1>7, <1>8, <1>9


LEMMA TypeStep ==
  ASSUME TypeOK, ControlInv, [Next]_vars
  PROVE  TypeOK'
BY ControlTypeStep, RegistryTypeStep, NetworkTypeStep, ConsoleTypeStep, HistoryTypeStep
   DEF TypeOK


-----------------------------------------------------------------------------
(* What the operations on lists do to the elements and their distinctness. *)

LEMMA AppendNonEmpty ==
  ASSUME NEW S, NEW s \in Seq(S), NEW e \in S
  PROVE  Append(s, e) # <<>>
<1>1. Append(s, e) \in Seq(S) /\ Len(Append(s, e)) = Len(s) + 1 /\ Len(s) \in Nat
  BY AppendProperties, LenProperties
<1>2. Len(<<>>) = 0
  OBVIOUS
<1> QED BY <1>1, <1>2

LEMMA AppendDistinct ==
  ASSUME NEW S, NEW s \in Seq(S), NEW e \in S
  PROVE  /\ Range(Append(s, e)) = Range(s) \cup {e}
         /\ IsInjective(s) /\ e \notin Range(s) => IsInjective(Append(s, e))
<1> DEFINE t == Append(s, e)
<1>1. /\ t \in Seq(S)
      /\ DOMAIN s = 1..Len(s) /\ DOMAIN t = 1..(Len(s) + 1)
      /\ \A i \in 1..Len(s) : t[i] = s[i]
      /\ t[Len(s) + 1] = e
      /\ Len(s) \in Nat
  BY AppendProperties
<1> HIDE DEF t
<1>2. Range(t) = Range(s) \cup {e}
  BY <1>1 DEF Range
<1>3. ASSUME IsInjective(s), e \notin Range(s) PROVE IsInjective(t)
  BY <1>1, <1>3 DEF Range, IsInjective
<1> QED BY <1>2, <1>3 DEF t

LEMMA AppendUnique ==
  ASSUME NEW S, NEW s \in Seq(S), NEW e \in S, e \notin Range(s),
         NEW i \in DOMAIN Append(s, e), NEW j \in DOMAIN Append(s, e),
         Append(s, e)[i] = Append(s, e)[j]
  PROVE  i = j \/ (i \in DOMAIN s /\ j \in DOMAIN s /\ s[i] = s[j])
<1> DEFINE t == Append(s, e)
<1>1. /\ DOMAIN s = 1..Len(s) /\ DOMAIN t = 1..(Len(s) + 1)
      /\ \A k \in 1..Len(s) : t[k] = s[k]
      /\ t[Len(s) + 1] = e
      /\ Len(s) \in Nat
  BY AppendProperties
<1>2. \A k \in 1..Len(s) : t[k] # e
  BY <1>1 DEF Range
<1>3. t[i] = t[j] /\ i \in DOMAIN t /\ j \in DOMAIN t
  OBVIOUS
<1> HIDE DEF t
<1> QED BY <1>1, <1>2, <1>3

LEMMA TailDistinct ==
  ASSUME NEW S, NEW s \in Seq(S), s # <<>>, IsInjective(s)
  PROVE  /\ IsInjective(Tail(s))
         /\ Range(Tail(s)) = Range(s) \ {Head(s)}
         /\ Head(s) \in Range(s)
<1> DEFINE t == Tail(s)
<1>1. /\ t \in Seq(S)
      /\ Len(s) \in Nat \ {0}
      /\ DOMAIN s = 1..Len(s) /\ DOMAIN t = 1..(Len(s) - 1)
      /\ \A i \in 1..(Len(s) - 1) : t[i] = s[i + 1]
      /\ Head(s) = s[1]
  BY HeadTailProperties, LenProperties
<1> HIDE DEF t
<1>2. IsInjective(t)
  <2>1. ASSUME NEW a \in 1..(Len(s) - 1), NEW b \in 1..(Len(s) - 1), s[a + 1] = s[b + 1]
        PROVE  a = b
    <3>1. a + 1 \in DOMAIN s /\ b + 1 \in DOMAIN s
      BY <1>1
    <3> QED BY <2>1, <3>1 DEF IsInjective
  <2> QED BY <1>1, <2>1 DEF IsInjective
<1>3. ASSUME NEW x \in Range(t) PROVE x \in Range(s) \ {Head(s)}
  BY <1>1 DEF Range, IsInjective
<1>4. ASSUME NEW x \in Range(s) \ {Head(s)} PROVE x \in Range(t)
  <2>1. PICK i \in 2..Len(s) : s[i] = x
    BY <1>1 DEF Range
  <2>2. i - 1 \in DOMAIN t /\ t[i - 1] = x
    BY <1>1, <2>1
  <2> QED BY <2>2 DEF Range
<1> QED BY <1>1, <1>2, <1>3, <1>4 DEF t, Range

LEMMA WithoutAtDistinct ==
  ASSUME NEW S, NEW s \in Seq(S), IsInjective(s), NEW i \in DOMAIN s
  PROVE  /\ IsInjective(WithoutAt(s, i))
         /\ Range(WithoutAt(s, i)) = Range(s) \ {s[i]}
<1> DEFINE t == WithoutAt(s, i)
<1>1. /\ Len(s) \in Nat /\ DOMAIN s = 1..Len(s) /\ DOMAIN t = 1..(Len(s) - 1)
      /\ i \in 1..Len(s)
      /\ \A j \in 1..(Len(s) - 1) : t[j] = s[IF j < i THEN j ELSE j + 1]
  BY DEF WithoutAt
<1> HIDE DEF t
<1>2. IsInjective(t)
  <2>1. ASSUME NEW a \in DOMAIN t, NEW b \in DOMAIN t, t[a] = t[b] PROVE a = b
    <3> DEFINE A == IF a < i THEN a ELSE a + 1
               B == IF b < i THEN b ELSE b + 1
    <3>1. A \in DOMAIN s /\ B \in DOMAIN s /\ (A = B => a = b)
      BY <1>1
    <3>2. s[A] = s[B]
      BY <1>1, <2>1
    <3> HIDE DEF A, B
    <3> QED BY <3>1, <3>2 DEF IsInjective
  <2> QED BY <2>1 DEF IsInjective
<1>3. ASSUME NEW x \in Range(t) PROVE x \in Range(s) \ {s[i]}
  <2>0. PICK d \in DOMAIN t : t[d] = x
    BY <1>3 DEF Range
  <2>1. PICK j \in 1..(Len(s) - 1) : t[j] = x
    BY <1>1, <2>0
  <2>2. PICK k \in 1..Len(s) : k # i /\ s[k] = x
    BY <1>1, <2>1
  <2> QED BY <1>1, <2>2 DEF Range, IsInjective
<1>4. ASSUME NEW x \in Range(s) \ {s[i]} PROVE x \in Range(t)
  <2>1. PICK k \in 1..Len(s) : s[k] = x /\ k # i
    BY <1>1 DEF Range
  <2>2. CASE k < i
    <3>1. k \in DOMAIN t /\ t[k] = x  BY <1>1, <2>1, <2>2
    <3> QED BY <3>1 DEF Range
  <2>3. CASE k > i
    <3>1. k - 1 \in DOMAIN t /\ t[k - 1] = x  BY <1>1, <2>1, <2>3
    <3> QED BY <3>1 DEF Range
  <2> QED BY <1>1, <2>1, <2>2, <2>3
<1> QED BY <1>2, <1>3, <1>4 DEF t

LEMMA SurvivorsDistinct ==
  ASSUME NEW S, NEW s \in Seq(S), IsInjective(s)
  PROVE  /\ IsInjective(Survivors(s))
         /\ Range(Survivors(s)) \subseteq Range(s)
<1> DEFINE t == Survivors(s)
<1>1. /\ Len(s) \in Nat /\ DOMAIN s = 1..Len(s)
      /\ DOMAIN t = 1..(Len(s) \div 2)
      /\ \A j \in DOMAIN t : 2 * j \in DOMAIN s /\ t[j] = s[2 * j]
  BY DEF Survivors
<1> HIDE DEF t
<1>2. IsInjective(t)
  BY <1>1 DEF IsInjective
<1>3. Range(t) \subseteq Range(s)
  BY <1>1 DEF Range
<1> QED BY <1>2, <1>3 DEF t


-----------------------------------------------------------------------------
(* The registries.  They agree because what is accepted is new to them,    *)
(* which in turn depends on what the kernel has queued.                    *)
ArrivalInv ==
  /\ IsInjective(backlog)
  /\ Range(backlog) \cap present = {}
  /\ sockets \subseteq present
  /\ \A c \in Conns : peer[c] = "none" => c \notin Range(backlog) \cup present

LEMMA InitRegistries == Init => RegistriesAgree /\ ArrivalInv
<1> SUFFICES ASSUME Init PROVE RegistriesAgree /\ ArrivalInv
  OBVIOUS
<1>1. /\ socketList = <<>> /\ sockets = {} /\ backlog = <<>> /\ present = {}
      /\ \A c \in Conns : ~open[c]
  BY DEF Init
<1> QED BY <1>1 DEF RegistriesAgree, ArrivalInv, Range, IsInjective

LEMMA ControlStep ==
  ASSUME TypeOK, ControlInv, RegistriesAgree, [Next]_vars
  PROVE  ControlInv'
<1> USE DEF TypeOK, ControlTypeOK, RegistryTypeOK, NetworkTypeOK, ControlInv
<1> USE ConnsAssumption
<1>1. CASE UNCHANGED vars
  BY <1>1 DEF vars, control, registry, files, network, history
<1>2. CASE Waits
  BY <1>2 DEF Waits, SelectStdin, SelectMaster, SelectSocket, Dispatch, MasterReady,
              Readable, registry, files, network, history
<1>3. CASE Stops
  BY <1>3, StopsFrame DEF registry, files, network, history
<1>4. CASE EnvNext
  <2>1. backlog # <<>> => backlog' # <<>>
    <3>1. ASSUME NEW c \in Conns, Connect(c) PROVE backlog' # <<>>
      <4>1. Append(backlog, c) # <<>>  BY AppendNonEmpty
      <4> QED BY <3>1, <4>1 DEF Connect
    <3>2. ASSUME ~ \E c \in Conns : Connect(c) PROVE UNCHANGED backlog
      BY <1>4, <3>2 DEF EnvNext, ClientRead, Leave, Reset, Send, TypeLine, EndInput, network
    <3> QED BY <3>1, <3>2
  <2> QED BY <1>4, <2>1, EnvFrame DEF control, registry, files, history
<1>5. CASE OnSTDINExit \/ OnSTDINOther
  BY <1>5 DEF OnSTDINExit, OnSTDINOther
<1>6. CASE ReturnFromMain
  BY <1>6 DEF ReturnFromMain
<1>7. CASE OnSocketServer
  BY <1>7 DEF OnSocketServer
<1>8. ASSUME NEW c \in Conns, Visits(c) PROVE ControlInv'
  <2>1. PICK reading \in Read(c), r \in Response : Broadcast(c, reading, r)
    BY <1>8, VisitsFrame
  <2>2. c \in Range(socketList)
    BY <1>8, VisitsFrame DEF Handling, RegistriesAgree
  <2>3. Len(socketList) >= 1
    BY <2>2 DEF Range
  <2>4. log' # <<>>
    <3>1. Append(log, r) # <<>>  BY AppendNonEmpty DEF HistoryTypeOK
    <3> QED BY <2>1, <3>1 DEF Broadcast
  <2> QED BY <2>1, <2>3, <2>4 DEF Broadcast
<1>9. ASSUME NEW c \in Conns, Disconnected(c) \/ ReadFails(c) PROVE ControlInv'
  BY <1>9 DEF Disconnected, ReadFails
<1>10. ASSUME NEW c \in Conns, WriteToLive(c) \/ WriteToClosed(c) \/ WriteFails(c)
       PROVE  ControlInv'
  <2>1. Writing(c) /\ Advance /\ UNCHANGED <<socketList, log>>
    BY <1>10 DEF WriteToLive, WriteToClosed, WriteFails, registry, history
  <2>2. pc' # "dispatch"
    BY <2>1 DEF Advance
  <2>3. pc' = "broadcast" => next' <= Len(socketList)
    BY <2>1 DEF Advance, Writing
  <2> QED BY <2>1, <2>2, <2>3 DEF Writing
<1> QED BY StepCases, <1>1, <1>2, <1>3, <1>4, <1>5, <1>6, <1>7, <1>8, <1>9, <1>10


LEMMA ArrivalStep ==
  ASSUME TypeOK, ControlInv, ArrivalInv, [Next]_vars
  PROVE  ArrivalInv'
<1> USE DEF TypeOK, NetworkTypeOK, ArrivalInv
<1>1. CASE UNCHANGED vars
  BY <1>1 DEF vars, registry, network, history
<1>2. CASE Waits
  BY <1>2, WaitsFrame DEF registry, network, history
<1>3. CASE Stops
  BY <1>3, StopsFrame DEF registry, network, history
<1>4. CASE EnvNext
  <2>0. UNCHANGED <<sockets, present>>
    BY <1>4, EnvFrame DEF registry, history
  <2>1. ASSUME NEW c \in Conns, Connect(c) PROVE ArrivalInv'
    <3>1. /\ c \notin Range(backlog) \cup present
          /\ backlog' = Append(backlog, c)
          /\ peer' = [peer EXCEPT ![c] = "live"]
      BY <2>1 DEF Connect
    <3>2. IsInjective(backlog') /\ Range(backlog') = Range(backlog) \cup {c}
      BY <3>1, AppendDistinct
    <3> QED BY <2>0, <3>1, <3>2
  <2>2. ASSUME NEW c \in Conns, Leave(c) \/ Reset(c) PROVE ArrivalInv'
    <3>1. /\ UNCHANGED backlog
          /\ \A d \in Conns : peer'[d] = "none" => peer[d] = "none"
      BY <2>2 DEF Leave, Reset
    <3> QED BY <2>0, <3>1
  <2>3. ASSUME UNCHANGED <<backlog, peer>> PROVE ArrivalInv'
    BY <2>0, <2>3
  <2> QED
    BY <1>4, <2>1, <2>2, <2>3 DEF EnvNext, ClientRead, Send, TypeLine, EndInput, network
<1>5. CASE OnSTDINExit \/ OnSTDINOther \/ ReturnFromMain
  BY <1>5 DEF OnSTDINExit, OnSTDINOther, ReturnFromMain, registry, network, history
<1>6. CASE OnSocketServer
  <2>1. backlog # <<>>
    BY <1>6 DEF OnSocketServer, Handling, ControlInv
  <2>2. /\ IsInjective(Tail(backlog))
        /\ Range(Tail(backlog)) = Range(backlog) \ {Head(backlog)}
        /\ Head(backlog) \in Range(backlog)
    BY <2>1, TailDistinct
  <2>3. /\ backlog' = Tail(backlog) /\ present' = present \cup {Head(backlog)}
        /\ sockets' = sockets \cup {Head(backlog)} /\ UNCHANGED peer
    BY <1>6 DEF OnSocketServer
  <2> QED BY <2>2, <2>3
<1>7. ASSUME NEW c \in Conns, Visits(c) PROVE ArrivalInv'
  BY <1>7, VisitsFrame DEF Broadcast
<1>8. ASSUME NEW c \in Conns, Disconnected(c) PROVE ArrivalInv'
  BY <1>8 DEF Disconnected, network, history
<1>9. ASSUME NEW c \in Conns, ReadFails(c) \/ WriteToLive(c) \/ WriteFails(c)
      PROVE  ArrivalInv'
  BY <1>9 DEF ReadFails, WriteToLive, WriteFails, registry, network, history
<1>10. ASSUME NEW c \in Conns, WriteToClosed(c) PROVE ArrivalInv'
  <2>1. \A d \in Conns : peer'[d] = "none" => peer[d] = "none"
    BY <1>10 DEF WriteToClosed
  <2> QED BY <1>10, <2>1 DEF WriteToClosed, registry
<1> QED BY StepCases, <1>1, <1>2, <1>3, <1>4, <1>5, <1>6, <1>7, <1>8, <1>9, <1>10

LEMMA RegistriesStep ==
  ASSUME TypeOK, ControlInv, ArrivalInv, RegistriesAgree, [Next]_vars
  PROVE  RegistriesAgree'
<1> USE DEF TypeOK, RegistryTypeOK, RegistriesAgree
<1>1. CASE UNCHANGED vars
  BY <1>1 DEF vars, registry, files
<1>2. CASE Waits
  BY <1>2, WaitsFrame DEF registry, files
<1>3. CASE Stops
  BY <1>3, StopsFrame DEF registry, files
<1>4. CASE EnvNext
  BY <1>4, EnvFrame DEF registry, files
<1>5. CASE OnSTDINExit
  <2>1. /\ IsInjective(Survivors(socketList))
        /\ Range(Survivors(socketList)) \subseteq Range(socketList)
    BY SurvivorsDistinct
  <2> DEFINE gone == Range(socketList) \ Range(Survivors(socketList))
  <2>2. /\ socketList' = Survivors(socketList)
        /\ sockets' = sockets \ gone
        /\ open' = [c \in Conns |-> open[c] /\ c \notin gone]
    BY <1>5 DEF OnSTDINExit
  <2> HIDE DEF gone
  <2>3. \A c \in Conns : open'[c] => open[c] /\ c \notin gone
    BY <2>2
  <2>4. Range(socketList') = sockets'
    BY <2>1, <2>2 DEF gone
  <2> QED BY <2>1, <2>2, <2>3, <2>4
<1>6. CASE OnSTDINOther
  BY <1>6 DEF OnSTDINOther, registry, files
<1>7. CASE ReturnFromMain
  <2>1. \A c \in Conns : ~open'[c]
    BY <1>7 DEF ReturnFromMain
  <2> QED BY <1>7, <2>1 DEF ReturnFromMain, registry
<1>8. CASE OnSocketServer
  <2>1. backlog # <<>> /\ backlog \in Seq(Conns)
    BY <1>8 DEF OnSocketServer, Handling, ControlInv, NetworkTypeOK
  <2> DEFINE c == Head(backlog)
  <2>2. c \in Conns /\ c \notin sockets
    BY <2>1, TailDistinct DEF ArrivalInv
  <2>3. /\ socketList' = Append(socketList, c) /\ sockets' = sockets \cup {c}
        /\ open' = [open EXCEPT ![c] = TRUE]
    BY <1>8 DEF OnSocketServer
  <2> HIDE DEF c
  <2>4. IsInjective(socketList') /\ Range(socketList') = Range(socketList) \cup {c}
    BY <2>2, <2>3, AppendDistinct
  <2> QED BY <2>2, <2>3, <2>4
<1>9. ASSUME NEW c \in Conns, Visits(c) PROVE RegistriesAgree'
  BY <1>9, VisitsFrame DEF Broadcast, files
<1>10. ASSUME NEW c \in Conns, Disconnected(c) PROVE RegistriesAgree'
  <2>1. PICK i \in DOMAIN socketList :
          socketList[i] = c /\ socketList' = WithoutAt(socketList, i)
    BY <1>10 DEF Disconnected
  <2>2. sockets' = sockets \ {c} /\ open' = [open EXCEPT ![c] = FALSE]
    BY <1>10 DEF Disconnected
  <2>3. IsInjective(socketList') /\ Range(socketList') = Range(socketList) \ {c}
    BY <2>1, WithoutAtDistinct
  <2> QED BY <2>2, <2>3
<1>11. ASSUME NEW c \in Conns,
              ReadFails(c) \/ WriteToLive(c) \/ WriteToClosed(c) \/ WriteFails(c)
       PROVE  RegistriesAgree'
  <2>1. UNCHANGED registry
    BY <1>11 DEF ReadFails, WriteToLive, WriteToClosed, WriteFails
  <2>2. \A d \in Conns : open'[d] => open[d]
    BY <1>11 DEF ReadFails, WriteToLive, WriteToClosed, WriteFails, files
  <2> QED BY <2>1, <2>2 DEF registry
<1> QED
  BY StepCases, <1>1, <1>2, <1>3, <1>4, <1>5, <1>6, <1>7, <1>8, <1>9, <1>10, <1>11

(* Spec keeps every variable in its type, also in the states the runs are  *)
(* too small to reach: no counter runs over, no list holds what it should  *)
(* not, however many clients there are and whatever goes wrong with them.  *)
THEOREM TypeCorrect == Spec => []TypeOK
<1>1. Init => TypeOK /\ ControlInv /\ RegistriesAgree /\ ArrivalInv
  BY InitTypeOK, InitRegistries
<1>2. TypeOK /\ ControlInv /\ RegistriesAgree /\ ArrivalInv /\ [Next]_vars
        => (TypeOK /\ ControlInv /\ RegistriesAgree /\ ArrivalInv)'
  BY TypeStep, ControlStep, ArrivalStep, RegistriesStep
<1> QED BY <1>1, <1>2, PTL DEF Spec

(* The server's list, the waiter's set and the sockets' own flags agree in *)
(* every reachable state (addSocketConnection, removeSocketConnection and  *)
(* the sweep in onSTDIN).                                                  *)
THEOREM RegistriesAlwaysAgree == Spec => []RegistriesAgree
<1>1. Init => TypeOK /\ ControlInv /\ RegistriesAgree /\ ArrivalInv
  BY InitTypeOK, InitRegistries
<1>2. TypeOK /\ ControlInv /\ RegistriesAgree /\ ArrivalInv /\ [Next]_vars
        => (TypeOK /\ ControlInv /\ RegistriesAgree /\ ArrivalInv)'
  BY TypeStep, ControlStep, ArrivalStep, RegistriesStep
<1> QED BY <1>1, <1>2, PTL DEF Spec

=============================================================================
