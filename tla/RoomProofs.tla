----------------------------- MODULE RoomProofs -----------------------------
(***************************************************************************)
(* The conversation: what Server does for its clients, proved for every    *)
(* value of the constants, up to the fact that it implements ChatRoom.     *)
(***************************************************************************)
EXTENDS ServerProofs

(* What the steps need to know of the state they start from.               *)
BaseInv == TypeOK /\ ControlInv /\ RegistriesAgree /\ ArrivalInv

LEMMA InitBase == Init => BaseInv
BY InitTypeOK, InitRegistries DEF BaseInv

LEMMA BaseStep == ASSUME BaseInv, [Next]_vars PROVE BaseInv'
BY TypeStep, ControlStep, ArrivalStep, RegistriesStep DEF BaseInv

-----------------------------------------------------------------------------
(* The conversation grows only when a request is answered.                 *)
LEMMA LogCases ==
  ASSUME [Next]_vars
  PROVE  \/ UNCHANGED <<clientNames, log, origin>>
         \/ \E c \in Conns : Visits(c)
<1> USE DEF registry, history
<1>1. CASE UNCHANGED vars BY <1>1 DEF vars
<1>2. CASE Waits BY <1>2, WaitsFrame
<1>3. CASE Stops BY <1>3, StopsFrame
<1>4. CASE EnvNext BY <1>4, EnvFrame
<1>5. CASE OnSTDINExit \/ OnSTDINOther \/ ReturnFromMain \/ OnSocketServer
  BY <1>5 DEF OnSTDINExit, OnSTDINOther, ReturnFromMain, OnSocketServer
<1>6. ASSUME NEW c \in Conns,
             \/ Disconnected(c) \/ ReadFails(c)
             \/ WriteToLive(c) \/ WriteToClosed(c) \/ WriteFails(c)
      PROVE  UNCHANGED <<clientNames, log, origin>>
  BY <1>6 DEF Disconnected, ReadFails, WriteToLive, WriteToClosed, WriteFails
<1> QED BY StepCases, <1>1, <1>2, <1>3, <1>4, <1>5, <1>6

(* Adding to the conversation something other than an accepted login.      *)
LEMMA NotALogin ==
  ASSUME BaseInv, LoginOnce, NEW r \in Response, r.type # "LoginResponse",
         log' = Append(log, r), UNCHANGED clientNames
  PROVE  LoginOnce'
<1> USE DEF BaseInv, TypeOK, HistoryTypeOK
<1>1. /\ DOMAIN log = 1..Len(log) /\ DOMAIN log' = 1..(Len(log) + 1) /\ Len(log) \in Nat
      /\ \A i \in 1..Len(log) : log'[i] = log[i]
      /\ log'[Len(log) + 1] = r
  BY AppendProperties
<1>2. Range(log') = Range(log) \cup {r}
  BY AppendDistinct
<1>3. \A name \in Names : LoginResponse(name) # r
  BY DEF LoginResponse
<1>4. ASSUME NEW i \in DOMAIN log', NEW j \in DOMAIN log',
             log'[i].type = "LoginResponse", log'[i] = log'[j]
      PROVE  i = j
  <2>1. i \in 1..Len(log) /\ j \in 1..Len(log)
    BY <1>1, <1>4
  <2> QED BY <1>1, <1>4, <2>1 DEF LoginOnce
<1> QED BY <1>2, <1>3, <1>4 DEF LoginOnce

LEMMA LoginStep ==
  ASSUME BaseInv, LoginOnce, [Next]_vars
  PROVE  LoginOnce'
<1> USE DEF BaseInv, TypeOK, HistoryTypeOK, RegistryTypeOK
<1>1. CASE UNCHANGED <<clientNames, log, origin>>
  BY <1>1 DEF LoginOnce
<1>2. ASSUME NEW c \in Conns, VisitLogin(c) PROVE LoginOnce'
  <2>1. PICK reading \in Read(c), name \in Names :
          /\ name \notin Range(clientNames)
          /\ clientNames' = Append(clientNames, name)
          /\ log' = Append(log, LoginResponse(name))
    BY <1>2 DEF VisitLogin, Broadcast
  <2> DEFINE r == LoginResponse(name)
  <2>2. r \in Response
    BY DEF LoginResponse, Response
  <2>3. /\ DOMAIN log = 1..Len(log) /\ DOMAIN log' = 1..(Len(log) + 1) /\ Len(log) \in Nat
        /\ \A i \in 1..Len(log) : log'[i] = log[i]
        /\ log'[Len(log) + 1] = r
    BY <2>1, <2>2, AppendProperties
  <2>4. Range(log') = Range(log) \cup {r}
    BY <2>1, <2>2, AppendDistinct
  <2>5. /\ Range(clientNames') = Range(clientNames) \cup {name}
        /\ IsInjective(clientNames')
    BY <2>1, AppendDistinct DEF LoginOnce
  <2>6. \A n \in Names : LoginResponse(n) = r => n = name
    BY DEF LoginResponse
  <2>7. r \notin Range(log)
    BY <2>1 DEF LoginOnce
  <2> HIDE DEF r
  <2>8. ASSUME NEW i \in DOMAIN log', NEW j \in DOMAIN log',
               log'[i].type = "LoginResponse", log'[i] = log'[j]
        PROVE  i = j
    <3>1. i = j \/ (i \in DOMAIN log /\ j \in DOMAIN log /\ log[i] = log[j])
      BY <2>1, <2>2, <2>7, <2>8, AppendUnique DEF r
    <3>2. i \in DOMAIN log => log'[i] = log[i]
      BY <2>3
    <3> QED BY <2>8, <3>1, <3>2 DEF LoginOnce
  <2>9. ASSUME NEW n \in Names
        PROVE  n \in Range(clientNames') <=> LoginResponse(n) \in Range(log')
    BY <2>4, <2>5, <2>6 DEF LoginOnce, r
  <2> QED BY <2>5, <2>8, <2>9 DEF LoginOnce
<1>3. ASSUME NEW c \in Conns, VisitLoginInUse(c) PROVE LoginOnce'
  <2>1. NameInUse \in Response
    <3>1. "USER_NAME_IN_USE" \in ErrorCode BY DEF ErrorCode
    <3> QED BY <3>1 DEF NameInUse, Response
  <2>2. NameInUse.type # "LoginResponse"
    BY DEF NameInUse, ServerError
  <2> QED BY <1>3, <2>1, <2>2, NotALogin DEF VisitLoginInUse, Broadcast
<1>4. ASSUME NEW c \in Conns, VisitMessage(c) PROVE LoginOnce'
  <2>1. PICK reading \in Read(c), name \in Names, content \in Contents :
          log' = Append(log, MessageResponse(name, content))
    BY <1>4 DEF VisitMessage, Broadcast
  <2>2. /\ MessageResponse(name, content) \in Response
        /\ MessageResponse(name, content).type # "LoginResponse"
    BY DEF MessageResponse, Response
  <2>3. UNCHANGED clientNames
    BY <1>4 DEF VisitMessage
  <2> QED BY <2>1, <2>2, <2>3, NotALogin
<1>5. ASSUME NEW c \in Conns, VisitError(c) PROVE LoginOnce'
  <2>1. BadRequest \in Response
    <3>1. "MALFORMED_REQUEST_NO_TYPE" \in ErrorCode BY DEF ErrorCode
    <3> QED BY <3>1 DEF BadRequest, Response
  <2>2. BadRequest.type # "LoginResponse"
    BY DEF BadRequest, ServerError
  <2> QED BY <1>5, <2>1, <2>2, NotALogin DEF VisitError, Broadcast
<1> QED BY LogCases, <1>1, <1>2, <1>3, <1>4, <1>5 DEF Visits

(* visitLogin: a name logs in once, and the list it searches holds exactly *)
(* the names whose login was broadcast.                                    *)
THEOREM NamesLogInOnce == Spec => []LoginOnce
<1>1. Init => LoginOnce
  BY DEF Init, LoginOnce, Range, IsInjective
<1>2. BaseInv /\ LoginOnce /\ [Next]_vars => (BaseInv /\ LoginOnce)'
  BY BaseStep, LoginStep
<1> QED BY InitBase, <1>1, <1>2, PTL DEF Spec

-----------------------------------------------------------------------------
(* What each connection has been shown.  Beyond NoGap and CaughtUp, the    *)
(* induction needs to know that a connection starts with nothing shown.    *)
ShownInv ==
  /\ NoGap
  /\ CaughtUp
  /\ \A c \in Conns \ present : delivered[c] = <<>>

LEMMA InitShown == Init => ShownInv
<1> SUFFICES ASSUME Init PROVE ShownInv
  OBVIOUS
<1>1. /\ log = <<>> /\ sockets = {}
      /\ joined = [c \in Conns |-> 0] /\ delivered = [c \in Conns |-> <<>>]
  BY DEF Init
<1> QED BY <1>1 DEF ShownInv, NoGap, CaughtUp, Shown

(* Nothing is shown, and nothing is pending before or after.               *)
LEMMA QuietShown ==
  ASSUME BaseInv, ShownInv, UNCHANGED history,
         pc # "broadcast", pc' # "broadcast",
         sockets' \subseteq sockets, \A c \in Conns : open'[c] => open[c]
  PROVE  ShownInv'
<1>1. Pending = {} /\ Pending' = {}
  BY DEF Pending
<1>2. NoGap' /\ \A c \in Conns \ present' : delivered'[c] = <<>>
  BY DEF ShownInv, NoGap, Shown, history
<1>3. ASSUME NEW c \in sockets', open'[c] PROVE Shown(c)' = Len(log')
  <2>1. c \in sockets /\ c \in Conns /\ open[c]
    BY <1>3 DEF BaseInv, TypeOK, RegistryTypeOK
  <2> QED BY <1>1, <2>1 DEF ShownInv, CaughtUp, Shown, history
<1> QED BY <1>1, <1>2, <1>3 DEF ShownInv, CaughtUp

LEMMA AcceptShown ==
  ASSUME BaseInv, ShownInv, OnSocketServer
  PROVE  ShownInv'
<1>1. Head(backlog) \in Conns /\ Head(backlog) \notin present
  <2>1. backlog # <<>> /\ backlog \in Seq(Conns)
    BY DEF OnSocketServer, Handling, BaseInv, ControlInv, TypeOK, NetworkTypeOK
  <2> QED BY <2>1, TailDistinct DEF BaseInv, ArrivalInv
<1>2. PICK new \in Conns : new = Head(backlog) /\ new \notin present
  BY <1>1
<1>3. /\ pc # "broadcast" /\ pc' # "broadcast"
      /\ sockets' = sockets \cup {new} /\ present' = present \cup {new}
      /\ open' = [open EXCEPT ![new] = TRUE]
      /\ joined' = [joined EXCEPT ![new] = Len(log)]
      /\ UNCHANGED <<log, delivered>>
  BY <1>2 DEF OnSocketServer, Handling
<1>4. delivered[new] = <<>>
  BY <1>2 DEF ShownInv
<1>5. /\ joined'[new] = Len(log) /\ Len(log) \in Nat
      /\ \A c \in Conns \ {new} : joined'[c] = joined[c]
      /\ Len(delivered[new]) = 0
  BY <1>3, <1>2, <1>4 DEF BaseInv, TypeOK, HistoryTypeOK
<1>6. /\ Shown(new)' = Len(log)
      /\ \A c \in Conns \ {new} : Shown(c)' = Shown(c)
      /\ NoGap'
  <2>1. Shown(new)' = Len(log)
    BY <1>3, <1>5 DEF Shown
  <2>2. \A c \in Conns \ {new} : Shown(c)' = Shown(c)
    BY <1>3, <1>5 DEF Shown
  <2>3. ASSUME NEW c \in Conns PROVE Shown(c)' <= Len(log')
    <3>1. CASE c = new BY <1>3, <1>5, <2>1, <3>1
    <3>2. CASE c # new BY <1>3, <2>2, <3>2 DEF ShownInv, NoGap
    <3> QED BY <3>1, <3>2
  <2>4. ASSUME NEW c \in Conns, NEW k \in DOMAIN delivered'[c]
        PROVE  delivered'[c][k] = log'[joined'[c] + k]
    <3>1. CASE c = new BY <1>3, <1>4, <3>1
    <3>2. CASE c # new
      <4>1. joined'[c] = joined[c] /\ delivered' = delivered /\ log' = log
        BY <1>3, <1>5, <3>2
      <4> QED BY <2>4, <4>1 DEF ShownInv, NoGap
    <3> QED BY <3>1, <3>2
  <2> QED BY <2>1, <2>2, <2>3, <2>4 DEF NoGap
<1>7. ASSUME NEW c \in sockets', open'[c] PROVE Shown(c)' = Len(log')
  <2>1. CASE c = new
    BY <1>3, <1>6, <2>1
  <2>2. CASE c # new
    <3>1. c \in sockets /\ c \in Conns /\ open[c]
      BY <1>3, <1>2, <1>7, <2>2 DEF BaseInv, TypeOK, RegistryTypeOK
    <3> QED BY <1>3, <1>6, <2>2, <3>1 DEF ShownInv, CaughtUp, Pending
  <2> QED BY <2>1, <2>2
<1>8. CaughtUp'
  BY <1>3, <1>7 DEF CaughtUp, Pending
<1>9. \A c \in Conns \ present' : delivered'[c] = <<>>
  BY <1>3 DEF ShownInv
<1> QED BY <1>6, <1>8, <1>9 DEF ShownInv

LEMMA VisitShown ==
  ASSUME BaseInv, ShownInv, NEW c \in Conns, Visits(c)
  PROVE  ShownInv'
<1> USE DEF BaseInv, TypeOK, HistoryTypeOK
<1>1. PICK reading \in Read(c), r \in Response : Broadcast(c, reading, r)
  BY VisitsFrame
<1>2. /\ pc = "dispatch" /\ pc' = "broadcast" /\ next' = 1
      /\ log' = Append(log, r)
      /\ UNCHANGED <<socketList, sockets, open, present, joined, delivered>>
  BY <1>1, VisitsFrame DEF Broadcast, Handling, files
<1>3. /\ Len(log') = Len(log) + 1 /\ Len(log) \in Nat
      /\ \A k \in 1..Len(log) : log'[k] = log[k]
  BY <1>2, AppendProperties
<1>4. \A d \in Conns : Shown(d)' = Shown(d) /\ Shown(d) <= Len(log)
  BY <1>2 DEF ShownInv, NoGap, Shown
<1>5. NoGap'
  <2>1. ASSUME NEW d \in Conns PROVE Shown(d)' <= Len(log')
    BY <1>3, <1>4 DEF Shown
  <2>2. ASSUME NEW d \in Conns, NEW k \in DOMAIN delivered'[d]
        PROVE  delivered'[d][k] = log'[joined'[d] + k]
    <3>1. delivered[d][k] = log[joined[d] + k]
      BY <1>2 DEF ShownInv, NoGap
    <3>2. joined[d] + k \in 1..Len(log)
      BY <1>2, <1>3, <1>4 DEF Shown
    <3> QED BY <1>2, <1>3, <3>1, <3>2
  <2> QED BY <2>1, <2>2 DEF NoGap
<1>6. Pending' = sockets
  <2>1. Range(socketList) = sockets /\ socketList \in Seq(Conns)
    BY DEF RegistriesAgree, RegistryTypeOK
  <2>2. DOMAIN socketList = 1..Len(socketList)
    BY <2>1, LenProperties
  <2>3. Pending' = { socketList[i] : i \in 1..Len(socketList) }
    BY <1>2 DEF Pending
  <2> QED BY <2>1, <2>2, <2>3 DEF Range
<1>7. ASSUME NEW d \in sockets, open[d] PROVE Shown(d) = Len(log)
  BY <1>2, <1>7 DEF ShownInv, CaughtUp, Pending
<1>8. CaughtUp'
  BY <1>2, <1>3, <1>4, <1>6, <1>7 DEF CaughtUp, RegistryTypeOK
<1> QED BY <1>2, <1>5, <1>8 DEF ShownInv


(* The step of the broadcast that deals with socketList[next], whether the *)
(* response is handed to it or not: nobody else's turn changes.            *)
LEMMA AdvancePending ==
  ASSUME BaseInv, NEW c \in Conns, Writing(c), Advance, UNCHANGED socketList
  PROVE  c \in Pending /\ Pending' = Pending \ {c}
<1>1. /\ pc = "broadcast" /\ next \in 1..Len(socketList) /\ c = socketList[next]
      /\ next' = next + 1
      /\ pc' = IF next = Len(socketList) THEN "wait" ELSE "broadcast"
      /\ Len(socketList) \in Nat /\ DOMAIN socketList = 1..Len(socketList)
  BY DEF Writing, Advance, BaseInv, TypeOK, RegistryTypeOK
<1>2. Pending = { socketList[k] : k \in next..Len(socketList) }
  BY <1>1 DEF Pending
<1>3. Pending' = { socketList[k] : k \in (next + 1)..Len(socketList) }
  <2>1. CASE next = Len(socketList)
    <3>1. Pending' = {}
      BY <1>1, <2>1 DEF Pending
    <3>2. (next + 1)..Len(socketList) = {}
      BY <1>1, <2>1
    <3> QED BY <3>1, <3>2
  <2>2. CASE next # Len(socketList)
    BY <1>1, <2>2 DEF Pending
  <2> QED BY <2>1, <2>2
<1>4. next \in Nat \ {0} /\ Len(socketList) \in Nat /\ next <= Len(socketList)
  BY DEF Writing, BaseInv, TypeOK, ControlTypeOK, RegistryTypeOK, ControlInv
<1>5. ASSUME NEW k \in (next + 1)..Len(socketList) PROVE socketList[k] # c
  <2>1. k \in 1..Len(socketList) /\ next \in 1..Len(socketList) /\ k # next
    BY <1>4
  <2> QED BY <1>1, <2>1 DEF BaseInv, RegistriesAgree, IsInjective
<1>6. next..Len(socketList) = {next} \cup ((next + 1)..Len(socketList))
  BY <1>4
<1>7. Pending = {c} \cup Pending'
  BY <1>1, <1>2, <1>3, <1>6
<1>8. c \notin Pending'
  BY <1>3, <1>5
<1> QED BY <1>7, <1>8

LEMMA HandShown ==
  ASSUME BaseInv, ShownInv, NEW c \in Conns, WriteToLive(c) \/ WriteToClosed(c)
  PROVE  /\ ShownInv'
         /\ Shown(c) = Len(log) - 1
<1> USE DEF BaseInv, TypeOK, HistoryTypeOK
<1>1. /\ Writing(c) /\ Advance /\ open[c]
      /\ delivered' = [delivered EXCEPT ![c] = Append(@, log[Len(log)])]
      /\ UNCHANGED <<socketList, sockets, open, log, present, joined>>
  BY DEF WriteToLive, WriteToClosed, Hand, registry, files
<1>2. c \in Pending /\ Pending' = Pending \ {c}
  BY <1>1, AdvancePending
<1>3. c \in sockets /\ c \in present
  BY <1>1 DEF Writing, RegistriesAgree, Range, ArrivalInv
<1>4. log # <<>> /\ Len(log) \in Nat \ {0} /\ log[Len(log)] \in Response
  <2>1. log # <<>>
    BY <1>1 DEF Writing, ControlInv
  <2>2. Len(log) \in 1..Len(log)
    BY <2>1
  <2> QED BY <2>1, <2>2
<1>5. Shown(c) = Len(log) - 1
  BY <1>1, <1>2, <1>3 DEF ShownInv, CaughtUp
<1>6. /\ Len(delivered'[c]) = Len(delivered[c]) + 1
      /\ DOMAIN delivered'[c] = 1..(Len(delivered[c]) + 1)
      /\ \A k \in 1..Len(delivered[c]) : delivered'[c][k] = delivered[c][k]
      /\ delivered'[c][Len(delivered[c]) + 1] = log[Len(log)]
      /\ Len(delivered[c]) \in Nat
      /\ joined[c] \in Nat
  BY <1>1, <1>4, AppendProperties
<1>7. \A d \in Conns \ {c} : delivered'[d] = delivered[d]
  BY <1>1
<1>8. Shown(c)' = Len(log) /\ \A d \in Conns \ {c} : Shown(d)' = Shown(d)
  BY <1>1, <1>4, <1>5, <1>6, <1>7 DEF Shown
<1>9. NoGap'
  <2>1. ASSUME NEW d \in Conns PROVE Shown(d)' <= Len(log')
    <3>1. CASE d = c BY <1>1, <1>4, <1>8, <3>1
    <3>2. CASE d # c BY <1>1, <1>8, <3>2 DEF ShownInv, NoGap
    <3> QED BY <3>1, <3>2
  <2>2. ASSUME NEW k \in DOMAIN delivered'[c]
        PROVE  delivered'[c][k] = log'[joined'[c] + k]
    <3>1. CASE k \in 1..Len(delivered[c])
      BY <1>1, <1>6, <3>1 DEF ShownInv, NoGap
    <3>2. CASE k = Len(delivered[c]) + 1
      <4>1. joined[c] + k = Len(log)
        BY <1>4, <1>5, <1>6, <3>2 DEF Shown
      <4> QED BY <1>1, <1>6, <3>2, <4>1
    <3> QED BY <1>6, <3>1, <3>2
  <2>3. ASSUME NEW d \in Conns \ {c}, NEW k \in DOMAIN delivered'[d]
        PROVE  delivered'[d][k] = log'[joined'[d] + k]
    BY <1>1, <1>7 DEF ShownInv, NoGap
  <2> QED BY <2>1, <2>2, <2>3 DEF NoGap
<1>10. CaughtUp'
  <2>1. ASSUME NEW d \in sockets', open'[d]
        PROVE  Shown(d)' = IF d \in Pending' THEN Len(log') - 1 ELSE Len(log')
    <3>1. CASE d = c
      BY <1>1, <1>2, <1>8, <3>1
    <3>2. CASE d # c
      BY <1>1, <1>2, <1>8, <2>1, <3>2 DEF ShownInv, CaughtUp, RegistryTypeOK
    <3> QED BY <3>1, <3>2
  <2> QED BY <2>1 DEF CaughtUp
<1>11. \A d \in Conns \ present' : delivered'[d] = <<>>
  BY <1>1, <1>3, <1>7 DEF ShownInv
<1> QED BY <1>5, <1>9, <1>10, <1>11 DEF ShownInv

LEMMA FailShown ==
  ASSUME BaseInv, ShownInv, NEW c \in Conns, WriteFails(c)
  PROVE  ShownInv'
<1>1. /\ Writing(c) /\ Advance
      /\ open' = [open EXCEPT ![c] = FALSE]
      /\ UNCHANGED <<socketList, sockets, log, present, joined, delivered>>
  BY DEF WriteFails, registry, history
<1>2. Pending' = Pending \ {c}
  BY <1>1, AdvancePending
<1>3. NoGap' /\ \A d \in Conns \ present' : delivered'[d] = <<>>
  BY <1>1 DEF ShownInv, NoGap, Shown
<1>4. ASSUME NEW d \in sockets', open'[d]
      PROVE  Shown(d)' = IF d \in Pending' THEN Len(log') - 1 ELSE Len(log')
  <2>1. d \in sockets /\ d # c /\ open[d]
    BY <1>1, <1>4 DEF BaseInv, TypeOK, RegistryTypeOK
  <2> QED BY <1>1, <1>2, <2>1 DEF ShownInv, CaughtUp, Shown
<1> QED BY <1>3, <1>4 DEF ShownInv, CaughtUp


LEMMA ShownStep ==
  ASSUME BaseInv, ShownInv, [Next]_vars
  PROVE  ShownInv'
<1>1. ASSUME UNCHANGED <<pc, next, socketList, sockets, open, log, present, joined, delivered>>
      PROVE  ShownInv'
  BY <1>1 DEF ShownInv, NoGap, CaughtUp, Shown, Pending
<1>2. CASE UNCHANGED vars
  BY <1>1, <1>2 DEF vars, control, registry, files, history
<1>3. CASE Stops
  BY <1>1, <1>3, StopsFrame DEF registry, files, history
<1>4. CASE EnvNext
  BY <1>1, <1>4, EnvFrame DEF control, registry, files, history
<1>5. CASE Waits
  <2>1. /\ pc # "broadcast" /\ pc' # "broadcast"
        /\ UNCHANGED <<history, sockets, open>>
    BY <1>5 DEF Waits, SelectStdin, SelectMaster, SelectSocket, Dispatch, Looping,
                registry, files
  <2> QED BY <2>1, QuietShown
<1>6. CASE OnSTDINExit \/ OnSTDINOther \/ ReturnFromMain
  <2>1. /\ pc # "broadcast" /\ pc' # "broadcast"
        /\ UNCHANGED history /\ sockets' \subseteq sockets
    BY <1>6 DEF OnSTDINExit, OnSTDINOther, ReturnFromMain, Handling, registry
  <2>2. \A c \in Conns : open'[c] => open[c]
    BY <1>6 DEF OnSTDINExit, OnSTDINOther, ReturnFromMain, files
  <2> QED BY <2>1, <2>2, QuietShown
<1>7. CASE OnSocketServer
  BY <1>7, AcceptShown
<1>8. ASSUME NEW c \in Conns, Disconnected(c) \/ ReadFails(c) PROVE ShownInv'
  <2>1. /\ pc # "broadcast" /\ pc' # "broadcast"
        /\ UNCHANGED history /\ sockets' \subseteq sockets
        /\ open' = [open EXCEPT ![c] = FALSE]
    BY <1>8 DEF Disconnected, ReadFails, Handling, registry
  <2>2. \A d \in Conns : open'[d] => open[d]
    BY <2>1 DEF BaseInv, TypeOK, RegistryTypeOK
  <2> QED BY <2>1, <2>2, QuietShown
<1> QED
  BY StepCases, <1>2, <1>3, <1>4, <1>5, <1>6, <1>7, <1>8, VisitShown, HandShown, FailShown

LEMMA Shows == Spec => []ShownInv
<1>1. BaseInv /\ ShownInv /\ [Next]_vars => (BaseInv /\ ShownInv)'
  BY BaseStep, ShownStep
<1> QED BY InitBase, InitShown, <1>1, PTL DEF Spec

(* Every connection is shown one stretch of the common conversation, in    *)
(* order, nothing lost or repeated (the loop over _socketList in onSocket, *)
(* with accepts, removals and failing writes between its rounds).          *)
THEOREM ShownWithoutGap == Spec => []NoGap
<1>1. ShownInv => NoGap
  BY DEF ShownInv
<1> QED BY Shows, <1>1, PTL

(* Between broadcasts every open socket has been shown everything, and     *)
(* during one exactly those still to come lack the current response.       *)
THEOREM EveryoneCaughtUp == Spec => []CaughtUp
<1>1. ShownInv => CaughtUp
  BY DEF ShownInv
<1> QED BY Shows, <1>1, PTL

-----------------------------------------------------------------------------
(* Requests and answers.                                                   *)

(* The account of one connection.  A fragment is left by a read that tore  *)
(* a request, and of a client that waits for its answers there is never    *)
(* more than one request to tear.                                          *)
Accounted(c) ==
  /\ Cardinality(Answered(c)) + Whole(inbox[c]) + torn[c] = sent[c] + parts[c]
  /\ Proper(inbox[c])
  /\ parts[c] > 0 => torn[c] > 0
  /\ inbox[c] # <<>> /\ Head(inbox[c]) = Fragment => torn[c] > 0
  /\ "pipeline" \notin Trouble => torn[c] = 0 /\ Len(Lead(inbox[c])) <= 1

AccountInv == \A c \in Conns : Accounted(c)

LEMMA AccountShows == AccountInv => NothingLost
BY DEF AccountInv, Accounted, Proper, NothingLost

LEMMA InitAccount == Init => AccountInv
<1> SUFFICES ASSUME Init, NEW c \in Conns PROVE Accounted(c)
  BY DEF AccountInv
<1>1. origin = <<>> /\ inbox[c] = <<>> /\ torn[c] = 0 /\ sent[c] = 0 /\ parts[c] = 0
  BY DEF Init
<1>2. Answered(c) = {}
  BY <1>1 DEF Answered
<1>3. Whole(inbox[c]) = 0 /\ Len(inbox[c]) = 0 /\ Len(Lead(inbox[c])) = 0
  BY <1>1 DEF Whole, Lead
<1> QED BY <1>1, <1>2, <1>3, FS_EmptySet DEF Accounted, Proper

LEMMA AnsweredFinite ==
  ASSUME TypeOK, NEW c \in Conns
  PROVE  IsFiniteSet(Answered(c)) /\ Cardinality(Answered(c)) \in Nat
<1>1. Len(origin) \in Nat /\ DOMAIN origin = 1..Len(origin)
  BY DEF TypeOK, HistoryTypeOK
<1>2. IsFiniteSet(1..Len(origin))
  BY <1>1, FS_Interval
<1>3. Answered(c) \subseteq 1..Len(origin)
  BY <1>1 DEF Answered
<1> QED BY <1>2, <1>3, FS_Subset, FS_CardinalityType

(* A request that arrives joins the inbox whole, behind what is there.     *)
LEMMA SendWhole ==
  ASSUME NEW q \in Seq(Sends \cup Leftover), NEW r \in Sends
  PROVE  /\ Whole(Append(q, r)) = Whole(q) + 1
         /\ Proper(q) => Proper(Append(q, r))
<1> DEFINE p == Append(q, r)
<1>1. /\ p # <<>> /\ Len(p) = Len(q) + 1 /\ Len(q) \in Nat
      /\ \A i \in 1..Len(q) : p[i] = q[i]
      /\ p[Len(q) + 1] = r /\ Head(p) = p[1]
  <2>1. r \in Sends \cup Leftover
    OBVIOUS
  <2>2. p \in Seq(Sends \cup Leftover) /\ p # <<>>
    BY <2>1, AppendProperties
  <2> QED BY <2>1, <2>2, AppendProperties, HeadTailProperties
<1>2. r \notin Leftover
  BY SendsAreWhole
<1> HIDE DEF p
<1>3. CASE q = <<>>
  <2>1. Len(q) = 0
    BY <1>3
  <2> QED BY <1>1, <1>2, <1>3, <2>1 DEF Whole, Proper, p
<1>4. CASE q # <<>>
  <2>1. Len(q) > 0 /\ Head(q) = q[1]
    BY <1>4, HeadTailProperties, EmptySeq
  <2>2. Head(p) = Head(q)
    BY <1>1, <2>1
  <2>3. Whole(p) = Whole(q) + 1
    BY <1>1, <1>4, <2>1, <2>2 DEF Whole
  <2>4. ASSUME Proper(q) PROVE Proper(p)
    <3>1. ASSUME NEW i \in 2..Len(p) PROVE p[i] \notin Leftover
      <4>1. CASE i = Len(q) + 1
        BY <1>1, <1>2, <4>1
      <4>2. CASE i \in 2..Len(q)
        BY <1>1, <2>4, <4>2 DEF Proper
      <4> QED BY <1>1, <4>1, <4>2
    <3> QED BY <3>1 DEF Proper
  <2> QED BY <2>3, <2>4 DEF p
<1> QED BY <1>3, <1>4

(* With one request to read there is none to tear.                         *)
LEMMA OneIsNotTorn ==
  ASSUME NEW q \in Seq(Sends \cup Leftover), Len(Lead(q)) <= 1, NEW pieces,
         NEW reading \in Readings(q, pieces)
  PROVE  reading.part = 1 \/ (reading.torn = 0 /\ Len(Lead(reading.rest)) = 0)
<1> DEFINE h == Lead(q)
<1>1. CASE Head(h) = Fragment
  BY <1>1, PartAccount
<1>2. CASE Head(h) # Fragment
  <2>1. h # <<>> /\ q # <<>>
    BY DEF Readings, Lead
  <2>2. h \in Seq(Sends \cup Leftover)
    BY <2>1, TailElements DEF Lead
  <2>3. Tail(h) = <<>>
    <3>1. Tail(h) \in Seq(Sends \cup Leftover) /\ Len(Tail(h)) = Len(h) - 1 /\ Len(h) \in Nat \ {0}
      BY <2>1, <2>2, TailElements
    <3>2. Len(Tail(h)) = 0
      BY <3>1
    <3> QED BY <3>1, <3>2, EmptySeq
  <2>4. reading \in ReadWhole(h) \/ reading \in ReadFull(h) \/ reading \in ReadShort(h)
    BY <1>2 DEF Readings
  <2> HIDE DEF h
  <2>5. Remains(Tail(h)) = { [rest |-> <<>>, torn |-> 0] }
    BY <2>3 DEF Remains
  <2>6. reading.torn = 0 /\ (reading.rest = Tail(h) \/ reading.rest = <<Newline>> \o Tail(h))
    <3>1. CASE reading \in ReadWhole(h)
      <4>1. PICK left \in Remains(Tail(h)) :
              reading = [request |-> Head(h), rest |-> left.rest, torn |-> left.torn,
                         part |-> 0]
        BY <3>1 DEF ReadWhole
      <4>2. left = [rest |-> <<>>, torn |-> 0]
        BY <2>5
      <4>3. left.rest = <<>> /\ left.torn = 0
        BY <4>2
      <4> QED BY <2>3, <4>1, <4>3
    <3>2. CASE reading \in ReadFull(h)
      BY <3>2 DEF ReadFull
    <3>3. CASE reading \in ReadShort(h)
      BY <3>3 DEF ReadShort
    <3> QED BY <2>4, <3>1, <3>2, <3>3
  <2>7. <<Newline>> \o Tail(h) = <<Newline>>
    <3>1. \A e : <<e>> \o <<>> = <<e>>
      OBVIOUS
    <3> QED BY <2>3, <3>1
  <2>8. Len(Lead(<<>>)) = 0 /\ Len(Lead(<<Newline>>)) = 0
    BY DEF Lead
  <2> QED BY <2>3, <2>6, <2>7, <2>8
<1> QED BY <1>1, <1>2

LEMMA AppendHead ==
  ASSUME NEW T, NEW q \in Seq(T), NEW e \in T
  PROVE  Head(Append(q, e)) = IF q = <<>> THEN e ELSE Head(q)
<1>1. /\ Append(q, e) \in Seq(T) /\ Append(q, e) # <<>> /\ Len(q) \in Nat
      /\ \A i \in 1..Len(q) : Append(q, e)[i] = q[i]
      /\ Append(q, e)[Len(q) + 1] = e
  BY AppendProperties
<1>2. Head(Append(q, e)) = Append(q, e)[1]
  BY <1>1, HeadTailProperties
<1>3. q # <<>> => Head(q) = q[1] /\ 1 \in 1..Len(q)
  BY <1>1, HeadTailProperties, EmptySeq
<1>4. q = <<>> => Len(q) = 0
  OBVIOUS
<1> QED BY <1>1, <1>2, <1>3, <1>4

(* A client that waits for its answers has one request to read at most.    *)
LEMMA LeadOfAppend ==
  ASSUME NEW q \in Seq(Sends \cup Leftover), q \in {<<>>, <<Newline>>}, NEW r \in Sends
  PROVE  Len(Lead(Append(q, r))) <= 1
<1> DEFINE p == Append(q, r)
<1>1. /\ p \in Seq(Sends \cup Leftover) /\ p # <<>>
      /\ Len(p) = Len(q) + 1 /\ Len(Tail(p)) = Len(q)
      /\ Head(p) = IF q = <<>> THEN r ELSE Head(q)
  <2>1. r \in Sends \cup Leftover
    OBVIOUS
  <2>2. p \in Seq(Sends \cup Leftover) /\ p # <<>> /\ Len(p) = Len(q) + 1 /\ Len(q) \in Nat
    BY <2>1, AppendProperties, LenProperties
  <2>3. Head(p) = IF q = <<>> THEN r ELSE Head(q)
    BY <2>1, AppendHead
  <2>4. Len(Tail(p)) = Len(p) - 1
    BY <2>2, TailElements
  <2> QED BY <2>2, <2>3, <2>4
<1> HIDE DEF p
<1>2. CASE q = <<>>
  <2>1. Len(q) = 0 /\ r # Newline
    BY <1>2, SendsAreWhole DEF Leftover
  <2>2. Lead(p) = p
    BY <1>1, <1>2, <2>1 DEF Lead
  <2>3. Len(p) = 1
    BY <1>1, <2>1
  <2>4. Len(Lead(p)) <= 1
    BY <2>2, <2>3
  <2> QED BY <2>4 DEF p
<1>3. CASE q = <<Newline>>
  <2>1. Len(<<Newline>>) = 1 /\ Head(<<Newline>>) = Newline /\ <<Newline>> # <<>>
    OBVIOUS
  <2>2. Len(q) = 1 /\ Head(q) = Newline /\ q # <<>>
    BY <1>3, <2>1, Zenon
  <2>3. Lead(p) = Tail(p)
    BY <1>1, <2>2 DEF Lead
  <2>4. Len(Tail(p)) = 1
    BY <1>1, <2>2
  <2>5. Len(Lead(p)) = 1
    BY <2>3, <2>4, Zenon
  <2> QED BY <2>5 DEF p
<1> QED BY <1>2, <1>3

LEMMA SentSum ==
  ASSUME NEW a \in Int, NEW w \in Int, NEW t \in Int, NEW s \in Int, NEW p \in Int,
         a + w + t = s + p
  PROVE  a + (w + 1) + t = (s + 1) + p
OBVIOUS

LEMMA ReadSum ==
  ASSUME NEW a \in Int, NEW w \in Int, NEW t \in Int, NEW s \in Int, NEW p \in Int,
         NEW v \in Int, NEW x \in Int, NEW y \in Int,
         a + w + t = s + p, v + x = w - 1 + y
  PROVE  (a + 1) + v + (t + x) = s + (p + y)
OBVIOUS

LEMMA AccountStep ==
  ASSUME BaseInv, AccountInv, [Next]_vars
  PROVE  AccountInv'
<1> USE DEF BaseInv
<1>1. ASSUME UNCHANGED <<origin, inbox, torn, sent, parts>> PROVE AccountInv'
  BY <1>1 DEF AccountInv, Accounted, Answered
<1>2. CASE UNCHANGED vars
  BY <1>1, <1>2 DEF vars, network, history
<1>3. CASE Waits BY <1>1, <1>3, WaitsFrame DEF network, history
<1>4. CASE Stops BY <1>1, <1>4, StopsFrame DEF network, history
<1>5. CASE EnvNext
  <2>1. ASSUME NEW c \in Conns, NEW r \in Sends, Send(c, r) PROVE AccountInv'
    <3>1. /\ inbox' = [inbox EXCEPT ![c] = Append(@, r)]
          /\ sent' = [sent EXCEPT ![c] = @ + 1]
          /\ origin' = origin /\ torn' = torn /\ parts' = parts
          /\ MayFollow(inbox[c], Trouble)
      BY <2>1 DEF Send, history
    <3>2. ASSUME NEW d \in Conns PROVE Accounted(d)'
      <4>1. /\ Answered(d)' = Answered(d) /\ Cardinality(Answered(d)) \in Nat
            /\ Accounted(d) /\ torn[d] \in Nat /\ parts[d] \in Int
        <5>1. Answered(d)' = Answered(d)
          BY <3>1 DEF Answered
        <5>2. Cardinality(Answered(d)) \in Nat
          BY AnsweredFinite
        <5>3. torn[d] \in Nat /\ parts[d] \in Int
          BY BoundsAssumption DEF TypeOK, HistoryTypeOK
        <5> QED BY <5>1, <5>2, <5>3 DEF AccountInv
      <4>2. CASE d = c
        <5>1. inbox'[d] = Append(inbox[d], r) /\ sent'[d] = sent[d] + 1
          BY <3>1, <4>2 DEF TypeOK, NetworkTypeOK
        <5>2. inbox[d] \in Seq(Sends \cup Leftover)
          BY DEF TypeOK, NetworkTypeOK
        <5>3. Whole(inbox'[d]) = Whole(inbox[d]) + 1 /\ Proper(inbox'[d])
          BY <4>1, <5>1, <5>2, SendWhole DEF Accounted
        <5>4. Whole(inbox[d]) \in Int
          BY <5>2 DEF Whole
        <5>5. Head(inbox'[d]) = Fragment => inbox[d] # <<>> /\ Head(inbox[d]) = Fragment
          <6>1. r # Fragment
            BY SendsAreWhole DEF Leftover
          <6> QED BY <5>1, <5>2, <6>1, AppendHead
        <5>6. "pipeline" \notin Trouble => Len(Lead(inbox'[d])) <= 1
          <6> SUFFICES ASSUME "pipeline" \notin Trouble PROVE Len(Lead(inbox'[d])) <= 1
            OBVIOUS
          <6>1. inbox[d] \in {<<>>, <<Newline>>}
            BY <3>1, <4>2 DEF MayFollow
          <6> QED BY <5>1, <5>2, <6>1, LeadOfAppend
        <5>7. Cardinality(Answered(d)') + Whole(inbox'[d]) + torn'[d] = sent'[d] + parts'[d]
          <6>1. /\ Cardinality(Answered(d)) + Whole(inbox[d]) + torn[d] = sent[d] + parts[d]
                /\ sent[d] \in Int
            BY <4>1, BoundsAssumption DEF Accounted, TypeOK, NetworkTypeOK
          <6>2. Cardinality(Answered(d)) + (Whole(inbox[d]) + 1) + torn[d]
                  = (sent[d] + 1) + parts[d]
            BY <4>1, <5>4, <6>1, SentSum
          <6> HIDE DEF BaseInv
          <6>3. torn'[d] = torn[d] /\ parts'[d] = parts[d]
            BY <3>1
          <6> QED BY <4>1, <5>1, <5>3, <6>2, <6>3
        <5> QED BY <3>1, <4>1, <5>3, <5>5, <5>6, <5>7, AppendNonEmpty DEF Accounted
      <4>3. CASE d # c
        BY <3>1, <4>1, <4>3 DEF TypeOK, NetworkTypeOK, Accounted
      <4> QED BY <4>2, <4>3
    <3> QED BY <3>2 DEF AccountInv
  <2>2. ASSUME ~ \E c \in Conns, r \in Sends : Send(c, r)
        PROVE  UNCHANGED <<origin, inbox, torn, sent, parts>>
    BY <1>5, <2>2 DEF EnvNext, Connect, ClientRead, Leave, Reset, TypeLine, EndInput,
                      network, history
  <2> QED BY <1>1, <2>1, <2>2
<1>6. CASE OnSTDINExit \/ OnSTDINOther \/ ReturnFromMain \/ OnSocketServer
  BY <1>1, <1>6 DEF OnSTDINExit, OnSTDINOther, ReturnFromMain, OnSocketServer, network, history
<1>7. ASSUME NEW c \in Conns, Visits(c) PROVE AccountInv'
  <2>1. PICK reading \in Read(c), r \in Response : Broadcast(c, reading, r)
    BY <1>7, VisitsFrame
  <2>2. /\ inbox' = [inbox EXCEPT ![c] = reading.rest]
        /\ torn' = [torn EXCEPT ![c] = @ + reading.torn]
        /\ parts' = [parts EXCEPT ![c] = @ + reading.part]
        /\ origin' = Append(origin, c)
        /\ sent' = sent
    BY <2>1 DEF Broadcast
  <2>3. /\ reading.torn \in {0, 1} /\ reading.part \in {0, 1}
        /\ inbox[c] # <<>> /\ reading.rest \in Seq(Sends \cup Leftover)
        /\ Proper(inbox[c]) =>
             /\ Proper(reading.rest)
             /\ reading.part = 1 => reading.rest = inbox[c] /\ Head(inbox[c]) = Fragment
             /\ reading.rest # <<>> /\ Head(reading.rest) = Fragment
                  => reading.torn + reading.part = 1
             /\ Whole(reading.rest) + reading.torn = Whole(inbox[c]) - 1 + reading.part
    BY ReadAccount DEF TypeOK, NetworkTypeOK, AccountsFor
  <2>4. /\ DOMAIN origin' = 1..(Len(origin) + 1) /\ DOMAIN origin = 1..Len(origin)
        /\ Len(origin) \in Nat
        /\ \A k \in 1..Len(origin) : origin'[k] = origin[k]
        /\ origin'[Len(origin) + 1] = c
    BY <2>2, AppendProperties DEF TypeOK, HistoryTypeOK
  <2>5. ASSUME NEW d \in Conns PROVE Accounted(d)'
    <3>1. /\ IsFiniteSet(Answered(d)) /\ Cardinality(Answered(d)) \in Nat
          /\ Accounted(d) /\ torn[d] \in Nat /\ parts[d] \in Nat
      BY AnsweredFinite, BoundsAssumption DEF AccountInv, TypeOK, HistoryTypeOK
    <3>2. CASE d = c
      <4>1. Answered(d)' = Answered(d) \cup {Len(origin) + 1}
        BY <2>4, <3>2 DEF Answered
      <4>2. Len(origin) + 1 \notin Answered(d)
        BY <2>4 DEF Answered
      <4>3. Cardinality(Answered(d)') = Cardinality(Answered(d)) + 1
        BY <3>1, <4>1, <4>2, FS_AddElement
      <4>4. /\ inbox'[d] = reading.rest /\ torn'[d] = torn[d] + reading.torn
            /\ parts'[d] = parts[d] + reading.part
        BY <2>2, <3>2 DEF TypeOK, NetworkTypeOK, HistoryTypeOK
      <4>5. /\ Whole(inbox'[d]) + reading.torn = Whole(inbox[d]) - 1 + reading.part
            /\ Proper(inbox'[d])
            /\ reading.part = 1 => inbox'[d] = inbox[d] /\ Head(inbox[d]) = Fragment
            /\ inbox'[d] # <<>> /\ Head(inbox'[d]) = Fragment
                 => reading.torn + reading.part = 1
        BY <2>3, <3>1, <3>2, <4>4 DEF Accounted
      <4>8. reading.part = 1 => torn[d] > 0
        BY <2>3, <3>1, <3>2, <4>5 DEF Accounted
      <4>9. "pipeline" \notin Trouble => torn'[d] = 0 /\ Len(Lead(inbox'[d])) <= 1
        <5>1. ASSUME "pipeline" \notin Trouble, reading.part # 1
              PROVE  reading.torn = 0 /\ Len(Lead(reading.rest)) = 0
          <6>1. inbox[c] \in Seq(Sends \cup Leftover) /\ Len(Lead(inbox[c])) <= 1
            BY <3>1, <3>2, <5>1 DEF Accounted, TypeOK, NetworkTypeOK
          <6>2. reading \in Readings(inbox[c], "split" \in Trouble)
            BY DEF Read
          <6> QED BY <5>1, <6>1, <6>2, OneIsNotTorn
        <5>2. "pipeline" \notin Trouble => torn[d] = 0 /\ reading.part # 1
          BY <3>1, <4>8 DEF Accounted
        <5> QED BY <2>3, <3>1, <4>4, <5>1, <5>2
      <4>10. Head(inbox'[d]) = Fragment /\ inbox'[d] # <<>> => torn'[d] > 0
        BY <2>3, <3>1, <4>4, <4>5, <4>8
      <4>11. parts'[d] > 0 => torn'[d] > 0
        BY <2>3, <3>1, <4>4, <4>8 DEF Accounted
      <4>6. Whole(inbox[d]) \in Int /\ Whole(inbox'[d]) \in Int
        BY <2>3, <4>4 DEF Whole, TypeOK, NetworkTypeOK
      <4>7. sent'[d] = sent[d]
        BY <2>2
      <4>12. Cardinality(Answered(d)') + Whole(inbox'[d]) + torn'[d] = sent'[d] + parts'[d]
        <5>1. /\ Cardinality(Answered(d)) + Whole(inbox[d]) + torn[d] = sent[d] + parts[d]
              /\ sent[d] \in Int
          BY <3>1, BoundsAssumption DEF Accounted, TypeOK, NetworkTypeOK
        <5>2. Whole(inbox'[d]) + reading.torn = Whole(inbox[d]) - 1 + reading.part
          BY <4>5
        <5>3. Cardinality(Answered(d)') + Whole(inbox'[d]) + (torn[d] + reading.torn)
                = sent[d] + (parts[d] + reading.part)
          <6>1. /\ Cardinality(Answered(d)) \in Int /\ torn[d] \in Int /\ parts[d] \in Int
                /\ reading.torn \in Int /\ reading.part \in Int
            BY <2>3, <3>1
          <6>2. (Cardinality(Answered(d)) + 1) + Whole(inbox'[d]) + (torn[d] + reading.torn)
                  = sent[d] + (parts[d] + reading.part)
            BY <4>6, <5>1, <5>2, <6>1, ReadSum
          <6> QED BY <4>3, <6>2
        <5> QED BY <4>4, <4>7, <5>3
      <4> QED BY <4>5, <4>9, <4>10, <4>11, <4>12 DEF Accounted
    <3>3. CASE d # c
      <4>1. Answered(d)' = Answered(d)
        BY <2>4, <3>3 DEF Answered
      <4>2. inbox'[d] = inbox[d] /\ torn'[d] = torn[d] /\ parts'[d] = parts[d]
        BY <2>2, <3>3 DEF TypeOK, NetworkTypeOK, HistoryTypeOK
      <4> QED BY <2>2, <3>1, <4>1, <4>2 DEF Accounted
    <3> QED BY <3>2, <3>3
  <2> QED BY <2>5 DEF AccountInv
<1>8. ASSUME NEW c \in Conns,
             \/ Disconnected(c) \/ ReadFails(c)
             \/ WriteToLive(c) \/ WriteToClosed(c) \/ WriteFails(c)
      PROVE  AccountInv'
  BY <1>1, <1>8 DEF Disconnected, ReadFails, WriteToLive, WriteToClosed, WriteFails, Hand,
                    network, history
<1> QED BY StepCases, <1>2, <1>3, <1>4, <1>5, <1>6, <1>7, <1>8

(* Every request is answered once, unread or torn, and an answer to        *)
(* anything else is to part of one that was torn; of a client that waits   *)
(* for its answers none is torn, so each of its requests that has been     *)
(* read has been answered, once (onSocket over json::from).                *)
THEOREM EveryRequestAnswered == Spec => []NothingLost
<1>1. BaseInv /\ AccountInv /\ [Next]_vars => (BaseInv /\ AccountInv)'
  BY BaseStep, AccountStep
<1> QED BY InitBase, InitAccount, AccountShows, <1>1, PTL DEF Spec


-----------------------------------------------------------------------------
(* Leaving.  A connection that was accepted and still has its client is    *)
(* open or has been closed properly; and after exit nothing is open.       *)
ClosingInv ==
  /\ \A c \in present : peer[c] = "live" => open[c] \/ c \in closed
  /\ proc = "exited" => \A c \in Conns : ~open[c]

LEMMA InitClosing == Init => ClosingInv
<1> SUFFICES ASSUME Init PROVE ClosingInv
  OBVIOUS
<1>1. present = {} /\ proc = "running"
  BY DEF Init
<1> QED BY <1>1 DEF ClosingInv

LEMMA ClosingStep ==
  ASSUME BaseInv, ClosingInv, [Next]_vars
  PROVE  ClosingInv'
<1> USE DEF BaseInv, TypeOK, RegistryTypeOK, NetworkTypeOK, HistoryTypeOK, ClosingInv
<1>1. ASSUME UNCHANGED <<proc, files, present, peer>> PROVE ClosingInv'
  BY <1>1 DEF files
<1>2. CASE UNCHANGED vars
  BY <1>1, <1>2 DEF vars, control, network, history
<1>3. CASE Waits
  BY <1>1, <1>3, WaitsFrame DEF network, history
<1>4. CASE Stops
  BY <1>4, StopsFrame DEF files, network, history
<1>5. CASE EnvNext
  <2>1. ASSUME NEW c \in Conns, Connect(c) PROVE ClosingInv'
    <3>1. c \notin present /\ peer' = [peer EXCEPT ![c] = "live"]
      BY <2>1 DEF Connect, ArrivalInv
    <3>2. UNCHANGED <<proc, open, closed, present>>
      BY <2>1 DEF Connect, control, files, history
    <3> QED BY <3>1, <3>2
  <2>2. ASSUME NEW c \in Conns, Leave(c) \/ Reset(c) PROVE ClosingInv'
    <3>1. \A d \in Conns : peer'[d] = "live" => peer[d] = "live"
      BY <2>2 DEF Leave, Reset
    <3>2. UNCHANGED <<proc, open, closed, present>>
      BY <2>2 DEF Leave, Reset, control, files, history
    <3> QED BY <3>1, <3>2
  <2>3. ASSUME UNCHANGED peer PROVE ClosingInv'
    BY <1>1, <1>5, <2>3, EnvFrame DEF control, history
  <2> QED
    BY <1>5, <2>1, <2>2, <2>3 DEF EnvNext, ClientRead, Send, TypeLine, EndInput, network
<1>6. CASE OnSTDINExit
  <2>1. PICK gone \in SUBSET Conns :
          /\ open' = [c \in Conns |-> open[c] /\ c \notin gone]
          /\ closed' = closed \cup { c \in gone : open[c] }
    <3>1. Range(socketList) \subseteq Conns
      BY DEF RegistriesAgree
    <3> QED BY <1>6, <3>1 DEF OnSTDINExit
  <2>2. UNCHANGED <<proc, present, peer>>
    BY <1>6 DEF OnSTDINExit, network, history
  <2> QED BY <2>1, <2>2
<1>7. CASE OnSTDINOther
  BY <1>1, <1>7 DEF OnSTDINOther, network, history
<1>8. CASE ReturnFromMain
  <2>1. /\ open' = [c \in Conns |-> open[c] /\ c \notin sockets]
        /\ closed' = closed \cup { c \in sockets : open[c] }
        /\ UNCHANGED <<present, peer>>
    BY <1>8 DEF ReturnFromMain, network, history
  <2>2. \A c \in Conns : ~open'[c] /\ (open[c] => c \in closed')
    BY <2>1 DEF RegistriesAgree
  <2> QED BY <2>1, <2>2
<1>9. CASE OnSocketServer
  <2>1. backlog # <<>>
    BY <1>9 DEF OnSocketServer, Handling, ControlInv
  <2>2. PICK c \in Conns : c = Head(backlog)
    BY <2>1, SMTT(30)
  <2>3. /\ open' = [open EXCEPT ![c] = TRUE] /\ present' = present \cup {c}
        /\ proc = "running" /\ UNCHANGED <<proc, closed, peer>>
    BY <1>9, <2>2 DEF OnSocketServer, Handling
  <2> QED BY <2>3
<1>10. ASSUME NEW c \in Conns, Visits(c) PROVE ClosingInv'
  BY <1>1, <1>10, VisitsFrame DEF Broadcast
<1>11. ASSUME NEW c \in Conns, Disconnected(c) \/ ReadFails(c) \/ WriteFails(c)
       PROVE  ClosingInv'
  <2>1. /\ proc = "running" /\ peer[c] # "live"
        /\ open' = [open EXCEPT ![c] = FALSE]
        /\ UNCHANGED <<proc, closed, present, peer>>
    BY <1>11 DEF Disconnected, ReadFails, WriteFails, Handling, Writing, Advance,
                 network, history
  <2> QED BY <2>1
<1>12. ASSUME NEW c \in Conns, WriteToLive(c) PROVE ClosingInv'
  BY <1>1, <1>12 DEF WriteToLive, Advance
<1>13. ASSUME NEW c \in Conns, WriteToClosed(c) PROVE ClosingInv'
  <2>1. PICK p \in {"fin", "finrst"} : peer' = [peer EXCEPT ![c] = p]
    BY <1>13 DEF WriteToClosed
  <2>2. UNCHANGED <<proc, open, closed, present>>
    BY <1>13 DEF WriteToClosed, Advance, files
  <2> QED BY <2>1, <2>2
<1> QED
  BY StepCases, <1>2, <1>3, <1>4, <1>5, <1>6, <1>7, <1>8, <1>9, <1>10, <1>11, <1>12, <1>13

(* Although the loop in onSTDIN skips sockets, an exit leaves no client    *)
(* behind: the destructors at the end of main() close what it missed.      *)
THEOREM ExitClosesEverything == Spec => []ExitHangsUp
<1>1. BaseInv /\ ClosingInv /\ [Next]_vars => (BaseInv /\ ClosingInv)'
  BY BaseStep, ClosingStep
<1>2. BaseInv /\ ClosingInv => ExitHangsUp
  BY DEF BaseInv, TypeOK, HistoryTypeOK, ClosingInv, ExitHangsUp
<1> QED BY InitBase, InitClosing, <1>1, <1>2, PTL DEF Spec

-----------------------------------------------------------------------------
(* What ends the server.  StaysUp is about clients that wait for their     *)
(* answers, whose requests come whole, lack nothing and fit the buffer,    *)
(* and about a process with a descriptor for every one of them, whose      *)
(* select() does not fail.                                                 *)
GoodClients ==
  /\ Trouble \cap {"pipeline", "split", "wait"} = {}
  /\ \A r \in Sends : FitsBuffer(r) /\ r # Incomplete
  /\ Cardinality(Conns) <= MaxFds

(* Then an inbox holds at most one request, and a socket that the server   *)
(* closed itself, and may yet write to, has lost its client before.        *)
UpInv ==
  /\ \A c \in Conns : inbox[c] = <<>> \/ \E r \in Sends : inbox[c] = <<r>>
  /\ proc = "running" => \A c \in sockets : open[c] \/ peer[c] # "live"
  /\ StaysUp

(* Such a request is read with nothing left over, and throws only because  *)
(* of what the buffer held before.                                         *)
LEMMA OneIsReadWhole ==
  ASSUME GoodClients, NEW r \in Sends, NEW c \in Conns, inbox[c] = <<r>>
  PROVE  /\ \A reading \in Read(c) : reading.rest = <<>> /\ reading.request = r
         /\ MayThrow(inbox[c], Trouble) => "stale" \in Trouble
<1> DEFINE q == <<r>>
           pieces == "split" \in Trouble
<1>1. q # <<>> /\ Head(q) = r /\ Tail(q) = <<>> /\ Len(q) = 1
  OBVIOUS
<1>2. r \notin Leftover /\ FitsBuffer(r) /\ r # Incomplete /\ "split" \notin Trouble
  BY SendsAreWhole DEF GoodClients
<1>3. Lead(q) = q
  BY <1>1, <1>2 DEF Lead, Leftover
<1>p. pieces = FALSE
  BY <1>2
<1> HIDE DEF q, pieces
<1>4. Remains(Tail(q)) = { [rest |-> <<>>, torn |-> 0] }
  BY <1>1 DEF Remains
<1>5. Readings(q, pieces) = ReadWhole(q)
  BY <1>1, <1>2, <1>3, <1>p DEF Readings, Leftover
<1>6. \A reading \in Readings(q, pieces) :
        reading.rest = <<>> /\ reading.request = r
  BY <1>1, <1>4, <1>5 DEF ReadWhole
<1>7. MayThrow(q, Trouble) => "stale" \in Trouble
  BY <1>1, <1>2, <1>6 DEF MayThrow, GoodClients, pieces
<1> QED BY <1>6, <1>7 DEF Read, q, pieces

(* With a descriptor for everyone, one is left for whoever is not in yet.  *)
LEMMA DescriptorLeft ==
  ASSUME GoodClients, NEW c \in Conns, c \notin present, present \subseteq Conns
  PROVE  Cardinality(Held) < MaxFds
<1>1. IsFiniteSet(Conns) /\ MaxFds \in Nat
  BY ConnsAssumption, BoundsAssumption
<1>2. Held \subseteq Conns \ {c}
  BY DEF Held
<1>3. /\ IsFiniteSet(Conns \ {c})
      /\ Cardinality(Conns \ {c}) = Cardinality(Conns) - 1
      /\ Cardinality(Conns) \in Nat
  BY <1>1, FS_RemoveElement, FS_CardinalityType
<1>4. Cardinality(Held) <= Cardinality(Conns \ {c}) /\ Cardinality(Held) \in Nat
  BY <1>2, <1>3, FS_Subset, FS_CardinalityType
<1> QED BY <1>1, <1>3, <1>4 DEF GoodClients

LEMMA InitUp == Init => UpInv
<1> SUFFICES ASSUME Init PROVE UpInv
  OBVIOUS
<1>1. proc = "running" /\ sockets = {} /\ inbox = [c \in Conns |-> <<>>]
  BY DEF Init
<1> QED BY <1>1 DEF UpInv, StaysUp

LEMMA UpStep ==
  ASSUME GoodClients, BaseInv, UpInv, [Next]_vars
  PROVE  UpInv'
<1> USE DEF BaseInv, TypeOK, RegistryTypeOK, NetworkTypeOK, HistoryTypeOK, UpInv
<1>1. ASSUME UNCHANGED <<proc, peer, inbox, sockets, open>>, proc = "running"
      PROVE  UpInv'
  <2>1. StaysUp'
    BY <1>1 DEF StaysUp
  <2> QED BY <1>1, <2>1
<1>2. CASE UNCHANGED vars
  <2>1. UNCHANGED <<proc, pc, turn, present, peer, inbox, sockets, open>>
    BY <1>2 DEF vars, control, registry, files, network, history
  <2>2. StaysUp'
    BY <2>1 DEF StaysUp
  <2> QED BY <2>1, <2>2
<1>3. CASE Waits
  <2>1. proc = "running"
    BY <1>3 DEF Waits, SelectStdin, SelectMaster, SelectSocket, Dispatch, Looping
  <2> QED BY <1>1, <1>3, <2>1, WaitsFrame DEF registry, files, network
<1>4. CASE Stops
  <2>1. UNCHANGED <<present, peer, inbox>> /\ proc' # "running"
    BY <1>4, StopsFrame DEF network, history
  <2>2. CASE AcceptFails
    <3>1. Handling("master") /\ Cardinality(Held) >= MaxFds
      BY <2>2 DEF AcceptFails
    <3>2. backlog # <<>> /\ backlog \in Seq(Conns)
      BY <3>1 DEF Handling, ControlInv
    <3>3. Head(backlog) \in Conns /\ Head(backlog) \notin present
      <4>1. IsInjective(backlog) /\ \A d \in Range(backlog) : d \notin present
        BY DEF ArrivalInv
      <4> HIDE DEF BaseInv, TypeOK, RegistryTypeOK, NetworkTypeOK, HistoryTypeOK, UpInv
      <4> QED BY <3>2, <4>1, TailDistinct
    <3>4. Cardinality(Held) < MaxFds /\ Cardinality(Held) \in Nat /\ MaxFds \in Nat
      <4>1. Held \subseteq Conns
        BY DEF Held
      <4> QED
        BY <3>3, <4>1, DescriptorLeft, ConnsAssumption, BoundsAssumption, FS_Subset,
           FS_CardinalityType
    <3> QED BY <3>1, <3>4
  <2>3. ASSUME NEW c \in Conns, OnSocketThrows(c) PROVE UpInv'
    <3>1. MayThrow(inbox[c], Trouble) /\ inbox[c] # <<>> /\ Handling(c)
      BY <2>3 DEF OnSocketThrows, MayThrow
    <3>2. PICK r \in Sends : inbox[c] = <<r>>
      BY <3>1
    <3>3. "stale" \in Trouble
      BY <3>1, <3>2, OneIsReadWhole
    <3>4. pc = "dispatch" /\ turn = c /\ c \in present
      BY <3>1 DEF Handling, ControlInv, ArrivalInv
    <3>5. UNCHANGED <<pc, turn>>
      BY <1>4, StopsFrame
    <3> QED BY <2>1, <3>3, <3>4, <3>5 DEF StaysUp
  <2>5. CASE WaitThrows
    BY <2>5 DEF WaitThrows, GoodClients
  <2>4. ASSUME NEW c \in Conns, WriteKills(c) \/ WriteThrows(c) PROVE UpInv'
    <3>1. Writing(c) /\ (peer[c] = "finrst" \/ ~open[c])
      BY <2>4 DEF WriteKills, WriteThrows
    <3>2. c \in sockets /\ c \in present
      BY <3>1 DEF Writing, RegistriesAgree, Range, ArrivalInv
    <3>3. peer[c] # "live"
      BY <3>1, <3>2 DEF Writing
    <3> QED BY <2>1, <3>2, <3>3 DEF StaysUp
  <2> QED BY <1>4, <2>2, <2>3, <2>4, <2>5 DEF Stops
<1>5. CASE EnvNext
  <2>1. /\ UNCHANGED <<proc, present, sockets, open>>
        /\ proc = "running"
    BY <1>5, EnvFrame
       DEF control, registry, files, history,
           EnvNext, Connect, ClientRead, Leave, Reset, Send, TypeLine, EndInput
  <2>2. ASSUME NEW c \in Conns, Connect(c) PROVE UpInv'
    <3>1. c \notin sockets /\ peer' = [peer EXCEPT ![c] = "live"] /\ UNCHANGED inbox
      BY <2>2 DEF Connect, ArrivalInv
    <3> QED BY <2>1, <3>1 DEF StaysUp
  <2>3. ASSUME NEW c \in Conns, Leave(c) \/ Reset(c) PROVE UpInv'
    <3>1. UNCHANGED inbox /\ \A d \in Conns : peer'[d] = "live" => peer[d] = "live"
      BY <2>3 DEF Leave, Reset
    <3> QED BY <2>1, <3>1 DEF StaysUp
  <2>4. ASSUME NEW c \in Conns, NEW r \in Sends, Send(c, r) PROVE UpInv'
    <3>1. inbox[c] = <<>>
      <4>1. MayFollow(inbox[c], Trouble) /\ "pipeline" \notin Trouble
        BY <2>4 DEF Send, GoodClients
      <4>2. ASSUME NEW q \in Sends, inbox[c] = <<q>> PROVE FALSE
        <5>1. <<q>> = <<Newline>>
          BY <4>1, <4>2 DEF MayFollow
        <5>2. q = Newline
          BY <5>1, <<q>>[1] = <<Newline>>[1]
        <5> QED BY <5>2, SendsAreWhole DEF Leftover
      <4> QED BY <4>2
    <3>2. inbox' = [inbox EXCEPT ![c] = <<r>>] /\ UNCHANGED peer
      BY <2>4, <3>1 DEF Send
    <3> QED BY <2>1, <3>2 DEF StaysUp
  <2>5. ASSUME UNCHANGED <<peer, inbox>> PROVE UpInv'
    BY <1>1, <2>1, <2>5
  <2> QED
    BY <1>5, <2>2, <2>3, <2>4, <2>5 DEF EnvNext, ClientRead, TypeLine, EndInput, network
<1>6. CASE OnSTDINExit
  <2>1. PICK gone \in SUBSET Conns :
          /\ sockets' = sockets \ gone
          /\ open' = [c \in Conns |-> open[c] /\ c \notin gone]
    <3>1. Range(socketList) \subseteq Conns
      BY DEF RegistriesAgree
    <3> QED BY <1>6, <3>1 DEF OnSTDINExit
  <2>2. proc = "running" /\ UNCHANGED <<proc, present, peer, inbox>>
    BY <1>6 DEF OnSTDINExit, Handling, network, history
  <2> QED BY <2>1, <2>2 DEF StaysUp
<1>7. CASE OnSTDINOther
  BY <1>1, <1>7 DEF OnSTDINOther, Handling, registry, files, network
<1>8. CASE ReturnFromMain
  <2>1. proc' = "exited" /\ UNCHANGED inbox
    BY <1>8 DEF ReturnFromMain, network
  <2> QED BY <2>1 DEF StaysUp
<1>9. CASE OnSocketServer
  <2>1. PICK c \in Conns :
          /\ open' = [open EXCEPT ![c] = TRUE]
          /\ sockets' = sockets \cup {c}
    <3>1. backlog # <<>> /\ backlog \in Seq(Conns)
      BY <1>9 DEF OnSocketServer, Handling, ControlInv
    <3>2. Head(backlog) \in Conns
      BY <3>1
    <3> QED BY <1>9, <3>2 DEF OnSocketServer
  <2>2. proc = "running" /\ UNCHANGED <<proc, peer, inbox>>
    BY <1>9 DEF OnSocketServer, Handling
  <2> QED BY <2>1, <2>2 DEF StaysUp
<1>10. ASSUME NEW c \in Conns, Visits(c) PROVE UpInv'
  <2>1. PICK reading \in Read(c), r \in Response : Broadcast(c, reading, r)
    BY <1>10, VisitsFrame
  <2>2. inbox[c] # <<>> /\ proc = "running"
    BY <1>10, VisitsFrame, ReadAccount DEF AccountsFor, Handling
  <2>3. reading.rest = <<>>
    <3>1. PICK request \in Sends : inbox[c] = <<request>>
      BY <2>2
    <3> HIDE DEF UpInv
    <3> QED BY <3>1, OneIsReadWhole
  <2>4. /\ inbox' = [inbox EXCEPT ![c] = <<>>]
        /\ UNCHANGED <<proc, peer, sockets, open>>
    BY <2>1, <2>3 DEF Broadcast, files
  <2> QED BY <2>2, <2>4 DEF StaysUp
<1>11. ASSUME NEW c \in Conns, Disconnected(c) \/ ReadFails(c) \/ WriteFails(c)
       PROVE  UpInv'
  <2>1. /\ proc = "running" /\ peer[c] # "live"
        /\ open' = [open EXCEPT ![c] = FALSE] /\ sockets' \subseteq sockets
        /\ UNCHANGED <<proc, peer, inbox>>
    BY <1>11 DEF Disconnected, ReadFails, WriteFails, Handling, Writing, Advance,
                 registry, network
  <2> QED BY <2>1 DEF StaysUp
<1>12. ASSUME NEW c \in Conns, WriteToLive(c) PROVE UpInv'
  BY <1>1, <1>12 DEF WriteToLive, Writing, Advance, registry, files
<1>13. ASSUME NEW c \in Conns, WriteToClosed(c) PROVE UpInv'
  <2>1. PICK p \in {"fin", "finrst"} : peer' = [peer EXCEPT ![c] = p]
    BY <1>13 DEF WriteToClosed
  <2>2. proc = "running" /\ UNCHANGED <<proc, inbox, sockets, open>>
    BY <1>13 DEF WriteToClosed, Writing, Advance, registry, files
  <2> QED BY <2>1, <2>2 DEF StaysUp
<1> QED
  BY StepCases, <1>2, <1>3, <1>4, <1>5, <1>6, <1>7, <1>8, <1>9, <1>10, <1>11, <1>12, <1>13

(* What can end a server whose clients behave, before one it accepted has  *)
(* gone, is its own buffer: neither an exception from                      *)
(* socket_server::accept, fromJson or socket::write nor SIGPIPE does, nor  *)
(* one from json::from while the bytes behind a request are zero; whatever *)
(* the order of arrivals, requests and writes, and however many clients    *)
(* and names there are.  As socket::read does not clear the buffer, that   *)
(* is no promise to these clients, and StaysUp says so.                    *)
THEOREM ServerStaysUp ==
  ASSUME Trouble \cap {"pipeline", "split", "wait"} = {},
         \A r \in Sends : FitsBuffer(r) /\ r # Incomplete,
         Cardinality(Conns) <= MaxFds
  PROVE  Spec => []StaysUp
<1>1. GoodClients
  BY DEF GoodClients
<1>2. BaseInv /\ UpInv /\ [Next]_vars => (BaseInv /\ UpInv)'
  BY <1>1, BaseStep, UpStep
<1>3. UpInv => StaysUp
  BY DEF UpInv
<1> QED BY InitBase, InitUp, <1>2, <1>3, PTL DEF Spec

-----------------------------------------------------------------------------
(* The server implements the chat room.                                    *)

(* ChatRoom brings its own copy of the vocabulary; it is the same one.     *)
LEMMA SameVocabulary ==
  /\ \A n : Room!LoginResponse(n) = LoginResponse(n)
  /\ \A n, p : Room!MessageResponse(n, p) = MessageResponse(n, p)
  /\ Room!NameInUse = NameInUse
  /\ Room!BadRequest = BadRequest
BY DEF Room!LoginResponse, LoginResponse, Room!MessageResponse, MessageResponse,
       Room!NameInUse, NameInUse, Room!BadRequest, BadRequest, Room!ServerError, ServerError,
       Room!SERVER_SENDER, SERVER_SENDER, Room!UNKNOWN_SENDER, UNKNOWN_SENDER

LEMMA RoomSteps ==
  ASSUME BaseInv, LoginOnce, ShownInv, [Next]_vars
  PROVE  [Room!RoomNext]_(Room!roomVars)
<1> USE DEF BaseInv, TypeOK, HistoryTypeOK, Room!roomVars
<1>1. ASSUME UNCHANGED <<log, present, joined, delivered>>
      PROVE  UNCHANGED Room!roomVars
  BY <1>1
<1>2. CASE UNCHANGED vars BY <1>2 DEF vars, history
<1>3. CASE Waits BY <1>3, WaitsFrame DEF history
<1>4. CASE Stops BY <1>4, StopsFrame DEF history
<1>5. CASE EnvNext BY <1>5, EnvFrame DEF history
<1>6. CASE OnSTDINExit \/ OnSTDINOther \/ ReturnFromMain
  BY <1>6 DEF OnSTDINExit, OnSTDINOther, ReturnFromMain, history
<1>7. ASSUME NEW c \in Conns, Disconnected(c) \/ ReadFails(c) \/ WriteFails(c)
      PROVE  UNCHANGED Room!roomVars
  BY <1>7 DEF Disconnected, ReadFails, WriteFails, history
<1>8. CASE OnSocketServer
  <2>1. backlog # <<>> /\ backlog \in Seq(Conns)
    BY <1>8 DEF OnSocketServer, Handling, ControlInv, NetworkTypeOK
  <2>2. Head(backlog) \in Conns /\ Head(backlog) \notin present
    BY <2>1, TailDistinct DEF ArrivalInv
  <2>3. PICK c \in Conns : c = Head(backlog) /\ c \notin present
    BY <2>2
  <2>4. Room!Enter(c)
    BY <1>8, <2>3 DEF OnSocketServer, Room!Enter
  <2> QED BY <2>4 DEF Room!RoomNext
<1>9. ASSUME NEW c \in Conns, VisitLogin(c) PROVE Room!RoomNext
  <2>1. PICK reading \in Read(c), name \in Names :
          name \notin Range(clientNames) /\ Broadcast(c, reading, LoginResponse(name))
    BY <1>9 DEF VisitLogin
  <2>2. name \notin Room!Users
    BY <2>1, SameVocabulary DEF LoginOnce, Room!Users, Range
  <2>3. Room!LogIn(name)
    BY <2>1, <2>2, SameVocabulary DEF Room!LogIn, Room!Publish, Broadcast
  <2> QED BY <2>3 DEF Room!RoomNext
<1>10. ASSUME NEW c \in Conns, VisitLoginInUse(c) PROVE Room!RoomNext
  <2>1. PICK reading \in Read(c), name \in Names :
          name \in Range(clientNames) /\ Broadcast(c, reading, NameInUse)
    BY <1>10 DEF VisitLoginInUse
  <2>2. LoginResponse(name) \in Range(log)
    BY <2>1 DEF LoginOnce
  <2>3. Room!Users # {}
    BY <2>2, SameVocabulary DEF LoginOnce, Room!Users, Range
  <2>4. Room!Refuse
    BY <2>1, <2>3, SameVocabulary DEF Room!Refuse, Room!Publish, Broadcast
  <2> QED BY <2>4 DEF Room!RoomNext
<1>11. ASSUME NEW c \in Conns, VisitMessage(c) PROVE Room!RoomNext
  <2>1. PICK reading \in Read(c), name \in Names, content \in Contents :
          Broadcast(c, reading, MessageResponse(name, content))
    BY <1>11 DEF VisitMessage
  <2>2. Room!Say(name, content)
    BY <2>1, SameVocabulary DEF Room!Say, Room!Publish, Broadcast
  <2> QED BY <2>2 DEF Room!RoomNext
<1>12. ASSUME NEW c \in Conns, VisitError(c) PROVE Room!RoomNext
  <2>1. Room!Complain
    BY <1>12, SameVocabulary DEF VisitError, Room!Complain, Room!Publish, Broadcast
  <2> QED BY <2>1 DEF Room!RoomNext
<1>13. ASSUME NEW c \in Conns, WriteToLive(c) \/ WriteToClosed(c) PROVE Room!RoomNext
  <2>1. Writing(c) /\ Hand(c) /\ UNCHANGED <<log, present, joined>>
    BY <1>13 DEF WriteToLive, WriteToClosed
  <2>2. c \in present
    BY <2>1 DEF Writing, RegistriesAgree, Range, ArrivalInv
  <2>3. Shown(c) = Len(log) - 1
    BY <1>13, HandShown
  <2>4. joined[c] + Len(delivered[c]) + 1 = Len(log) /\ Len(log) \in Nat
    BY <2>3 DEF Shown
  <2>5. delivered' = [delivered EXCEPT ![c] = Append(@, log[joined[c] + Len(delivered[c]) + 1])]
    BY <2>1, <2>4 DEF Hand
  <2>6. joined[c] + Len(delivered[c]) + 1 <= Len(log)
    BY <2>4
  <2>7. Room!Show(c)
    BY <2>1, <2>2, <2>5, <2>6 DEF Room!Show
  <2> QED BY <2>7 DEF Room!RoomNext
<1> QED
  BY StepCases, <1>1, <1>2, <1>3, <1>4, <1>5, <1>6, <1>7, <1>8, <1>9, <1>10, <1>11, <1>12,
     <1>13 DEF Visits

(* Whatever clients, network and console do, and until the process ends if *)
(* it does, the server behaves as ChatRoom says: one conversation, a name  *)
(* logs in once, everybody is shown the conversation from where they came  *)
(* in (the whole of server.cpp under flex_waiter::wait).                   *)
THEOREM ServerImplementsRoom == Spec => RoomSpec
<1>1. Init => Room!RoomInit
  BY DEF Init, Room!RoomInit
<1>2. Init => LoginOnce
  BY DEF Init, LoginOnce, Range, IsInjective
<1>3. BaseInv /\ LoginOnce /\ ShownInv /\ [Next]_vars => (BaseInv /\ LoginOnce /\ ShownInv)'
  BY BaseStep, LoginStep, ShownStep
<1>4. BaseInv /\ LoginOnce /\ ShownInv /\ [Next]_vars => [Room!RoomNext]_(Room!roomVars)
  BY RoomSteps
<1> QED
  BY InitBase, InitShown, <1>1, <1>2, <1>3, <1>4, PTL DEF Spec, RoomSpec, Room!RoomSpec

=============================================================================
