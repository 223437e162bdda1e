------------------------------- MODULE Client -------------------------------
(***************************************************************************)
(* The Android client: MainActivity over a NetworkingConnection.  Three    *)
(* threads run in it.  The UI thread executes clicks and what was posted   *)
(* to its looper, one at a time; the reader thread connects and visits     *)
(* what the server sends; the AsyncTask executor sends the requests, one   *)
(* task after the other.  They share _sock, guarded by sockLock, and the   *)
(* activity's state, guarded by nothing.  The server appears as Server.tla *)
(* proves it to be: it accepts a name once and broadcasts every answer.    *)
(***************************************************************************)
EXTENDS Naturals, Sequences, FiniteSets, Functions, Messages

CONSTANTS
  Addresses,  \* where the user may try to connect, a subset of Address
  Others,     \* what other clients may make the server broadcast
  MaxOthers,  \* bound: how often they do
  MaxClicks,  \* bound: clicks on the send button
  Trouble     \* a subset of {"lost", "split"}

Address ==
  { "server",    \* the server answers
    "nobody",    \* the connection is refused
    "unknown" }  \* there is no such host, or the port is no number

ASSUME AddressAssumption == Addresses \subseteq Address
ASSUME OthersAssumption  == Others \subseteq Response
ASSUME BoundAssumption   == MaxOthers \in Nat /\ MaxClicks \in Nat

VARIABLES
  app,       \* the process: running, or crashed by an uncaught exception
  state,     \* MainActivity.state
  ui,        \* idle, or how far login() has come
  fragment,  \* the fragment on the screen: login or room
  draft,     \* RoomFragment.msgText
  looper,    \* what has been posted to the UI thread, in order
  screen,    \* the rows of the room's message table
  user,      \* MainActivity._user: the name typed into the login form
  address,   \* NetworkingConnection._addr
  tasks,     \* the AsyncTasks executed and not finished: what they send
  reader,    \* how far ReaderThread.run() has come
  visited,   \* the response that it is visiting
  sock,      \* _sock # null
  lock,      \* who holds sockLock: nobody or the reader
  link,      \* the TCP connection: none, made, accepted by the server, or lost
  incoming,  \* responses on their way to the reader
  outgoing,  \* requests on their way to the server
  taken,     \* the names the server has accepted
  others,    \* broadcasts provoked by others so far
  clicks,    \* clicks on the send button so far
  received   \* history: the responses visited, in order

view == <<fragment, draft, screen>>
conn == <<user, address, sock, lock>>
net  == <<link, incoming, outgoing, taken, others>>
vars == <<app, state, ui, view, looper, conn, tasks, reader, visited, net, clicks, received>>

-----------------------------------------------------------------------------
State == {"NOCONNECTION", "HASCONNECTION", "ATTEMPTEDLOGIN", "ISLOGGEDIN"}

(* A runnable: the room's fragment transaction, a row for a response, or   *)
(* the emptying of the text field.                                         *)
Commit == [run |-> "commit"]
Row(r) == [run |-> "row", of |-> r]
Clear  == [run |-> "clear"]

Runnable == {Commit, Clear} \cup { Row(r) : r \in Response }

Blank  == "blank"   \* the text field is empty
None   == [type |-> "none"]

TypeOK ==
  /\ app \in {"running", "crashed"} /\ state \in State
  /\ ui \in {"idle", "connected", "sending", "attempting"}
  /\ fragment \in {"login", "room"} /\ draft \in Contents \cup {Blank}
  /\ looper \in Seq(Runnable)
  /\ screen \in Seq(Response) /\ received \in Seq(Response)
  /\ user \in Names /\ address \in Addresses \cup {"none"} /\ sock \in BOOLEAN
  /\ lock \in {"nobody", "reader"}
  /\ tasks \in Seq(Request) /\ outgoing \in Seq(Request)
  /\ reader \in {"none", "start", "connecting", "reading", "showing", "announcing", "ended"}
  /\ visited \in Response \cup {None}
  /\ link \in {"none", "made", "accepted", "lost"} /\ incoming \in Seq(Response)
  /\ taken \subseteq Names /\ others \in 0..MaxOthers /\ clicks \in 0..MaxClicks

Init ==
  /\ app = "running" /\ state = "NOCONNECTION" /\ ui = "idle"
  /\ fragment = "login" /\ draft = Blank /\ looper = <<>> /\ screen = <<>>
  /\ user \in Names /\ address = "none" /\ sock = FALSE /\ lock = "nobody"
  /\ tasks = <<>> /\ reader = "none" /\ visited = None
  /\ link = "none" /\ incoming = <<>> /\ outgoing = <<>>
  /\ taken = {} /\ others = 0 /\ clicks = 0 /\ received = <<>>

Running == app = "running"
UIIdle  == Running /\ ui = "idle"

(* An exception that a thread does not catch ends the process.             *)
Crash ==
  /\ app' = "crashed"
  /\ UNCHANGED <<state, ui, view, looper, conn, tasks, reader, visited, net, clicks, received>>

-----------------------------------------------------------------------------
(* The UI thread.  login() is broken where another thread can tell: the    *)
(* reader starts inside the constructor, before login() goes on to assign  *)
(* state twice more.  (A write to state that the other thread sees late is *)
(* a write that comes later.)                                              *)
(* A name shorter than three characters makes login() return at once.      *)
Login(a) ==
  /\ UIIdle /\ fragment = "login" /\ state = "NOCONNECTION" /\ a # "unknown"
  /\ address' = a
  /\ reader' = "start"
  /\ ui' = "connected"
  /\ UNCHANGED <<app, state, view, looper, user, sock, lock, tasks, visited, net, clicks, received>>

(* The UnknownHostException is caught, but login() goes on and uses the    *)
(* mConnection that was never assigned; a NumberFormatException is not     *)
(* caught at all.                                                          *)
LoginUnknownHost(a) ==
  UIIdle /\ fragment = "login" /\ state = "NOCONNECTION" /\ a = "unknown" /\ Crash

LoginConnected ==
  /\ Running /\ ui = "connected"
  /\ state' = "HASCONNECTION"
  /\ ui' = "sending"
  /\ UNCHANGED <<app, view, looper, conn, tasks, reader, visited, net, clicks, received>>

LoginSend ==
  /\ Running /\ ui = "sending"
  /\ tasks' = Append(tasks, LoginRequest(user))
  /\ ui' = "attempting"
  /\ UNCHANGED <<app, state, view, looper, conn, reader, visited, net, clicks, received>>

LoginAttempted ==
  /\ Running /\ ui = "attempting"
  /\ state' = "ATTEMPTEDLOGIN"
  /\ ui' = "idle"
  /\ UNCHANGED <<app, view, looper, conn, tasks, reader, visited, net, clicks, received>>

(* Mutant: the send button does not ask whether the login succeeded.       *)
MsgSendUnchecked ==
  /\ UIIdle /\ state # "NOCONNECTION" /\ clicks < MaxClicks
  /\ \E p \in Contents : tasks' = Append(tasks, MessageRequest(user, p))
  /\ clicks' = clicks + 1
  /\ UNCHANGED <<app, state, ui, view, looper, conn, reader, visited, net, received>>

(* Mutant: the send button sends an empty text.                            *)
MsgSendBlank ==
  /\ UIIdle /\ fragment = "room" /\ clicks < MaxClicks
  /\ state = "ISLOGGEDIN"
  /\ tasks' = Append(tasks, MessageRequest(user, draft))
  /\ clicks' = clicks + 1
  /\ UNCHANGED <<app, state, ui, view, looper, conn, reader, visited, net, received>>

OnMsgSend ==
  /\ UIIdle /\ fragment = "room" /\ clicks < MaxClicks
  /\ state = "ISLOGGEDIN" /\ draft # Blank
  /\ tasks' = Append(tasks, MessageRequest(user, draft))
  /\ clicks' = clicks + 1
  /\ UNCHANGED <<app, state, ui, view, looper, conn, reader, visited, net, received>>

(* The user types.                                                         *)
Type(p) ==
  /\ UIIdle /\ fragment = "room"
  /\ draft' = p
  /\ UNCHANGED <<app, state, ui, fragment, screen, looper, conn, tasks, reader, visited, net, clicks, received>>

(* The looper runs what was posted first.  A row or a clear finds the room *)
(* fragment's views in place (RoomFirst); without them a clear would crash *)
(* and a row be dropped with a stack trace.                                *)
Post(item) == UIIdle /\ looper # <<>> /\ Head(looper) = item /\ looper' = Tail(looper)

RunCommit ==
  /\ Post(Commit)
  /\ fragment' = "room"
  /\ UNCHANGED <<app, state, ui, draft, screen, conn, tasks, reader, visited, net, clicks, received>>

RunRow(r) ==
  /\ Post(Row(r)) /\ fragment = "room"
  /\ screen' = Append(screen, r)
  /\ UNCHANGED <<app, state, ui, fragment, draft, conn, tasks, reader, visited, net, clicks, received>>

RunClear ==
  /\ Post(Clear) /\ fragment = "room"
  /\ draft' = Blank
  /\ UNCHANGED <<app, state, ui, fragment, screen, conn, tasks, reader, visited, net, clicks, received>>

-----------------------------------------------------------------------------
(* The AsyncTask executor: doInBackground of the first task.  The lock is  *)
(* taken and released in one step, for the reader never takes it again.    *)
(* A PrintWriter reports no error: on a connection that is lost the        *)
(* request is lost, and onPostExecute finds nothing to tell its handlers.  *)
TaskSends ==
  /\ Running /\ tasks # <<>> /\ lock = "nobody" /\ sock
  /\ tasks' = Tail(tasks)
  /\ outgoing' = IF link = "lost" THEN outgoing ELSE Append(outgoing, Head(tasks))
  /\ UNCHANGED <<app, state, ui, view, looper, conn, reader, visited,
                 link, incoming, taken, others, clicks, received>>

(* The task has the lock before the reader thread: _sock is null still.    *)
TaskTooEarly == Running /\ tasks # <<>> /\ lock = "nobody" /\ ~sock /\ Crash

-----------------------------------------------------------------------------
(* The reader thread.                                                      *)
ReaderLocks ==
  /\ Running /\ reader = "start" /\ lock = "nobody"
  /\ lock' = "reader"
  /\ reader' = "connecting"
  /\ UNCHANGED <<app, state, ui, view, looper, user, address, sock, tasks, visited, net, clicks, received>>

(* Mutant: connected, but sockLock.unlock() is never reached.              *)
ConnectsLocked ==
  /\ Running /\ reader = "connecting" /\ address = "server"
  /\ sock' = TRUE /\ link' = "made"
  /\ reader' = "reading"
  /\ UNCHANGED <<app, state, ui, view, looper, user, address, lock, tasks, visited,
                 incoming, outgoing, taken, others, clicks, received>>

ReaderConnects ==
  /\ Running /\ reader = "connecting" /\ address = "server"
  /\ sock' = TRUE /\ link' = "made"
  /\ lock' = "nobody"
  /\ reader' = "reading"
  /\ UNCHANGED <<app, state, ui, view, looper, user, address, tasks, visited,
                 incoming, outgoing, taken, others, clicks, received>>

(* The IOException is caught after the loop; nobody unlocks sockLock.      *)
ReaderRefused ==
  /\ Running /\ reader = "connecting" /\ address = "nobody"
  /\ reader' = "ended"
  /\ UNCHANGED <<app, state, ui, view, looper, conn, tasks, visited, net, clicks, received>>

(* One read() returns one response, which visit() dispatches.              *)
Read(r) ==
  /\ Running /\ reader = "reading" /\ incoming # <<>> /\ Head(incoming) = r
  /\ incoming' = Tail(incoming)
  /\ received' = Append(received, r)
  /\ UNCHANGED <<app, ui, view, conn, tasks, link, outgoing, taken, others, clicks>>

(* read() returned several responses at once, a part of one, or an error   *)
(* of the server: visit() throws, and run() catches IOExceptions only.     *)
VisitThrows ==
  /\ Running /\ reader = "reading" /\ incoming # <<>>
  /\ \/ Len(incoming) > 1
     \/ Head(incoming).type = "ServerError"
     \/ "split" \in Trouble
  /\ Crash

VisitOwnLogin ==
  /\ Read(LoginResponse(user))
  /\ state' = "ISLOGGEDIN"
  /\ visited' = LoginResponse(user)
  /\ reader' = "showing"
  /\ UNCHANGED looper

(* Mutant: the transaction is never committed.                             *)
ShowNothing ==
  /\ Running /\ reader = "showing"
  /\ reader' = "announcing"
  /\ UNCHANGED <<app, state, ui, view, looper, conn, tasks, visited, net, clicks, received>>

ShowRoomFragment ==
  /\ Running /\ reader = "showing"
  /\ looper' = Append(looper, Commit)
  /\ reader' = "announcing"
  /\ UNCHANGED <<app, state, ui, view, conn, tasks, visited, net, clicks, received>>

VisitOtherLogin(n) ==
  /\ n # user /\ Read(LoginResponse(n))
  /\ visited' = LoginResponse(n)
  /\ reader' = "announcing"
  /\ UNCHANGED <<state, looper>>

(* The end of visitLogin: state is read again.                             *)
Announce ==
  /\ Running /\ reader = "announcing"
  /\ looper' = IF state = "ISLOGGEDIN" THEN Append(looper, Row(visited)) ELSE looper
  /\ visited' = None
  /\ reader' = "reading"
  /\ UNCHANGED <<app, state, ui, view, conn, tasks, net, clicks, received>>

(* Mutant: a message from oneself only empties the text field.             *)
VisitMessageOnceOnly(n, p) ==
  /\ Read(MessageResponse(n, p))
  /\ looper' = CASE state # "ISLOGGEDIN" -> looper
                 [] n = user -> Append(looper, Clear)
                 [] OTHER -> Append(looper, Row(MessageResponse(n, p)))
  /\ UNCHANGED <<state, reader, visited>>

(* Mutant: a message is shown whether or not the login has succeeded.      *)
VisitMessageAnyTime(n, p) ==
  /\ Read(MessageResponse(n, p))
  /\ looper' = looper \o (IF n = user THEN <<Clear>> ELSE <<>>)
                      \o <<Row(MessageResponse(n, p))>>
  /\ UNCHANGED <<state, reader, visited>>

VisitMessage(n, p) ==
  /\ Read(MessageResponse(n, p))
  /\ looper' = IF state # "ISLOGGEDIN" THEN looper
               ELSE looper \o (IF n = user THEN <<Clear>> ELSE <<>>)
                           \o <<Row(MessageResponse(n, p))>>
  /\ UNCHANGED <<state, reader, visited>>

(* read() returns -1 or throws an IOException.                             *)
ReaderEnds ==
  /\ Running /\ reader = "reading" /\ link = "lost" /\ incoming = <<>>
  /\ reader' = "ended"
  /\ UNCHANGED <<app, state, ui, view, looper, conn, tasks, visited, net, clicks, received>>

-----------------------------------------------------------------------------
(* The server and the network, which do not notice a crash.                *)
Accept ==
  /\ link = "made"
  /\ link' = "accepted"
  /\ UNCHANGED <<app, state, ui, view, looper, conn, tasks, reader, visited,
                 incoming, outgoing, taken, others, clicks, received>>

Reply(r) == incoming' = Append(incoming, r)

AnswerLogin(n) ==
  /\ link = "accepted" /\ outgoing # <<>> /\ Head(outgoing) = LoginRequest(n)
  /\ outgoing' = Tail(outgoing)
  /\ Reply(IF n \in taken THEN NameInUse ELSE LoginResponse(n))
  /\ taken' = taken \cup {n}
  /\ UNCHANGED <<app, state, ui, view, looper, conn, tasks, reader, visited, link, others, clicks, received>>

AnswerMessage(n, p) ==
  /\ link = "accepted" /\ outgoing # <<>> /\ Head(outgoing) = MessageRequest(n, p)
  /\ outgoing' = Tail(outgoing)
  /\ Reply(MessageResponse(n, p))
  /\ UNCHANGED <<app, state, ui, view, looper, conn, tasks, reader, visited, link, taken, others, clicks, received>>

(* A broadcast reaches the connections that the server has accepted.       *)
AnswerOther(r) ==
  /\ others < MaxOthers
  /\ \A n \in taken : r # LoginResponse(n)
  /\ IF link = "accepted" THEN Reply(r) ELSE UNCHANGED incoming
  /\ taken' = taken \cup { n \in Names : r = LoginResponse(n) }
  /\ others' = others + 1
  /\ UNCHANGED <<app, state, ui, view, looper, conn, tasks, reader, visited, link, outgoing, clicks, received>>

(* The connection ends; what had not arrived may be lost with it.          *)
LinkLost ==
  /\ "lost" \in Trouble /\ link \in {"made", "accepted"}
  /\ link' = "lost"
  /\ \E n \in 0..Len(incoming) : incoming' = SubSeq(incoming, 1, n)
  /\ outgoing' = <<>>
  /\ UNCHANGED <<app, state, ui, view, looper, conn, tasks, reader, visited, taken, others, clicks, received>>

-----------------------------------------------------------------------------
LoginNext  == LoginConnected \/ LoginSend \/ LoginAttempted
PostedNext ==
  UIIdle /\ looper # <<>> /\ (RunCommit \/ RunClear \/ \E r \in Response : RunRow(r))
TaskNext   == TaskSends \/ TaskTooEarly

ReaderNext ==
  \/ ReaderLocks \/ ReaderConnects \/ ReaderRefused \/ ReaderEnds
  \/ VisitThrows \/ VisitOwnLogin \/ ShowRoomFragment \/ Announce
  \/ \E n \in Names : VisitOtherLogin(n) \/ \E p \in Contents : VisitMessage(n, p)

UserNext ==
  \/ \E a \in Addresses : Login(a) \/ LoginUnknownHost(a)
  \/ \E p \in Contents : Type(p)
  \/ OnMsgSend

NetNext ==
  \/ \E n \in Names : AnswerLogin(n) \/ \E p \in Contents : AnswerMessage(n, p)
  \/ \E r \in Others : AnswerOther(r)
  \/ Accept \/ LinkLost

OwnNext == UserNext \/ LoginNext \/ PostedNext \/ TaskNext \/ ReaderNext

Next == OwnNext \/ NetNext

Spec == Init /\ [][Next]_vars

(* The three threads are scheduled; the looper is served between clicks.   *)
(* Nothing is assumed of the user, the server or the network.              *)
FairSpec ==
  /\ Spec
  /\ WF_vars(LoginNext)
  /\ WF_vars(PostedNext)
  /\ WF_vars(TaskNext)
  /\ WF_vars(ReaderNext)

-----------------------------------------------------------------------------
(* Properties.                                                             *)

(* Whatever is posted for the room's views runs after the transaction that *)
(* creates them, though both come from a thread that is not the UI's:      *)
(* visitLogin shows the room before it announces anybody.                  *)
RoomFirst ==
  \A i \in DOMAIN looper :
    looper[i] # Commit =>
      fragment = "room" \/ \E j \in 1..(i - 1) : looper[j] = Commit

(* The rows, those on the screen and then those posted, by their numbers.  *)
Posted   == { i \in DOMAIN looper : looper[i].run = "row" }
RowNo(i) == Len(screen) + Cardinality({ j \in Posted : j <= i })
RowCount == Len(screen) + Cardinality(Posted)

(* The rows are what list holds from its k-th element on, without a gap.   *)
Stretch(list, k) ==
  /\ k + RowCount - 1 <= Len(list)
  /\ \A n \in DOMAIN screen : screen[n] = list[k + n - 1]
  /\ \A i \in Posted : looper[i].of = list[k + RowNo(i) - 1]

(* The rows are one stretch of what was received, in order, from the       *)
(* user's own login on; and as long as the activity believes it is logged  *)
(* in they lack nothing but the response that is being visited, whatever   *)
(* the UI thread writes into state meanwhile.                              *)
ScreenInOrder ==
  RowCount > 0 =>
    \E k \in DOMAIN received : received[k] = LoginResponse(user) /\ Stretch(received, k)

ScreenComplete ==
  state = "ISLOGGEDIN" =>
    \E k \in DOMAIN received :
      /\ received[k] = LoginResponse(user)
      /\ k + RowCount = Len(received) + IF visited = None THEN 1 ELSE 0

(* A message leaves the client only when the server has accepted its name: *)
(* the state that onMsgSend reads on the UI thread, whoever wrote it last, *)
(* is never ahead of the server.                                           *)
TalksLoggedIn ==
  \A r \in Range(tasks) \cup Range(outgoing) :
    r.type = "MessageRequest" => user \in taken

(* Every request is taken from the executor's queue in the end when there  *)
(* is a server: the lock that the reader holds to connect becomes free.    *)
SendsEnd ==
  address = "server" /\ tasks # <<>> ~> tasks = <<>> \/ ~Running

(* A login response that arrives opens the room.                           *)
RoomOpens ==
  LoginResponse(user) \in Range(incoming)
    ~> fragment = "room" \/ ~Running \/ link = "lost"
=============================================================================
