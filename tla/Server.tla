------------------------------- MODULE Server -------------------------------
(***************************************************************************)
(* The chat server: dzagar::server, driven by flex_waiter::wait(), talking *)
(* to its clients through net::socket and net::socket_server.  It is one   *)
(* thread.  A turn of start()'s loop waits for one event (Select), runs    *)
(* its handler, and, when the handler was given a request, writes the      *)
(* answer to every connection, one write() at a time.  Between any two of  *)
(* these steps the clients, the network and the console may act.           *)
(***************************************************************************)
EXTENDS Naturals, Sequences, FiniteSets, Functions, Frames

CONSTANTS
  Conns,     \* the connections that may ever be made
  Sends,     \* the requests clients send
  MaxSends,  \* bound: requests sent on one connection
  SendBuf,   \* responses a connection holds unread before write() blocks
  MaxFds,    \* descriptors the process may hold for connections
  MaxLines,  \* bound: lines typed on the server's standard input
  MaxParts,  \* bound: parts of torn requests read on one connection
  Trouble    \* what may happen outside the server, a subset of Troubles

Troubles ==
  { "leave",     \* a client closes its connection
    "reset",     \* a connection is reset
    "pipeline",  \* a client sends before its previous request was read
    "split",     \* a request reaches the server in several pieces
    "stale",     \* the unset bytes of socket::read's buffer are not zero
    "pipe",      \* standard input is no terminal: a read() may join lines
    "eof",       \* standard input ends
    "wait" }     \* select() fails, or a read() of standard input

ASSUME ConnsAssumption   == IsFiniteSet(Conns) /\ "stdin" \notin Conns /\ "master" \notin Conns
ASSUME SendsAssumption   == Sends \subseteq Request
ASSUME BoundsAssumption  ==
  MaxSends \in Nat /\ MaxFds \in Nat /\ MaxLines \in Nat /\ MaxParts \in Nat
ASSUME SendBufAssumption == SendBuf \in Nat \ {0}
ASSUME TroubleAssumption == Trouble \subseteq Troubles /\ Foreseen(Trouble)

VARIABLES
  proc,         \* the process: running, exited, aborted (exception) or killed
  inActivity,   \* server::_inActivity
  pc,           \* where start()'s loop stands: wait, dispatch or broadcast
  turn,         \* what wait() dispatches: "stdin", "master" or a connection
  next,         \* the index of the socket the broadcast writes to next
  socketList,   \* server::_socketList
  sockets,      \* flex_waiter::_sockets
  clientNames,  \* server::_clientNames
  open,         \* socket::_open, per connection
  closed,       \* the connections whose descriptor was given to ::close
  backlog,      \* connections made and not accepted yet
  peer,         \* what the kernel knows of the other end of a connection
  inbox,        \* per connection: requests received and not read yet
  unread,       \* per connection: responses written and not read by the client
  sent,         \* per connection: requests sent so far
  stdin,        \* lines typed and not read yet
  ended,        \* TRUE once standard input has ended
  typed,        \* lines typed so far
  log,          \* history: the responses broadcast, in order
  origin,       \* history: whose request each of them answers
  present,      \* history: the connections accepted so far
  joined,       \* history: the length of log when a connection was accepted
  torn,         \* history: requests whose beginning was dropped unread
  parts,        \* history: parts of these that were answered as if requests
  delivered     \* history: the responses written to a connection

control   == <<proc, inActivity, pc, turn, next>>
registry  == <<socketList, sockets, clientNames>>
files     == <<open, closed>>
network   == <<backlog, peer, inbox, unread, sent>>
console   == <<stdin, ended, typed>>
history   == <<log, origin, present, joined, torn, parts, delivered>>
vars      == <<control, registry, files, network, console, history>>

-----------------------------------------------------------------------------
(* The other end: not there, listening, closed its side (fin), closed and  *)
(* answered a later write with a reset (finrst), or reset.                 *)
PeerState == {"none", "live", "fin", "finrst", "rst"}

ControlTypeOK ==
  /\ proc \in {"running", "exited", "aborted", "killed"}
  /\ inActivity \in BOOLEAN
  /\ pc \in {"wait", "dispatch", "broadcast"}
  /\ turn \in Conns \cup {"stdin", "master"}
  /\ next \in Nat \ {0}

RegistryTypeOK ==
  /\ socketList \in Seq(Conns)
  /\ sockets \subseteq Conns
  /\ clientNames \in Seq(Names)
  /\ open \in [Conns -> BOOLEAN]
  /\ closed \subseteq Conns

NetworkTypeOK ==
  /\ backlog \in Seq(Conns)
  /\ peer \in [Conns -> PeerState]
  /\ inbox \in [Conns -> Seq(Sends \cup Leftover)]
  /\ unread \in [Conns -> 0..SendBuf]
  /\ sent \in [Conns -> 0..MaxSends]

ConsoleTypeOK ==
  /\ stdin \in Seq({"exit", "text"})
  /\ ended \in BOOLEAN
  /\ typed \in 0..MaxLines

HistoryTypeOK ==
  /\ log \in Seq(Response)
  /\ origin \in Seq(Conns)
  /\ present \subseteq Conns
  /\ joined \in [Conns -> Nat]
  /\ torn \in [Conns -> Nat] /\ parts \in [Conns -> 0..MaxParts]
  /\ delivered \in [Conns -> Seq(Response)]

TypeOK ==
  ControlTypeOK /\ RegistryTypeOK /\ NetworkTypeOK /\ ConsoleTypeOK /\ HistoryTypeOK

Init ==
  /\ proc = "running" /\ inActivity = TRUE /\ pc = "wait"
  /\ turn = "master" /\ next = 1
  /\ socketList = <<>> /\ sockets = {} /\ clientNames = <<>>
  /\ open = [c \in Conns |-> FALSE] /\ closed = {}
  /\ backlog = <<>>
  /\ peer = [c \in Conns |-> "none"]
  /\ inbox = [c \in Conns |-> <<>>]
  /\ unread = [c \in Conns |-> 0]
  /\ sent = [c \in Conns |-> 0]
  /\ stdin = <<>> /\ ended = FALSE /\ typed = 0
  /\ log = <<>> /\ origin = <<>> /\ present = {}
  /\ joined = [c \in Conns |-> 0]
  /\ torn = [c \in Conns |-> 0] /\ parts = [c \in Conns |-> 0]
  /\ delivered = [c \in Conns |-> <<>>]

-----------------------------------------------------------------------------
(* flex_waiter::wait(): which descriptors select() reports, and which one  *)
(* event is dispatched.  Standard input precedes the listening socket,     *)
(* which precedes the connections; of several readable connections it is   *)
(* the first in the order of an unordered_set, that is, any of them.       *)
StdinReady == stdin # <<>> \/ ended

(* Mutant: connections are accepted only while there are none.             *)
MasterIdle == backlog # <<>> /\ sockets = {}

MasterReady == backlog # <<>>

(* Mutant: the loop over _sockets gives up after its first element.        *)
ReadableFirst(c) ==
  /\ c \in sockets /\ open[c] /\ (inbox[c] # <<>> \/ peer[c] # "live")
  /\ c = socketList[1]

Readable(c) ==
  c \in sockets /\ open[c] /\ (inbox[c] # <<>> \/ peer[c] # "live")

Looping == proc = "running" /\ pc = "wait" /\ inActivity

Dispatch(event) ==
  /\ Looping
  /\ turn' = event
  /\ pc' = "dispatch"
  /\ UNCHANGED <<proc, inActivity, next, registry, files, network, console, history>>

SelectStdin   == StdinReady /\ Dispatch("stdin")

SelectMaster  == ~StdinReady /\ MasterReady /\ Dispatch("master")

SelectSocket(c) == ~StdinReady /\ ~MasterReady /\ Readable(c) /\ Dispatch(c)

(* select() reports nothing for a second; the loop goes around.            *)
Timeout ==
  /\ Looping /\ ~StdinReady /\ ~MasterReady /\ \A c \in Conns : ~Readable(c)
  /\ UNCHANGED vars

Handling(event) == proc = "running" /\ pc = "dispatch" /\ turn = event

(* An exception nobody catches: std::terminate, straight to abort().       *)
Abort ==
  /\ proc' = "aborted"
  /\ UNCHANGED <<inActivity, pc, turn, next, registry, files, network, console, history>>

(* wait() itself throws: select() returns an error, or the read() of the   *)
(* line it reported does.                                                  *)
WaitThrows ==
  /\ "wait" \in Trouble
  /\ Looping \/ Handling("stdin")
  /\ Abort

-----------------------------------------------------------------------------
(* server::onSTDIN.  The read() behind it returns one line of a terminal,  *)
(* perhaps several lines of a pipe (which are then no known command), and  *)
(* at the end of the input the empty string, every time.                   *)
ReadLines(n) ==
  /\ n \in 1..Len(stdin)
  /\ n > 1 => "pipe" \in Trouble
  /\ stdin' = SubSeq(stdin, n + 1, Len(stdin))
  /\ UNCHANGED <<ended, typed>>

(* What is left of a list after for (i = 0; i < size; i++) remove(list[i]) *)
(* has run over it: every removal moves the next element under the index.  *)
Survivors(list) == [i \in 1..(Len(list) \div 2) |-> list[2 * i]]

(* Mutant: exit removes the sockets but forgets _inActivity.               *)
ExitGoesOn ==
  /\ Handling("stdin")
  /\ stdin # <<>> /\ Head(stdin) = "exit" /\ ReadLines(1)
  /\ pc' = "wait"
  /\ UNCHANGED <<proc, inActivity, turn, next, registry, files, network, history>>

OnSTDINExit ==
  /\ Handling("stdin")
  /\ stdin # <<>> /\ Head(stdin) = "exit" /\ ReadLines(1)
  /\ inActivity' = FALSE
  /\ pc' = "wait"
  /\ LET left == Survivors(socketList)
         gone == Range(socketList) \ Range(left)
     IN  /\ socketList' = left
         /\ sockets' = sockets \ gone
         /\ open' = [c \in Conns |-> open[c] /\ c \notin gone]
         /\ closed' = closed \cup { c \in gone : open[c] }
  /\ UNCHANGED <<proc, turn, next, clientNames, network, history>>

OnSTDINOther ==
  /\ Handling("stdin")
  /\ \/ \E n \in 1..Len(stdin) : ReadLines(n) /\ (n > 1 \/ Head(stdin) # "exit")
     \/ stdin = <<>> /\ ended /\ UNCHANGED console
  /\ pc' = "wait"
  /\ UNCHANGED <<proc, inActivity, turn, next, registry, files, network, history>>

(* Mutant: no destructor closes what the sweep skipped.                    *)
ReturnOnly ==
  /\ proc = "running" /\ pc = "wait" /\ ~inActivity
  /\ proc' = "exited"
  /\ UNCHANGED <<inActivity, pc, turn, next, registry, files, network, console, history>>

(* main() returns once the loop is left; what the server still holds is    *)
(* destroyed, and the destructor of an open socket closes it.              *)
ReturnFromMain ==
  /\ proc = "running" /\ pc = "wait" /\ ~inActivity
  /\ proc' = "exited"
  /\ open' = [c \in Conns |-> open[c] /\ c \notin sockets]
  /\ closed' = closed \cup { c \in sockets : open[c] }
  /\ UNCHANGED <<inActivity, pc, turn, next, registry, network, console, history>>

-----------------------------------------------------------------------------
(* server::onSocketServer: accept() and addSocketConnection().             *)
Held == present \ closed

OnSocketServer ==
  /\ Handling("master")
  /\ Cardinality(Held) < MaxFds
  /\ LET c == Head(backlog)
     IN  /\ open' = [open EXCEPT ![c] = TRUE]
         /\ socketList' = Append(socketList, c)
         /\ sockets' = sockets \cup {c}
         /\ present' = present \cup {c}
         /\ joined' = [joined EXCEPT ![c] = Len(log)]
  /\ backlog' = Tail(backlog)
  /\ pc' = "wait"
  /\ UNCHANGED <<proc, inActivity, turn, next, clientNames, closed, peer, inbox,
                 unread, sent, console, log, origin, torn, parts, delivered>>

(* accept() has no descriptor left and socket_server::accept throws.       *)
AcceptFails == Handling("master") /\ Cardinality(Held) >= MaxFds /\ Abort

-----------------------------------------------------------------------------
(* server::onSocket, read > 0.  One recv() takes what it can get, and      *)
(* json::from makes one request of it, or throws (Frames).                 *)
Read(c) ==
  { reading \in Readings(inbox[c], "split" \in Trouble) : parts[c] + reading.part <= MaxParts }

Broadcast(c, reading, response) ==
  /\ inbox' = [inbox EXCEPT ![c] = reading.rest]
  /\ torn' = [torn EXCEPT ![c] = @ + reading.torn]
  /\ parts' = [parts EXCEPT ![c] = @ + reading.part]
  /\ log' = Append(log, response)
  /\ origin' = Append(origin, c)
  /\ pc' = "broadcast"
  /\ next' = 1
  /\ UNCHANGED <<proc, inActivity, turn, socketList, sockets, files, backlog, peer,
                 unread, sent, console, present, joined, delivered>>

(* Mutant: visitLogin does not look for the name.                          *)
VisitLoginUnchecked(c) ==
  /\ Handling(c)
  /\ \E reading \in Read(c), name \in Names :
       /\ reading.request = LoginRequest(name)
       /\ clientNames' = Append(clientNames, name)
       /\ Broadcast(c, reading, LoginResponse(name))

VisitLogin(c) ==
  /\ Handling(c)
  /\ \E reading \in Read(c), name \in Names :
       /\ reading.request = LoginRequest(name)
       /\ name \notin Range(clientNames)
       /\ clientNames' = Append(clientNames, name)
       /\ Broadcast(c, reading, LoginResponse(name))

VisitLoginInUse(c) ==
  /\ Handling(c)
  /\ \E reading \in Read(c), name \in Names :
       /\ reading.request = LoginRequest(name)
       /\ name \in Range(clientNames)
       /\ Broadcast(c, reading, NameInUse)
  /\ UNCHANGED clientNames

VisitMessage(c) ==
  /\ Handling(c)
  /\ \E reading \in Read(c), name \in Names, content \in Contents :
       /\ reading.request = MessageRequest(name, content)
       /\ Broadcast(c, reading, MessageResponse(name, content))
  /\ UNCHANGED clientNames

VisitError(c) ==
  /\ Handling(c)
  /\ \E reading \in Read(c) :
       /\ reading.request \in Malformed \ {Incomplete}
       /\ Broadcast(c, reading, BadRequest)
  /\ UNCHANGED clientNames

(* Mutant: visitMessage insists on a sender that has logged in, and throws.*)
ThrowsOnStrangers(c) ==
  /\ Handling(c)
  /\ \E reading \in Read(c) :
       /\ reading.request.type = "MessageRequest"
       /\ reading.request.sender \notin Range(clientNames)
  /\ Abort

(* json::from or fromJson throws: the bytes are no JSON value, because of  *)
(* how they arrived or of what else was in the buffer, or a property that  *)
(* the request must have is not there.                                     *)
OnSocketThrows(c) ==
  /\ Handling(c) /\ MayThrow(inbox[c], Trouble)
  /\ Abort

-----------------------------------------------------------------------------
(* server::onSocket, read <= 0.  socket::read clears _open in both cases   *)
(* and closes the descriptor in neither; the destructor then sees that     *)
(* _open is FALSE and does not close it.                                   *)
(* Mutant: std::remove without erase; the list keeps its length.           *)
RemoveWithoutErase(list, i) ==
  [j \in 1..Len(list) |-> list[IF j < i \/ j = Len(list) THEN j ELSE j + 1]]

(* std::remove drops every occurrence; a list that holds a connection at   *)
(* most once (RegistriesAgree) has just the one at i.                      *)
WithoutAt(list, i) ==
  [j \in 1..(Len(list) - 1) |-> list[IF j < i THEN j ELSE j + 1]]

Disconnected(c) ==
  /\ Handling(c) /\ inbox[c] = <<>> /\ peer[c] \in {"fin", "finrst"}
  /\ open' = [open EXCEPT ![c] = FALSE]
  /\ \E i \in DOMAIN socketList :
       socketList[i] = c /\ socketList' = WithoutAt(socketList, i)
  /\ sockets' = sockets \ {c}
  /\ pc' = "wait"
  /\ UNCHANGED <<proc, inActivity, turn, next, clientNames, closed, network, console, history>>

ReadFails(c) ==
  /\ Handling(c) /\ inbox[c] = <<>> /\ peer[c] = "rst"
  /\ open' = [open EXCEPT ![c] = FALSE]
  /\ pc' = "wait"
  /\ UNCHANGED <<proc, inActivity, turn, next, registry, closed, network, console, history>>

-----------------------------------------------------------------------------
(* The broadcast: socket::write to _socketList[next].                      *)
Writing(c) ==
  /\ proc = "running" /\ pc = "broadcast"
  /\ next \in DOMAIN socketList /\ c = socketList[next]

(* Mutants: the loop forgets its increment, or stops one short.            *)
AdvanceStuck ==
  UNCHANGED <<next, pc, proc, inActivity, turn>>

AdvanceShort ==
  /\ next' = next + 1
  /\ pc' = IF next + 1 >= Len(socketList) THEN "wait" ELSE "broadcast"
  /\ UNCHANGED <<proc, inActivity, turn>>

Advance ==
  /\ next' = next + 1
  /\ pc' = IF next = Len(socketList) THEN "wait" ELSE "broadcast"
  /\ UNCHANGED <<proc, inActivity, turn>>

Hand(c) == delivered' = [delivered EXCEPT ![c] = Append(@, log[Len(log)])]

(* Mutant: a write that does not wait for room.                            *)
WriteUnbounded(c) ==
  /\ Writing(c) /\ open[c] /\ peer[c] = "live"
  /\ unread' = [unread EXCEPT ![c] = @ + 1]
  /\ Hand(c) /\ Advance
  /\ UNCHANGED <<registry, files, backlog, peer, inbox, sent, console, log, origin, present,
                 joined, torn, parts>>

(* The client is there; a full connection blocks the server.               *)
WriteToLive(c) ==
  /\ Writing(c) /\ open[c] /\ peer[c] = "live" /\ unread[c] < SendBuf
  /\ unread' = [unread EXCEPT ![c] = @ + 1]
  /\ Hand(c) /\ Advance
  /\ UNCHANGED <<registry, files, backlog, peer, inbox, sent, console, log, origin, present,
                 joined, torn, parts>>

(* The client has closed: the kernel takes the bytes, and the reset that   *)
(* they provoke arrives now or later.                                      *)
WriteToClosed(c) ==
  /\ Writing(c) /\ open[c] /\ peer[c] = "fin"
  /\ \E p \in {"fin", "finrst"} : peer' = [peer EXCEPT ![c] = p]
  /\ Hand(c) /\ Advance
  /\ UNCHANGED <<registry, files, backlog, inbox, unread, sent, console, log, origin, present,
                 joined, torn, parts>>

(* EPIPE: nobody handles SIGPIPE.                                          *)
WriteKills(c) ==
  /\ Writing(c) /\ open[c] /\ peer[c] = "finrst"
  /\ proc' = "killed"
  /\ UNCHANGED <<inActivity, pc, turn, next, registry, files, network, console, history>>

(* ECONNRESET: write() returns -1, which onSocket does not look at.        *)
WriteFails(c) ==
  /\ Writing(c) /\ open[c] /\ peer[c] = "rst"
  /\ open' = [open EXCEPT ![c] = FALSE]
  /\ Advance
  /\ UNCHANGED <<registry, closed, network, console, history>>

(* "Can not write to closed socket."                                       *)
WriteThrows(c) == Writing(c) /\ ~open[c] /\ Abort

-----------------------------------------------------------------------------
(* The clients, the network and the console, while the server runs.        *)
Connect(c) ==
  /\ proc = "running" /\ peer[c] = "none"
  /\ peer' = [peer EXCEPT ![c] = "live"]
  /\ backlog' = Append(backlog, c)
  /\ UNCHANGED <<control, registry, files, inbox, unread, sent, console, history>>

Send(c, r) ==
  /\ proc = "running" /\ peer[c] = "live" /\ sent[c] < MaxSends
  /\ MayFollow(inbox[c], Trouble)
  /\ inbox' = [inbox EXCEPT ![c] = Append(@, r)]
  /\ sent' = [sent EXCEPT ![c] = @ + 1]
  /\ UNCHANGED <<control, registry, files, backlog, peer, unread, console, history>>

ClientRead(c) ==
  /\ proc = "running" /\ peer[c] = "live" /\ unread[c] > 0
  /\ unread' = [unread EXCEPT ![c] = @ - 1]
  /\ UNCHANGED <<control, registry, files, backlog, peer, inbox, sent, console, history>>

(* A client that closes with responses unread makes its kernel reset the   *)
(* connection: at once, or when those still on their way arrive.           *)
Leave(c) ==
  /\ proc = "running" /\ "leave" \in Trouble /\ peer[c] = "live"
  /\ \E p \in IF unread[c] = 0 THEN {"fin"} ELSE {"rst", "finrst"} :
       peer' = [peer EXCEPT ![c] = p]
  /\ UNCHANGED <<control, registry, files, backlog, inbox, unread, sent, console, history>>

Reset(c) ==
  /\ proc = "running" /\ "reset" \in Trouble /\ peer[c] = "live"
  /\ peer' = [peer EXCEPT ![c] = "rst"]
  /\ UNCHANGED <<control, registry, files, backlog, inbox, unread, sent, console, history>>

TypeLine(line) ==
  /\ proc = "running" /\ ~ended /\ typed < MaxLines
  /\ stdin' = Append(stdin, line)
  /\ typed' = typed + 1
  /\ UNCHANGED <<control, registry, files, network, ended, history>>

EndInput ==
  /\ proc = "running" /\ "eof" \in Trouble /\ ~ended
  /\ ended' = TRUE
  /\ UNCHANGED <<control, registry, files, network, stdin, typed, history>>

-----------------------------------------------------------------------------
OnSocket(c) ==
  \/ VisitLogin(c) \/ VisitLoginInUse(c) \/ VisitMessage(c) \/ VisitError(c)
  \/ OnSocketThrows(c)
  \/ Disconnected(c) \/ ReadFails(c)

Write(c) ==
  \/ WriteToLive(c) \/ WriteToClosed(c) \/ WriteKills(c)
  \/ WriteFails(c) \/ WriteThrows(c)

ServerNext ==
  \/ SelectStdin \/ SelectMaster \/ Timeout \/ WaitThrows
  \/ OnSTDINExit \/ OnSTDINOther \/ ReturnFromMain
  \/ OnSocketServer \/ AcceptFails
  \/ \E c \in Conns : SelectSocket(c) \/ OnSocket(c) \/ Write(c)

EnvNext ==
  \/ \E c \in Conns : Connect(c) \/ ClientRead(c) \/ Leave(c) \/ Reset(c)
                      \/ \E r \in Sends : Send(c, r)
  \/ \E line \in {"exit", "text"} : TypeLine(line)
  \/ EndInput

(* A process that has ended stays so.                                      *)
Finished == proc # "running" /\ UNCHANGED vars

Next == ServerNext \/ EnvNext \/ Finished

Spec == Init /\ [][Next]_vars

(* The server's thread never stops of itself (it is in select(), in a      *)
(* blocked write() or executing), and a client that stays reads what it is *)
(* sent: its reader thread does nothing else.                              *)
FairSpec ==
  /\ Spec
  /\ WF_vars(ServerNext)
  /\ \A c \in Conns : WF_vars(ClientRead(c))
-----------------------------------------------------------------------------
(* Properties.                                                             *)

(* The server's list of sockets and the waiter's set are two records of    *)
(* the same thing, updated one after the other by addSocketConnection and  *)
(* removeSocketConnection, also while onSTDIN removes from the list it     *)
(* walks: they agree, nothing is listed twice, and a socket that is listed *)
(* nowhere any more is never left open.                                    *)
RegistriesAgree ==
  /\ Range(socketList) = sockets
  /\ IsInjective(socketList)
  /\ \A c \in Conns : open[c] => c \in sockets

(* The length of the conversation a connection has been shown.             *)
Shown(c) == joined[c] + Len(delivered[c])

(* However broadcasts, departures and arrivals interleave, a connection is *)
(* shown one stretch of the common conversation: from where it joined, in  *)
(* the common order, with no response lost or repeated.                    *)
NoGap ==
  \A c \in Conns :
    /\ Shown(c) <= Len(log)
    /\ \A i \in DOMAIN delivered[c] : delivered[c][i] = log[joined[c] + i]

(* The loop in onSocket misses nobody: every open socket has been shown    *)
(* everything, but for the current response when its turn is still to come.*)
Pending == IF pc = "broadcast" THEN { socketList[i] : i \in next..Len(socketList) } ELSE {}

CaughtUp ==
  \A c \in sockets :
    open[c] => Shown(c) = IF c \in Pending THEN Len(log) - 1 ELSE Len(log)

(* visitLogin accepts a name once for as long as the server runs, and it   *)
(* remembers exactly the names it accepted.                                *)
LoginOnce ==
  /\ IsInjective(clientNames)
  /\ \A name \in Names :
       name \in Range(clientNames) <=> LoginResponse(name) \in Range(log)
  /\ \A i, j \in DOMAIN log :
       log[i].type = "LoginResponse" /\ log[i] = log[j] => i = j

(* Every request that reaches the server is accounted for exactly once: it *)
(* has been answered, or is still whole in its inbox, or its beginning was *)
(* dropped by a read that answered the request in front of it.  Only what  *)
(* has been torn so can bring about answers that nobody asked for, and     *)
(* nothing is torn for a client that sends one request at a time.          *)
Answered(c) == { i \in DOMAIN origin : origin[i] = c }

NothingLost ==
  \A c \in Conns :
    /\ Cardinality(Answered(c)) + Whole(inbox[c]) + torn[c] = sent[c] + parts[c]
    /\ parts[c] > 0 => torn[c] > 0
    /\ "pipeline" \notin Trouble => torn[c] = 0
    /\ \A i \in 2..Len(inbox[c]) : inbox[c][i] \notin Leftover

(* The loop over the shrinking list in onSTDIN skips every other socket;   *)
(* all the same, when the process has exited no client that was accepted   *)
(* and is still there has been left with an open descriptor.               *)
ExitHangsUp ==
  proc = "exited" =>
    \A c \in present : ~open[c] /\ (peer[c] = "live" => c \in closed)

(* With clients that wait for one request to be read before they send the  *)
(* next, whose requests arrive whole, are complete and fit the buffer, and *)
(* with a descriptor for each, an exception or a signal ends the server    *)
(* only after a client it had accepted has gone, or while it reads from a  *)
(* connection and the buffer, which socket::read does not clear, was not   *)
(* zero.                                                                   *)
StaysUp ==
  proc \in {"aborted", "killed"} =>
    \/ \E c \in present : peer[c] # "live"
    \/ "stale" \in Trouble /\ pc = "dispatch" /\ turn \in present

(* The promise to the clients, whatever the trouble.                       *)
Room ==
  INSTANCE ChatRoom WITH log <- log, present <- present, joined <- joined, delivered <- delivered

RoomSpec == Room!RoomSpec

(* Whatever else happens, a client's request is read as long as the server *)
(* runs; and a connection that was made is accepted.                       *)
RequestsServed ==
  \A c \in Conns :
    peer[c] = "live" /\ inbox[c] # <<>>
      ~> proc # "running" \/ inbox[c] = <<>> \/ peer[c] # "live"

ConnectionsAccepted ==
  \A c \in Conns : c \in Range(backlog) ~> proc # "running" \/ c \in present

(* The word exit on a terminal ends the server.                            *)
ExitStops == stdin # <<>> /\ Head(stdin) = "exit" ~> proc # "running"

=============================================================================
