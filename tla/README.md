# A verification project for AndroidMessenger

TLA+ models of the chat server (C++, `src/server/`) and of the Android client
(Java, `src/client/`), the TLC configurations that check them on small instances,
and theorems about them that TLAPS proves for every instance.

## 1. The system and its parts

A server listens on a port; clients connect, log in under a name, and send
messages. Whatever the server answers — a login accepted, a message, an error — it
writes to *every* connection. Requests and responses are JSON objects with a `type`
and an `obj` tag. There is no session: a message request names its own sender, and
nothing ties a name to a connection. Nothing is stored; a restart begins empty.

| Part | Code | State it keeps | Operations |
|---|---|---|---|
| server core | `server/server/src/server.cpp`, `main.cpp` | `_inActivity`, `_socketList`, `_clientNames` | `start` (the loop), `onSocketServer`, `onSocket`, `onSTDIN`, `visitLogin`, `visitMessage`, `error`, add/removeSocketConnection |
| flex_waiter | `server/lib/.../flex_waiter.*` | `_sockets`, `_master`, the kill eventfd | `wait` (one `select()`, one handler), `addSocket`, `removeSocket`, `kill` |
| socket, socket_server | `server/lib/.../socket*.{hpp,cpp}` | a descriptor, `_open` | `read`, `write`, `close`, destructor, `accept` |
| msg library | `server/lib/.../msg/` | none | `json::from`, `json::to`, `extractFrom`, the request and the response visitor, `fromJson`, `toJson` |
| client activity | `client/.../MainActivity.java` | `state`, `_user`, `mConnection`, `mRoomFragment` | `login`, `onMsgSend`, `visitLogin`, `visitMessage`, `visitError` |
| client connection | `client/.../NetworkingConnection.java` | `_addr`, `_port`, `_sock`, `sockLock` | constructor, `send` (an AsyncTask), `ReaderThread.run` |
| response dispatch | `client/.../AbstractResponseVisitor.java` | none | `visit` |
| fragments | `LoginFragment.java`, `RoomFragment.java` | the views | the two buttons, the rows of the message table |
| client messages | `client/.../network/request/`, `response/`, `AbstractNetworkInstance.java` | none | `toJson` and what Gson reads, by the names of the fields |

How they interact. The server is **one thread**: `start()` calls `wait()`, which
calls one handler on the server, which writes to the sockets; what runs beside it is
the kernel, the clients and whoever types on its terminal. The client has **three
threads**: the UI thread (clicks and posted runnables), the reader thread (connects,
reads, visits the response, posts to the UI thread) and the AsyncTask executor (writes
the requests). `_sock` is guarded by `sockLock`; `MainActivity.state` is written by
the UI thread and by the reader thread and guarded by nothing.

What is hard here, and what would make each part correct:

* **server core** — the broadcast is a loop of writes between which clients come, go
  and fail. Correct: one conversation, shown to every connection without gap or
  repetition from the moment it was accepted (`NoGap`, `CaughtUp`, `RoomSpec`); a name
  logs in once (`LoginOnce`); a request is answered once (`NothingLost`); `exit` ends
  the process and hangs up on everybody (`ExitStops`, `ExitHangsUp`).
* **flex_waiter** — one event per call, in a fixed order of preference, over an
  unordered set; it knows sockets by their descriptors, and another thread may end it.
  Correct: nobody who is connected starves (`RequestsServed`, `ConnectionsAccepted`),
  its set agrees with the server's list (`RegistriesAgree`), the handler it calls is
  the one whose socket is ready (`ChoosesAsServer`), and a `kill()` comes before any
  handler and ends the wait (`KillPreempts`, `KillWakes`).
* **socket** — `_open` and the descriptor are closed separately, and a write can fail
  in four ways. Correct: among well-behaved clients only one that goes, or the bytes
  that `socket::read` does not clear, can hurt the server (`StaysUp`). Descriptors of
  sockets whose client has left are not closed, which `wait()` rests on (`ChoosesAsServer`).
* **msg library** — nothing marks where a request begins or ends except its closing
  brace and its newline, every request has an object nested in it that is JSON too, and the
  server takes what one `recv()` returns for one request. Correct: what is answered whole
  is what was sent, as it was meant, and what is answered besides is a part of a request
  that was torn (`AnsweredAsMeant`); no request is answered twice or lost unnoticed except
  by being cut (`InboxSpec`, `NothingLost`); what the C++ side writes is what the Java side reads
  (`ClientsAgree`).
* **client** — the login is answered while `login()` still runs; rows are posted to
  views that a posted transaction creates; a lock is held while connecting. Correct:
  the room precedes its rows (`RoomFirst`), the rows are the conversation
  (`ScreenInOrder`, `ScreenComplete`), nobody talks before the server has accepted
  the name (`TalksLoggedIn`), requests leave and the room opens (`SendsEnd`,
  `RoomOpens`).
* **several clients** — each has its own three threads, and they meet in the
  conversation only. Correct: what two users read is one conversation
  (`OneConversation`), nobody speaks who was not announced (`SpeakersWereAnnounced`),
  a user who is logged in catches up (`CatchesUp`), and a client sees no more of the
  others than `Client` assumes (`ViewSpec`).

`PROJECT.json` lists every hazard at its line, with the properties that watch it.

## 2. The modules

```
Messages            the instances on the wire
  |-- ChatRoom      what the server promises            (abstract specification)
  |-- Frames        requests as recv() and json::from take them from a connection
  |     |-- FramesProofs                                (theorem)
  |     |-- Inbox   one connection as Server sees it    (abstract specification)
  |     |-- Server  the server   -- Room == INSTANCE ChatRoom
  |     |     |-- MCServer                              (small instances, doc claims)
  |     |     '-- ServerProofs -- RoomProofs            (theorems)
  |     '-- Framing one connection, byte by byte   -- Abstract == INSTANCE Inbox
  |           |-- MCFraming                             (small instance)
  |           '-- FramingProofs                         (theorems)
  |-- Wire          the JSON of the messages, both languages (used by Framing)
  '-- Client        one client
        |-- MCClient                                    (small instances, doc claims)
        '-- ClientProofs -- ScreenProofs                (theorems)
Messenger           EXTENDS ChatRoom; A, B, View == INSTANCE Client
  |-- MCMessenger                                       (small instance)
  '-- MessengerProofs   PA, PB == INSTANCE ScreenProofs (theorems)
Waiter              flex_waiter in descriptors
  |-- MCWaiter                                          (small instance)
  '-- WaiterProofs                                      (theorems)
```

What is established of the whole is composed of these: `Framing` implements `Inbox`,
whose steps are those `Server` takes on an inbox; `Waiter` shows that a `wait()` chooses
as `Server`'s one-step selection does; `Server` implements `ChatRoom`; `Messenger` puts
two `Client`s around `ChatRoom`, and shows of the first that, with the rest for its
environment, it behaves as `Client` alone may. Each of these four is proved.

### Server

A turn of `start()`'s loop is split where the outside can be noticed:
*select* (`SelectStdin`, `SelectMaster`, `SelectSocket`, `Timeout`: `pc` goes from
`wait` to `dispatch`), *handle* (`OnSTDINExit`, `OnSTDINOther`, `OnSocketServer`, and
for a connection the `Visit…` actions, `OnSocketThrows`, `Disconnected`, `ReadFails`),
and, after a request, *broadcast* (`pc = "broadcast"`: one `Write…` action per
`write()`, with `next` the loop's index). The environment (`Connect`, `Send`,
`ClientRead`, `Leave`, `Reset`, `TypeLine`, `EndInput`) acts between any two of these.

| In the model | In the code |
|---|---|
| `socketList`, `clientNames`, `inActivity` | the members of `dzagar::server` |
| `sockets` | `flex_waiter::_sockets`; the iteration order of an unordered set is "any" |
| `open`, `closed` | `socket::_open`; whether `::close` was called on the descriptor. `read()` clears the first and never does the second |
| `peer` | the kernel's view: `live`, `fin` (closed; a read returns 0, a write succeeds and provokes a reset), `finrst` (the next write raises SIGPIPE), `rst` (a read or write returns -1) |
| `inbox`, `Readings`, `MayThrow` (Frames) | what one `recv()` of 1024 bytes takes, and what `json::from` accepts of it: exactly one JSON value. What is behind its newline is dropped, so the beginning of the next request may be `torn` off, whose remainder stays as a `Fragment` or as a `Newline`. A later `recv()` may return an object out of the `Fragment`, which is answered as a request without tags (`ReadPart`) |
| `unread < SendBuf` | a blocking `write()` has room |
| `proc` | `exited` by `main`'s return, `aborted` by an exception (nothing catches any), `killed` by a signal |
| `log`, `origin`, `present`, `joined`, `delivered` | history: the conversation, whose request each response answers, and what each connection was shown |
| `torn`, `parts` | history: how many requests lost their beginning, and how many objects out of them were answered |
| `WaitThrows` | the two exceptions of `wait()` itself: `select()` fails, or the `read()` of standard input does |

A conversation ends up in `delivered` when `write()` accepts it. A write to a
connection that the client has closed is a delivery to nobody, and counted, since
the server cannot tell. `Trouble` names what a run lets happen outside the server.

The order of the loop over the shrinking list in `onSTDIN` is kept: `Survivors` are
the sockets it skips, which are closed by their destructors when `main` returns
(`ReturnFromMain`).

### ChatRoom

`log`, `present`, `joined`, `delivered` and five steps: a connection enters, a name
logs in (at most once), a message or an error is published, a connection is shown
the next response. `Server` implements it under the identity mapping of these four
variables; every other step of the server stutters.

### Frames, Inbox, Wire and Framing

`Framing` is one connection in bytes. A client writes trees of JSON (`Wire`: the
properties that are there, the type tag; `WrittenFor` says which trees are written for
which request, in the run one for each way of being none); `Bytes` makes bytes of a tree,
known by their request and place, the last two its closing brace and the newline. `Braces`
says where further closing braces stand in it, `Parts` which objects and arrays lie within:
the object that every request nests, what somebody typed into a message. The bytes arrive
whole, or in pieces (`Deliver`); `Receive` is `recv()` into an uncleared buffer, `Beyond`
what `std::string(raw_buff)` may find behind the bytes received: nothing, the residue of an
earlier call, or garbage. `From` is `json::from` with its two cuts; what is left is a whole
request (`IsWhole`), an object out of one (`PartsIn`), or makes `read_json` throw.
`VisitRequest` is the visitor over `extractFrom` and `fromJson`; an object out of a request
has no tags, so the answer to it is `BadRequest`. The server meets one when requests are
pipelined and split: it answers the first, drops the beginning of the second behind the
first's newline, and the next `recv()` returns just the second's nested object.

`Inbox` is the same in whole requests, made of the operators of `Frames` from which
`Server` is built too. The refinement mapping counts what `recv()` has taken: `inbox` is
the rest of the request it stopped in and the requests behind, `torn` the requests begun
but not answered whole. So that one connection of `Server` behaves as bytes do is checked
and proved, of requests whose text is as two assumptions say, which hold of whatever the
client's Gson writes: all further braces and objects lie strictly within the outermost pair
(`BracesAssumption`), and no object within has both tags (`PartsAssumption`; the nested one
has a sender and a date, and quotes in what somebody types are escaped). Bytes that nobody
wrote, behind a full buffer or in one not used before, are those of `Garbage` only: text that
is cut off again, or the end of some other object. And it is true as far as `Foreseen` says:
bytes left in the buffer by an earlier `recv()` may be taken for a request only if requests come in pieces or are sent without
waiting for answers, and then they need not be one that `Inbox` knows of (section 5).

`Wire` writes each message down once per language: `JavaJson` and `JavaVisit` from the
Java classes, `VisitRequest`, `ToJson` and `VisitResponse` from the C++ ones. Dates, and
the text of an error, are one value.

### Waiter

The thread of `wait()` goes through *built* (the set), *select* (the eventfd is made and
in the set), then *kill* or *handler*. `fd`, `open` and `held` keep apart what
`socket::_socketFD`, `socket::_open` and the kernel say: a socket whose peer has closed
keeps its descriptor in `held` for ever. `SelectFails` and `ReadStdinFails` are the
exceptions of `wait()`, `NoDescriptor` that of a missing eventfd. `Kill` is the other thread: it does nothing
before the first `wait()` has made the eventfd. The handlers are what the server's do to
sockets and descriptors; `MasterFd` stands for whatever descriptor the listening socket
has.

### Client

`login()` is four steps, because the reader thread starts in the constructor it
calls: `Login`, `LoginConnected`, `LoginSend`, `LoginAttempted`. `visitLogin` is
three (`VisitOwnLogin` or `VisitOtherLogin`, `ShowRoomFragment`, `Announce`), because
it reads `state` a second time. `visitMessage` reads it once and then posts; it is
one step (`VisitMessage`), for two runnables posted in succession cannot be told from
two posted at once: nobody else posts. `looper` holds what `runOnUiThread` and
`FragmentTransaction.commit` have posted; `tasks` the AsyncTasks, which Android
executes one after the other. A write of `state` that the other thread sees late (the
field is not volatile) is a write that comes later. An exception no thread catches
ends the application (`Crash`).

`link` is the connection: *made* once the kernel has completed it, *accepted* when the
server has (`Accept`); until then nothing that others provoke reaches the client. The
server in this model is the one `Server` is proved to be: `AnswerLogin` and
`AnswerMessage` are `visitLogin` and `visitMessage` with the write to this client, it
accepts a name once and broadcasts each answer, in order. `AnswerOther` is what others make it broadcast.
`user` is the name typed into the login form: any of `Names`, and a variable, so that an
instance of the module may have two clients of different names. A name shorter than three
characters makes `login()` return at once, so the model starts from one that is long
enough.

### Messenger

`A` and `B` are instances of `Client` over the room's `Users` for the names taken. The
names the two users type are variables, so that both cases, the same name and another,
are one run (there `TypedA` fixes the first, which is one case up to renaming). A
client's own
steps (`OwnNext`) leave the room alone; `EnterA` joins `ChatRoom!Enter` and
`Client!Accept`; `AnswerA` takes the head of the client's requests and is the room's
answer to it; `ShowA` hands the client its next response. `View` maps it back: for the
first client, everything that others made the room publish is `Client!AnswerOther`, and
a response is on its way from the moment the room has it (`Pending`).

## 3. The runs

| Run | What it asks | Instance | States |
|---|---|---|---|
| `server_room` | the invariants of the server while connections close and are reset, and that it implements `ChatRoom` | 2 connections, 1 name, 1 content, 2 requests each, 1 line, `SendBuf` 1 | 1.6 M (with symmetry) |
| `server_delivery` | exactly one answer per request that is not torn, with malformed, oversized, split, pipelined requests, a pipe as standard input, a `wait()` that throws, fewer descriptors than clients | 2 connections, 2 contents of which 1 oversized, 2 requests each, 1 part of them, 2 lines | 2.4 M (with symmetry) |
| `server_live` | requests served, connections accepted, `exit` obeyed | 2 connections, 1 request each, 1 line, clients may leave | 79 k |
| `client` | safety and liveness of one client, with every trouble | 2 names, either of them typed, 1 content, 2 foreign broadcasts, 2 clicks, three kinds of address | 50 k |
| `messenger` | two clients in one room | 2 clients, 2 names, 1 content, 1 click each, the first may lose its connection | 446 k |
| `waiter` | descriptors, `kill()`, and the choice of the handler | 2 sockets, 4 descriptors | 34 k |
| `framing` | the bytes of one connection, and the JSON | 3 requests of 3 to 7 bytes, with an object nested in each and an empty one typed into some, a buffer of 6 | 207 k |

Two connections and one name are enough for two connections to claim one name, for one
to vanish while the other is written to, for a broadcast to fail at its first and at
its last socket, and for the sweep of `onSTDIN` to skip one. A connection that sends
two requests can be answered between them. `SendBuf = 1` makes the server block on
every second response. One part of a torn request on each connection (`MaxParts`) is answered
before, between or after the other's requests; a read that finds another part only throws.
Two foreign broadcasts suffice for a response to arrive before,
during and after the client's own login and for two to be read at once. In `messenger`
one click each lets both users log in and the conversation hold three responses, which
either client may enter before, between or after. In `framing` requests are shorter than the buffer, as long as it with and without
their newline, and longer; the third is needed for the newline of the first to arrive
with the second and still be followed by one. In `waiter` four descriptors are standard
input, the master's and two for the eventfd and two sockets, so that they run out in each
of their uses and would be reused if they were closed. The proofs
below do not depend on any of these bounds. The model checker's bounds are
`MaxSends`, `MaxParts`, `MaxLines`, `MaxOthers`, `MaxClicks` and `MaxRequests` (how often the environment acts),
`MaxFds`, `Limit`, `SendBuf` and `MAX_BUFFER_SIZE` (limits the real system has too).

Symmetry is used for connections and names in the two runs of `Server` whose properties
are safety properties; no definition chooses one of them.

**Deadlock.** The server's runs check it: the server either loops in `Timeout` or is
blocked in a `write()` whose client can still read; `Finished` is the ended process.
`framing` and `waiter` check it too (`Finished`, `Ended`). The client's runs and
`messenger` do not: a client that has crashed, or whose connection has ended,
stops for good.

**Fairness.** `Server!FairSpec` is weak fairness of the server's steps (its thread is
in `select()`, in a blocked `write()`, or running) and of every client's reading (a
client's reader thread does nothing else). Nothing is assumed of clients sending,
leaving, or of the console. With it `RequestsServed` holds because the number of
requests is bounded: against a client that never pauses, `wait()`'s choice of the
first readable socket could starve another, which this project does not claim to
exclude. `Client!FairSpec` is weak fairness of the UI thread finishing `login()`, of
the looper, of the executor and of the reader thread; nothing is assumed of the
user, the server or the network. `Waiter!FairSpec` is weak fairness of the thread in
`wait()` and its handlers, which is `start()`'s loop; it is the one thread there is.
`Messenger!FairSpec` is weak fairness of the first client's threads together with the
server's writes to it; each of these has boundedly many steps to take, so that none can
be put off for ever by another. The second client may do nothing at all.

### Where the code does not do what it says

Each of these runs checks one statement of a comment and finds it violated.

| Run | The statement | What happens |
|---|---|---|
| `server_sigpipe` | `socket.hpp:118`: write returns -1 if an error | the second write to a closed connection raises SIGPIPE |
| `server_stdin_ends` | `flex_waiter.hpp:45`: any activity is visited | an ended standard input is always ready and always first |
| `framing_errors` | `ResponseVisitor.java:39`: visitError is "called if the server returns an error" | `visit()` throws at every error, so a name in use ends the clients that read the refusal |
| `client_race` | `MainActivity.java:195`: "show the chat room, logged in!" | `login()` overwrites `ISLOGGEDIN` with `ATTEMPTEDLOGIN` |
| `client_refused` | `INetworkingConnection.java:41`: callback if an error occurs | a refused connection keeps `sockLock` locked |

Three more divergences show in the models of passing runs. `error.hpp:53` says that a username in use
"exists on the server at this time", but names are never released: `RoomSpec` describes
them as used for good. `flex_waiter.hpp:124` says that `kill()` throws if no thread waits; it
returns, and if there has been a `wait()` before, the next one ends at once (`Waiter`).
`socket.cpp:147` prints "Socket closed", but `read()` clears `_open` before anyone calls
`::close`, so that nobody does: every client that leaves costs a descriptor (`Held`, and `held`
in `Waiter`), until `accept()` throws (`AcceptFails`).

Three properties say how far a promise goes that the code does not keep altogether.
`StaysUp` has the uncleared buffer of `socket::read` as its second way out: with `"stale"` in
`Trouble` a shorter request may be read with the tail of a longer one before it, and end the
server, though every client behaves. `AnsweredAsMeant` and `NothingLost` say that
the parts of a torn request are answered though nobody sent them, and that nothing else is.

## 4. What is proved

Every safety property of a passing run, and each of the three refinements, is proved
too. The theorems are of the form `Spec => []Inv`, `Spec => [][A]_vars` or `Spec =>
AbstractSpec` (`RoomSpec`, `InboxSpec`, `ViewSpec`), or facts about the operators they
rest on, for every value of the constants allowed by the named assumptions: finitely many
connections; a send buffer of at least one response; sets of names, contents and requests
of any size; at least three descriptors; a buffer of at least one byte, requests of at
least three, and trees that are what `WrittenFor` allows, with any braces and any objects
without tags inside; troubles that are `Foreseen`;
bounds on clicks, lines and requests that are numbers, whichever they are.

**`FramesProofs`.** `ReadingsAccount`: from a queue that has leftovers at its head only
(`Proper`), a reading takes one request, and of the whole ones behind it all are left, or
all but one that is torn; or it takes a part of a fragment, and the queue stays as it is.
What is left is `Proper` again. By cases on what `recv()` may
take.

**`ServerProofs`.** `TypeCorrect` and `RegistriesAlwaysAgree`. `TypeOK` is not inductive
alone: the handler of a connection indexes `socketList`, so one needs `ControlInv`
(what `wait()` chose is still there when its handler runs, and the broadcast's index
is in range) — true because between the choice and the handler only the environment
acts, and it does not touch the registries. `RegistriesAgree` (list and set agree,
no duplicates) needs `ArrivalInv`: a connection in the backlog has not been accepted
before. The lemmas about sequences (`AppendDistinct`, `WithoutAtDistinct`,
`SurvivorsDistinct`) say that pushing, erasing and the skipping sweep keep a list
free of duplicates.

**`RoomProofs`**, over `BaseInv == TypeOK /\ ControlInv /\ RegistriesAgree /\ ArrivalInv`:

* `NamesLogInOnce`: `LoginOnce` is inductive over `BaseInv`; the only step that adds a
  login response also adds the name it has just not found.
* `ShownWithoutGap`, `EveryoneCaughtUp`: `ShownInv` joins `NoGap`, `CaughtUp` and "who
  was not accepted was shown nothing". `NoGap` alone is not inductive: that the next
  response written is the *next* one for that connection is what `CaughtUp` says, and
  `CaughtUp` must say who is still `Pending` in the loop. `AdvancePending` is the lemma
  that the loop's increment takes exactly one socket, listed once, out of `Pending`.
* `EveryRequestAnswered`: `NothingLost`, by counting answered, whole and torn requests and
  the parts of these that were answered; `ReadingsAccount` is what a read does to the last
  three. `NothingLost` includes that every inbox is `Proper`, without which it would not be
  inductive. `AccountInv` adds that a fragment is at the head of an inbox only once a
  request was torn, so that parts come of torn requests only, and that a client that waits
  for its answers never has two requests unread, so that none is torn.
* `ExitClosesEverything`: `ClosingInv` says that a live, accepted client's descriptor is
  open or closed properly, and that nothing is open after the exit.
* `ServerStaysUp`: `StaysUp` is an implication from what good clients do, `GoodClients`
  (they wait for answers, their requests are whole, complete and not too long, there is a
  descriptor for each, and `wait()` does not throw). Nothing is assumed of the buffer; that
  its old bytes may end the server is in the conclusion. `UpInv` adds that then an inbox
  holds at most one whole request, so that a reading throws for those bytes only
  (`OneIsReadWhole`), and that a socket that is registered but not open has lost its
  client, so that no write fails before one has gone. That `accept()` never runs out
  (`DescriptorLeft`) is by counting: whoever has not been accepted holds none.
* `ServerImplementsRoom`: `RoomSteps` maps each step to a step of `ChatRoom` or a
  stutter, by the invariants above.

**`WaiterProofs`.** `TypeCorrect`, `HandlersAreCalledRight` (`ChoosesAsServer`) and
`KillComesFirst` (`KillPreempts`). The inductive invariant `WaiterInv` joins `TypeOK` with
three facts: descriptors in use differ (`DescriptorsDiffer`), which is what lets `wait()`
know a socket by its number; registered sockets hold theirs (`RegisteredAreHeld`), which
a socket that failed to read does only because nobody closes it; and the set given to
`select()` is still what the members say when it returns (`WatchesMembers`).
`ReportedIsReady` turns a reported descriptor back into its one owner.

**`ClientProofs`.** `TypeCorrect` (with `Announcing`: a response being announced is a
response). `RoomComesFirst`: `RoomFirst` needs `RoomInv` — whenever the activity
believes it is logged in and is not in the middle of showing the room, the room is
open or its transaction posted. `TalksOnlyLoggedIn`: `AcceptedInv` follows the user's
name along the whole circle — not accepted, then no login response on its way, not
logged in, no message in any queue.

**`ScreenProofs`**, over those: `ReadsInOrder` and `ReadsEverything`. `ScreenInv` says
that the rows, shown and posted, are a stretch of `received` that starts at the user's own
login; as long as the activity believes it is logged in, the stretch ends at the last
response visited, and in the middle of a visit the response being announced is the last
received (`VisitedInv`). The rows are numbered by counting (`Rank`: how many of the
items posted up to here are rows), so that a row keeps its number when the looper's head
is run (`RunTheRow`, `RunOther`) or an item is posted (`PostRow`, `PostOther`). That the
start never moves needs `OwnOnce`: the server accepts a name once, so among what was
received and is on its way there is one login of the user's own. It is proved of `Client`'s
environment here, and of the room in `MessengerProofs`. The second part of the module,
`ClientInv` and its lemmas, says the same of a client whose environment is not given yet.

**`FramingProofs`.** `TypeCorrect`, `AnswersWhatWasMeant`, `ResponsesAgree` and
`BytesImplementInbox`, over

    FramingInv == Layout /\ Progress /\ OneAtATime /\ Residue /\ Torn /\ Meant

`Layout`: the stream is the requests, one behind the other, so that a byte's place in its
request says what is before and behind it. `OneAtATime`: a client that waits for its
answers has one request unread, behind at most a newline. `Residue`: when `recv()` has
filled the buffer and left a newline, the whole buffer is one request from its first byte
on; without it the newline that comes next could make a request of the old bytes.
`Torn`: the server stands inside a request it may go on from only if requests are
pipelined. `Meant`: requests answered whole are requests sent, in order, none twice, and of
the one the server stands inside of none was. From these, what `json::from` keeps is one
whole request, a part of the one that `recv()` began in the middle of (`PartReading`), or
throws. The refinement mapping counts what `recv()` has taken, and each
step of the bytes is shown to be a step of `Inbox` or a stutter. The proof found what the
run with its first bounds did not: with requests pipelined over an uncleared buffer, a
newline that arrives alone repeats a request of before. `Foreseen` excludes it, from the
claim and not from the code, and the run's buffer is now long enough to show it.

**`MessengerProofs`.** `NobodyUnannounced` (`SpeakersWereAnnounced`),
`BothReadOneConversation` (`OneConversation`) and `TheFirstIsAClient` (`ViewSpec`). The
invariant is

    MessengerInv == RoomInv /\ FineA /\ FineB

`RoomInv` is about the room: a name is logged in once, and whoever has spoken had been
shown a login under the name. `FineA` and `FineB` are each the invariant of a client,
`ClientInv`, which is not proved again: `PA` and `PB` are instances of `ScreenProofs`, in
which the names taken are those whose login the room has published since the connection
joined (`Known`), and whose lemmas are cited; and `Hears`, that what the client was handed is the conversation
from where it joined. Each client relies on the room (a name is logged in once, so it
hears its own login once: `OwnOnceA`), the room on the clients (a message is sent only
under a known name: `AnswersA`), and one step of either keeps both. The refinement needs,
besides, that the other client's requests are bounded by its clicks (`CountInv`), which is
what `Client` grants its environment; then a response published is one appended to what is
on its way (`Heralds`), one handed over is a stutter (`ShowView`), and a reader takes the
same one whether or not more follow (`FirstOfMore`). Nothing is assumed of which names the
two users type.

**Only model-checked.** Liveness (`RequestsServed`, `ConnectionsAccepted`, `ExitStops`,
`SendsEnd`, `RoomOpens`, `CatchesUp`, `KillWakes`), which needs fairness and ENABLED and is
beyond the prover. What a recursive definition computes is beyond it as well, so the
properties above count with sets (`Posted`, `RowNo`, `ByOthers`) and not with `SelectSeq`
or a fold; where a proof needs the last newline or the last brace of a text it is the
greatest element of a set of places, by well-foundedness.

## 5. What is not modelled

* `main()`'s reading of the port, failures to bind or listen, and lines typed ahead,
  which stay in `std::cin`'s buffer: they precede the first state.
* Descriptors beyond `FD_SETSIZE`, and lines on standard input of 1024 bytes or more: both
  write or read outside an array, with outcomes the language leaves open.
* Dates, the text of errors, the layout of JSON and of the screen.
* Stale bytes behind a request (the swapped arguments of `memset` in `socket::read`)
  together with requests in pieces, or with requests sent without waiting for answers:
  `Server` and `Framing` have each alone (`Foreseen`). With pieces, the residue of one
  request may complete the first piece of another to a request that nobody sent; which
  one depends on every byte of both. With pipelining, a newline that a full buffer left
  behind may find the bytes of an earlier request in front of a brace, and repeat it.
* Bytes nobody wrote that happen to be text the server acts on: `Garbage` has the two kinds
  that differ for `json::from`, text that is cut off again and the end of an object.
* A client that sends for ever, against which fairness among sockets does not hold.
* Recreation of the activity (rotation, return from the background): `onCreate` would
  start from `NOCONNECTION` with the old reader thread still running. No code of the
  application handles it, and what the old activity's transactions then do is Android's
  affair.
* The connecting `socket` constructor and `read(vector)`, which nothing calls; the
  C++ client itself, which the repository has only as a binary (its side of the library,
  the response visitor, is in `Wire`); the vendored `chrono_io` and `ratio_io`.

## 6. Plan

Done: all the modules above, with their runs, and the theorems on every safety property
and every refinement that the runs check.

Next:

1. Safety facts that liveness rests on, as theorems: that the thread of the server, of
   the waiter and of the client is never stuck except where the code waits (what a run
   checks as absence of deadlock), stated without ENABLED by the guards of the actions.
2. The refinement of `Messenger` for the second client, by the symmetry of the two.

## 7. Running

`tlc -config MCServerRoom.cfg MCServer` (and so on: each `.cfg` is named after the
module it belongs to and its question), `tlapm RoomProofs.tla`. Every property of a
passing run has, in `PROJECT.json`, a mutant: a definition of the model changed as a
plausible bug would change the code (`AdvanceShort`: a broadcast loop that stops one
short), under which the property fails. The mutated forms stand next to the
definitions they replace.
