------------------------------- MODULE Waiter -------------------------------
(***************************************************************************)
(* flex_waiter::wait() step by step, in descriptors: the set handed to     *)
(* select(), the eventfd through which another thread's kill() ends the    *)
(* wait, and the search for whom a ready descriptor belongs to.  Server    *)
(* takes all this for one step that picks a ready socket.  The handlers    *)
(* are the server's, reduced to what they do to sockets and descriptors.   *)
(***************************************************************************)
EXTENDS Integers, FiniteSets

CONSTANTS
  Socks,     \* the sockets there may ever be
  Limit      \* the descriptors of the process are 0 .. Limit - 1

ASSUME SocksAssumption == Socks \cap {"stdin", "master"} = {}
ASSUME LimitAssumption == Limit \in Nat /\ Limit > 2

STDIN_FILENO == 0
MasterFd     == 1    \* whichever the listening socket was given

VARIABLES
  pc,           \* idle, built, select, kill, handler, thrown or gone
  turn,         \* whose handler runs
  forever,      \* wait() was given no timeout
  watched,      \* the descriptors in theSet
  killEventFD,  \* flex_waiter::_killEventFD
  signalled,    \* the counter of the eventfd is not zero
  master,       \* whether flex_waiter::_master is set
  sockets,      \* flex_waiter::_sockets
  fd,           \* socket::_socketFD
  open,         \* socket::_open
  held,         \* the sockets whose descriptor is not closed
  backlog,      \* the connections made and not accepted yet
  ready         \* of standard input and the sockets, what can be read from

thread  == <<pc, turn, forever, watched>>
event   == <<killEventFD, signalled>>
members == <<master, sockets>>
files   == <<fd, open, held>>
inputs  == <<backlog, ready>>
vars    == <<thread, event, members, files, inputs>>

Descriptors == 0..(Limit - 1)

TypeOK ==
  /\ pc \in {"idle", "built", "select", "kill", "handler", "thrown", "gone"}
  /\ turn \in Socks \cup {"stdin", "master"}
  /\ forever \in BOOLEAN /\ signalled \in BOOLEAN /\ master \in BOOLEAN
  /\ watched \subseteq Descriptors
  /\ killEventFD \in Descriptors \cup {-1}
  /\ sockets \subseteq Socks /\ held \subseteq Socks
  /\ fd \in [Socks -> Descriptors \cup {-1}]
  /\ open \in [Socks -> BOOLEAN]
  /\ backlog \subseteq Socks /\ ready \subseteq Socks \cup {"stdin"}

Init ==
  /\ pc = "idle" /\ turn = "stdin" /\ forever = TRUE /\ watched = {}
  /\ killEventFD = -1 /\ signalled = FALSE
  /\ master \in BOOLEAN /\ sockets \in SUBSET Socks
  /\ fd \in { f \in [Socks -> Descriptors \cup {-1}] :
               /\ \A s \in Socks : f[s] >= 0 <=> s \in sockets
               /\ \A s \in sockets : f[s] \notin {STDIN_FILENO, MasterFd}
               /\ \A s, t \in sockets : f[s] = f[t] => s = t }
  /\ open = [s \in Socks |-> s \in sockets] /\ held = sockets
  /\ backlog = {} /\ ready = {}

-----------------------------------------------------------------------------
(* Descriptors.                                                            *)
Free ==
  Descriptors \ ({STDIN_FILENO, MasterFd, killEventFD} \cup { fd[s] : s \in held })

ReadyFds ==
  { fd[s] : s \in held \cap ready }
    \cup (IF "stdin" \in ready THEN {STDIN_FILENO} ELSE {})
    \cup (IF backlog # {} THEN {MasterFd} ELSE {})
    \cup (IF signalled THEN {killEventFD} ELSE {})

-----------------------------------------------------------------------------
(* wait() until select(): the set is built, then, under _mut_killEvent,    *)
(* the eventfd is made if there is none yet.                               *)
BuildSet ==
  /\ pc = "idle"
  /\ pc' = "built"
  /\ forever' \in BOOLEAN
  /\ watched' = {STDIN_FILENO} \cup (IF master THEN {MasterFd} ELSE {})
                  \cup { fd[s] : s \in { s \in sockets : open[s] } }
  /\ UNCHANGED <<turn, event, members, files, inputs>>

(* Mutant: nobody asks whether eventfd() has failed.                       *)
MakeEventUnchecked ==
  /\ pc = "built"
  /\ pc' = "select"
  /\ killEventFD' \in IF killEventFD # -1 THEN {killEventFD} ELSE IF Free = {} THEN {-1} ELSE Free
  /\ watched' = watched \cup {killEventFD'}
  /\ UNCHANGED <<turn, forever, signalled, members, files, inputs>>

MakeEvent ==
  /\ pc = "built"
  /\ pc' = "select"
  /\ killEventFD' \in IF killEventFD = -1 THEN Free ELSE {killEventFD}
  /\ watched' = watched \cup {killEventFD'}
  /\ UNCHANGED <<turn, forever, signalled, members, files, inputs>>

NoDescriptor ==
  /\ \/ pc = "built" /\ killEventFD = -1 /\ Free = {}
     \/ pc = "handler" /\ turn = "master" /\ Free = {}
  /\ pc' = "thrown"
  /\ UNCHANGED <<turn, forever, watched, event, members, files, inputs>>

-----------------------------------------------------------------------------
(* select() returns, and wait() looks at what it reports: the eventfd,     *)
(* then standard input, then the master, then the sockets.  Of a socket it *)
(* asks for the descriptor, not whether it is open.                        *)
Reported == watched \cap ReadyFds

ReportKill ==
  /\ pc = "select" /\ killEventFD \in Reported
  /\ pc' = "kill"
  /\ UNCHANGED <<turn, forever, watched, event, members, files, inputs>>

Handle(whose) ==
  /\ pc = "select"
  /\ pc' = "handler" /\ turn' = whose
  /\ UNCHANGED <<forever, watched, event, members, files, inputs>>

(* Mutant: standard input is looked at before the eventfd.                 *)
ReportStdinFirst == STDIN_FILENO \in Reported /\ Handle("stdin")

ReportStdin ==
  killEventFD \notin Reported /\ STDIN_FILENO \in Reported /\ Handle("stdin")

ReportMaster ==
  /\ Reported \cap {killEventFD, STDIN_FILENO} = {}
  /\ master /\ MasterFd \in Reported
  /\ Handle("master")

ReportSocket(s) ==
  /\ Reported \cap {killEventFD, STDIN_FILENO, MasterFd} = {}
  /\ s \in sockets /\ fd[s] \in Reported
  /\ Handle(s)

ReportNothing ==
  /\ pc = "select" /\ ~forever /\ Reported = {}
  /\ pc' = "idle"
  /\ UNCHANGED <<turn, forever, watched, event, members, files, inputs>>

(* select() returns an error, or the read() of standard input does.        *)
SelectFails ==
  /\ pc = "select"
  /\ pc' = "thrown"
  /\ UNCHANGED <<turn, forever, watched, event, members, files, inputs>>

ReadStdinFails ==
  /\ pc = "select" /\ killEventFD \notin Reported /\ STDIN_FILENO \in Reported
  /\ pc' = "thrown"
  /\ UNCHANGED <<turn, forever, watched, event, members, files, inputs>>

(* Mutant: the wait ends, but the counter is not read.                     *)
KillUnread ==
  /\ pc = "kill"
  /\ pc' = "idle"
  /\ UNCHANGED <<turn, forever, watched, event, members, files, inputs>>

(* One read takes the whole counter, however many kills are in it.         *)
ReadKill ==
  /\ pc = "kill"
  /\ pc' = "idle" /\ signalled' = FALSE
  /\ UNCHANGED <<turn, forever, watched, killEventFD, members, files, inputs>>

(* Another thread.  Before the first wait() has made the eventfd, and once *)
(* the waiter is gone, nothing happens.                                    *)
Kill ==
  /\ killEventFD >= 0
  /\ signalled' = TRUE
  /\ UNCHANGED <<thread, killEventFD, members, files, inputs>>

-----------------------------------------------------------------------------
(* The handlers.                                                           *)
Handling(whose) ==
  /\ pc = "handler" /\ turn = whose
  /\ pc' = "idle"
  /\ UNCHANGED <<turn, forever, watched, event, master>>

(* A handler reads everything there is, or leaves some.                    *)
Reads(whose) == ready' \in {ready, ready \ {whose}} /\ UNCHANGED backlog

AddSocket(s) == sockets' = sockets \cup {s}

RemoveSockets(gone) == sockets' = sockets \ gone

(* On exit, onSTDIN removes some sockets, which closes them.               *)
OnSTDIN ==
  /\ Handling("stdin") /\ Reads("stdin")
  /\ \E gone \in SUBSET sockets :
       /\ RemoveSockets(gone)
       /\ open' = [s \in Socks |-> open[s] /\ s \notin gone]
       /\ held' = held \ { s \in gone : open[s] }
  /\ UNCHANGED fd

OnSocketServer ==
  /\ Handling("master")
  /\ \E s \in backlog, new \in Free :
       /\ backlog' = backlog \ {s}
       /\ fd' = [fd EXCEPT ![s] = new]
       /\ open' = [open EXCEPT ![s] = TRUE]
       /\ held' = held \cup {s}
       /\ AddSocket(s)
  /\ UNCHANGED ready

OnSocket(s) == Handling(s) /\ Reads(s) /\ UNCHANGED <<sockets, files>>

OnDisconnect(s) ==
  /\ Handling(s) /\ Reads(s)
  /\ open' = [open EXCEPT ![s] = FALSE]
  /\ RemoveSockets({s})
  /\ UNCHANGED <<fd, held>>

(* Mutant: a read that fails closes the descriptor, as it says.            *)
OnReadErrorCloses(s) ==
  /\ Handling(s) /\ Reads(s)
  /\ open' = [open EXCEPT ![s] = FALSE]
  /\ held' = held \ {s}
  /\ UNCHANGED <<fd, sockets>>

OnReadError(s) ==
  /\ Handling(s) /\ Reads(s)
  /\ open' = [open EXCEPT ![s] = FALSE]
  /\ UNCHANGED <<fd, held, sockets>>

-----------------------------------------------------------------------------
(* Between two waits, and around them.                                     *)
SetServer(given) ==
  /\ pc = "idle"
  /\ master' = given
  /\ UNCHANGED <<thread, event, sockets, files, inputs>>

Destroy ==
  /\ pc = "idle"
  /\ pc' = "gone" /\ killEventFD' = -1 /\ signalled' = FALSE
  /\ UNCHANGED <<turn, forever, watched, members, files, inputs>>

Connect(s) ==
  /\ fd[s] = -1 /\ s \notin backlog
  /\ backlog' = backlog \cup {s}
  /\ UNCHANGED <<thread, event, members, files, ready>>

Arrive(whose) ==
  /\ whose \in held \cup {"stdin"}
  /\ ready' = ready \cup {whose}
  /\ UNCHANGED <<thread, event, members, files, backlog>>

Ended == pc \in {"thrown", "gone"} /\ UNCHANGED vars

WaitNext ==
  \/ BuildSet \/ MakeEvent \/ NoDescriptor
  \/ ReportKill \/ ReportStdin \/ ReportMaster \/ ReportNothing \/ ReadKill
  \/ SelectFails \/ ReadStdinFails
  \/ OnSTDIN \/ OnSocketServer
  \/ \E s \in Socks : ReportSocket(s) \/ OnSocket(s) \/ OnDisconnect(s) \/ OnReadError(s)

Next ==
  \/ WaitNext
  \/ Kill \/ Destroy \/ Ended
  \/ \E given \in BOOLEAN : SetServer(given)
  \/ \E s \in Socks : Connect(s)
  \/ \E whose \in Socks \cup {"stdin"} : Arrive(whose)

Spec == Init /\ [][Next]_vars

(* The thread that waits keeps doing so, as start()'s loop does.           *)
FairSpec == Spec /\ WF_vars(WaitNext)
-----------------------------------------------------------------------------
(* Properties.                                                             *)

(* What Server takes for granted: the handler that is called is that of    *)
(* standard input if there is input, else of the master if there is a      *)
(* connection, else of a socket that is registered, open and readable.     *)
(* wait() identifies sockets by their descriptors, and a socket that has   *)
(* failed stays registered: were its descriptor given to another, the      *)
(* event of the new one would go to the old.                               *)
ChoosesAsServer ==
  [][ pc = "select" /\ pc' = "handler" =>
        \/ turn' = "stdin" /\ "stdin" \in ready
        \/ turn' = "master" /\ "stdin" \notin ready /\ backlog # {}
        \/ /\ turn' \in sockets \cap ready /\ open[turn']
           /\ "stdin" \notin ready /\ (master => backlog = {}) ]_vars

(* Once another thread's kill() has returned, at most the handler that was *)
(* chosen before it runs: no other is chosen until the wait has ended.     *)
KillPreempts == [][ pc = "select" /\ pc' = "handler" => ~signalled ]_vars

(* A kill() that finds the eventfd ends a wait, also one without timeout   *)
(* on which nothing ever happens, unless an exception has ended it.        *)
KillWakes == signalled ~> ~signalled \/ pc = "thrown"
=============================================================================
