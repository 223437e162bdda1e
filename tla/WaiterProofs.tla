---------------------------- MODULE WaiterProofs ----------------------------
(***************************************************************************)
(* flex_waiter::wait(), for any sockets and any number of descriptors:     *)
(* that it calls the handler of the one who is ready, though it knows      *)
(* sockets by their descriptors only, and that a kill() comes first.       *)
(***************************************************************************)
EXTENDS Waiter, TLAPS

(* A descriptor that is in use belongs to one socket, and to nobody else.  *)
DescriptorsDiffer ==
  /\ killEventFD \notin {STDIN_FILENO, MasterFd}
  /\ \A s \in held : fd[s] \notin {-1, STDIN_FILENO, MasterFd, killEventFD}
  /\ \A s, t \in held : fd[s] = fd[t] => s = t

(* What is registered may be read from: nobody closes it without removing  *)
(* it.                                                                     *)
RegisteredAreHeld == sockets \subseteq held

(* theSet, as the loop over the members has built it.                      *)
WatchedMembers ==
  {STDIN_FILENO} \cup (IF master THEN {MasterFd} ELSE {})
    \cup { fd[s] : s \in { s \in sockets : open[s] } }

(* Nobody changes the members while wait() runs, so that theSet is still   *)
(* what they say when select() returns.                                    *)
WatchesMembers ==
  /\ pc = "built" => watched = WatchedMembers
  /\ pc = "select" => killEventFD # -1 /\ watched = WatchedMembers \cup {killEventFD}
  /\ signalled => killEventFD # -1

WaiterInv == TypeOK /\ DescriptorsDiffer /\ RegisteredAreHeld /\ WatchesMembers

USE SocksAssumption, LimitAssumption DEF STDIN_FILENO, MasterFd

-----------------------------------------------------------------------------
LEMMA FreeDescriptors ==
  ASSUME TypeOK
  PROVE  /\ Free \subseteq Descriptors /\ Free \cap {-1, STDIN_FILENO, MasterFd, killEventFD} = {}
         /\ \A s \in held : fd[s] \notin Free
         /\ Descriptors \subseteq Int /\ {STDIN_FILENO, MasterFd} \subseteq Descriptors
BY DEF TypeOK, Free, Descriptors

LEMMA WaiterInitial == Init => WaiterInv
<1> SUFFICES ASSUME Init PROVE WaiterInv
  OBVIOUS
<1> USE DEF Init
<1>1. TypeOK
  <2>1. fd \in [Socks -> Descriptors \cup {-1}] /\ open \in [Socks -> BOOLEAN]
    OBVIOUS
  <2>2. watched \subseteq Descriptors /\ killEventFD \in Descriptors \cup {-1}
    OBVIOUS
  <2>3. forever \in BOOLEAN /\ signalled \in BOOLEAN /\ master \in BOOLEAN
    BY Zenon
  <2>4. /\ pc \in {"idle", "built", "select", "kill", "handler", "thrown", "gone"}
        /\ turn \in Socks \cup {"stdin", "master"}
        /\ sockets \subseteq Socks /\ held \subseteq Socks
        /\ backlog \subseteq Socks /\ ready \subseteq Socks \cup {"stdin"}
    OBVIOUS
  <2> QED BY <2>1, <2>2, <2>3, <2>4 DEF TypeOK
<1>2. DescriptorsDiffer
  BY DEF DescriptorsDiffer, Descriptors
<1>3. RegisteredAreHeld /\ WatchesMembers
  BY DEF RegisteredAreHeld, WatchesMembers
<1> QED BY <1>1, <1>2, <1>3 DEF WaiterInv

(* No step but a handler's touches the sockets or their descriptors.       *)
LEMMA FilesKept ==
  ASSUME DescriptorsDiffer, RegisteredAreHeld, UNCHANGED <<sockets, fd, held, killEventFD>>
  PROVE  DescriptorsDiffer' /\ RegisteredAreHeld'
BY DEF DescriptorsDiffer, RegisteredAreHeld

(* A handler runs, and leaves the wait.                                    *)
LEMMA HandlerLeaves ==
  ASSUME WatchesMembers, NEW whose, Handling(whose)
  PROVE  WatchesMembers' /\ pc' = "idle"
BY DEF WatchesMembers, Handling, event

-----------------------------------------------------------------------------
(* Every step.                                                             *)
LEMMA WaiterStep == WaiterInv /\ [Next]_vars => WaiterInv'
<1> SUFFICES ASSUME WaiterInv, [Next]_vars PROVE WaiterInv'
  OBVIOUS
<1> USE DEF WaiterInv
<1>f. /\ Free \subseteq Descriptors /\ Free \cap {-1, STDIN_FILENO, MasterFd, killEventFD} = {}
      /\ \A s \in held : fd[s] \notin Free
      /\ Descriptors \subseteq Int /\ {STDIN_FILENO, MasterFd} \subseteq Descriptors
  BY FreeDescriptors
<1>1. CASE BuildSet
  <2> USE <1>1 DEF BuildSet
  <2>1. WatchedMembers \subseteq Descriptors
    BY <1>f DEF WatchedMembers, TypeOK, RegisteredAreHeld, DescriptorsDiffer
  <2>2. TypeOK'
    BY <2>1 DEF TypeOK, WatchedMembers, event, members, files, inputs
  <2>3. WatchesMembers'
    BY DEF WatchesMembers, WatchedMembers, event, members, files
  <2> QED BY <2>2, <2>3, FilesKept DEF event, members, files
<1>2. CASE MakeEvent
  <2> USE <1>2 DEF MakeEvent
  <2>1. killEventFD' \in Descriptors /\ killEventFD' \notin {-1, STDIN_FILENO, MasterFd}
    BY <1>f DEF TypeOK, DescriptorsDiffer
  <2>2. TypeOK'
    BY <2>1 DEF TypeOK, members, files, inputs
  <2>3. \A s \in held : fd[s] # killEventFD'
    BY <1>f DEF DescriptorsDiffer
  <2>4. DescriptorsDiffer' /\ RegisteredAreHeld'
    BY <2>1, <2>3 DEF DescriptorsDiffer, RegisteredAreHeld, members, files
  <2>5. WatchesMembers'
    BY <2>1 DEF WatchesMembers, WatchedMembers, members, files
  <2> QED BY <2>2, <2>4, <2>5
<1>3. CASE NoDescriptor
  BY <1>3, FilesKept DEF NoDescriptor, TypeOK, WatchesMembers, event, members, files, inputs
<1>4. CASE ReportKill
  BY <1>4, FilesKept DEF ReportKill, TypeOK, WatchesMembers, event, members, files, inputs
<1>5. ASSUME NEW whose \in Socks \cup {"stdin", "master"}, Handle(whose)
      PROVE  WaiterInv'
  BY <1>5, FilesKept DEF Handle, TypeOK, WatchesMembers, event, members, files, inputs
<1>6. CASE ReportNothing
  BY <1>6, FilesKept DEF ReportNothing, TypeOK, WatchesMembers, event, members, files, inputs
<1>21. CASE SelectFails \/ ReadStdinFails
  BY <1>21, FilesKept DEF SelectFails, ReadStdinFails, TypeOK, WatchesMembers, event, members,
     files, inputs
<1>7. CASE ReadKill
  BY <1>7, FilesKept DEF ReadKill, TypeOK, WatchesMembers, members, files, inputs
<1>8. CASE OnSTDIN
  <2> USE <1>8 DEF OnSTDIN
  <2>1. PICK gone \in SUBSET sockets :
          /\ RemoveSockets(gone)
          /\ open' = [s \in Socks |-> open[s] /\ s \notin gone]
          /\ held' = held \ { s \in gone : open[s] }
    OBVIOUS
  <2>2. TypeOK'
    BY <2>1 DEF TypeOK, RemoveSockets, Handling, Reads, event
  <2>3. DescriptorsDiffer' /\ RegisteredAreHeld'
    BY <2>1 DEF DescriptorsDiffer, RegisteredAreHeld, RemoveSockets, Handling, event
  <2> QED BY <2>2, <2>3, HandlerLeaves
<1>9. CASE OnSocketServer
  <2> USE <1>9 DEF OnSocketServer
  <2>1. PICK s \in backlog, new \in Free :
          /\ backlog' = backlog \ {s}
          /\ fd' = [fd EXCEPT ![s] = new]
          /\ open' = [open EXCEPT ![s] = TRUE]
          /\ held' = held \cup {s}
          /\ AddSocket(s)
    OBVIOUS
  <2>2. s \in Socks /\ new \in Descriptors
    BY <1>f DEF TypeOK
  <2>3. TypeOK'
    BY <2>1, <2>2 DEF TypeOK, AddSocket, Handling, event
  <2>4. \A t \in held' : fd'[t] = IF t = s THEN new ELSE fd[t]
    BY <2>1, <2>2 DEF TypeOK
  <2>5. DescriptorsDiffer'
    BY <2>1, <2>4, <1>f DEF DescriptorsDiffer, Handling, event
  <2>6. RegisteredAreHeld'
    BY <2>1 DEF RegisteredAreHeld, AddSocket
  <2> QED BY <2>3, <2>5, <2>6, HandlerLeaves
<1>10. ASSUME NEW s \in Socks, OnSocket(s)
       PROVE  WaiterInv'
  <2> USE <1>10 DEF OnSocket
  <2>1. TypeOK'
    BY DEF TypeOK, Handling, Reads, event, files
  <2> QED BY <2>1, HandlerLeaves, FilesKept DEF Handling, event, files
<1>11. ASSUME NEW s \in Socks, OnDisconnect(s)
       PROVE  WaiterInv'
  <2> USE <1>11 DEF OnDisconnect
  <2>1. TypeOK'
    BY DEF TypeOK, RemoveSockets, Handling, Reads, event
  <2>2. DescriptorsDiffer' /\ RegisteredAreHeld'
    BY DEF DescriptorsDiffer, RegisteredAreHeld, RemoveSockets, Handling, event
  <2> QED BY <2>1, <2>2, HandlerLeaves
<1>12. ASSUME NEW s \in Socks, OnReadError(s)
       PROVE  WaiterInv'
  <2> USE <1>12 DEF OnReadError
  <2>1. TypeOK'
    BY DEF TypeOK, Handling, Reads, event
  <2> QED BY <2>1, HandlerLeaves, FilesKept DEF Handling, event
<1>13. CASE Kill
  <2> USE <1>13 DEF Kill
  <2>1. TypeOK'
    BY DEF TypeOK, thread, members, files, inputs
  <2>2. WatchesMembers'
    BY DEF WatchesMembers, WatchedMembers, thread, members, files
  <2> QED BY <2>1, <2>2, FilesKept DEF members, files
<1>14. ASSUME NEW given \in BOOLEAN, SetServer(given)
       PROVE  WaiterInv'
  BY <1>14, FilesKept DEF SetServer, TypeOK, WatchesMembers, thread, event, files, inputs
<1>15. CASE Destroy
  <2> USE <1>15 DEF Destroy
  <2>1. TypeOK'
    BY DEF TypeOK, members, files, inputs
  <2>2. DescriptorsDiffer' /\ RegisteredAreHeld' /\ WatchesMembers'
    BY DEF DescriptorsDiffer, RegisteredAreHeld, WatchesMembers, members, files
  <2> QED BY <2>1, <2>2
<1>16. ASSUME UNCHANGED <<thread, event, members, files>>,
              backlog' \subseteq Socks, ready' \subseteq Socks \cup {"stdin"}
       PROVE  WaiterInv'
  <2>1. TypeOK'
    BY <1>16 DEF TypeOK, thread, event, members, files
  <2>2. WatchesMembers'
    BY <1>16 DEF WatchesMembers, WatchedMembers, thread, event, members, files
  <2> QED BY <1>16, <2>1, <2>2, FilesKept DEF event, members, files
<1>17. ASSUME NEW s \in Socks, Connect(s)
       PROVE  WaiterInv'
  BY <1>16, <1>17 DEF Connect, TypeOK
<1>18. ASSUME NEW whose \in Socks \cup {"stdin"}, Arrive(whose)
       PROVE  WaiterInv'
  BY <1>16, <1>18 DEF Arrive, TypeOK
<1>19. CASE UNCHANGED vars
  BY <1>16, <1>19 DEF vars, inputs, TypeOK
<1>20. CASE WaitNext
  BY <1>20, <1>1, <1>2, <1>3, <1>4, <1>5, <1>6, <1>7, <1>8, <1>9, <1>10, <1>11, <1>12, <1>21
  DEF WaitNext, ReportStdin, ReportMaster, ReportSocket
<1> QED BY <1>13, <1>14, <1>15, <1>17, <1>18, <1>19, <1>20 DEF Next, Ended

LEMMA WaiterInvariant == Spec => []WaiterInv
<1> QED BY WaiterInitial, WaiterStep, PTL DEF Spec

-----------------------------------------------------------------------------
(* The types of wait()'s variables; in particular it never waits on an     *)
(* eventfd that could not be made.                                         *)
THEOREM TypeCorrect == Spec => []TypeOK
<1> QED BY WaiterInvariant, PTL DEF WaiterInv

(* Who owns a descriptor that select() reports.                            *)
LEMMA ReportedIsReady ==
  ASSUME WaiterInv, pc = "select"
  PROVE  /\ STDIN_FILENO \in Reported <=> "stdin" \in ready
         /\ MasterFd \in Reported <=> master /\ backlog # {}
         /\ signalled => killEventFD \in Reported
         /\ \A s \in sockets :
              fd[s] \in Reported => s \in ready /\ open[s]
<1> USE DEF WaiterInv, WatchesMembers, WatchedMembers, DescriptorsDiffer, Reported, ReadyFds
<1>1. \A s \in sockets : s \in held /\ fd[s] \notin {STDIN_FILENO, MasterFd, killEventFD}
  BY DEF RegisteredAreHeld
<1>2. STDIN_FILENO \in Reported <=> "stdin" \in ready
  BY <1>1
<1>3. MasterFd \in Reported <=> master /\ backlog # {}
  BY <1>1
<1>4. signalled => killEventFD \in Reported
  OBVIOUS
<1>5. ASSUME NEW s \in sockets, fd[s] \in Reported
      PROVE  s \in ready /\ open[s]
  <2>1. PICK t \in held \cap ready : fd[s] = fd[t]
    BY <1>1, <1>5
  <2>2. PICK u \in sockets : open[u] /\ fd[s] = fd[u]
    BY <1>1, <1>5
  <2> QED BY <1>1, <2>1, <2>2
<1> QED BY <1>2, <1>3, <1>4, <1>5

(* A handler is called by one of the three branches of wait().             *)
LEMMA WhoCalls ==
  ASSUME [Next]_vars, pc = "select", pc' = "handler"
  PROVE  \/ ReportStdin \/ ReportMaster \/ \E s \in Socks : ReportSocket(s)
BY DEF Next, WaitNext, BuildSet, MakeEvent, NoDescriptor, ReportKill, ReportNothing, ReadKill,
   SelectFails, ReadStdinFails, OnSTDIN, OnSocketServer, OnSocket, OnDisconnect, OnReadError, Handling, Kill, Destroy,
   Ended, SetServer, Connect, Arrive, vars, thread

(* The handler that wait() calls is that of standard input, of the master  *)
(* or of a registered, open socket, in this order, and of one that can be  *)
(* read from: no descriptor is ever taken for another's.                   *)
THEOREM HandlersAreCalledRight == Spec => ChoosesAsServer
<1>1. WaiterInv /\ [Next]_vars =>
        [ pc = "select" /\ pc' = "handler" =>
            \/ turn' = "stdin" /\ "stdin" \in ready
            \/ turn' = "master" /\ "stdin" \notin ready /\ backlog # {}
            \/ /\ turn' \in sockets \cap ready /\ open[turn']
               /\ "stdin" \notin ready /\ (master => backlog = {}) ]_vars
  <2> SUFFICES ASSUME WaiterInv, [Next]_vars, pc = "select", pc' = "handler"
               PROVE  \/ turn' = "stdin" /\ "stdin" \in ready
                      \/ turn' = "master" /\ "stdin" \notin ready /\ backlog # {}
                      \/ /\ turn' \in sockets \cap ready /\ open[turn']
                         /\ "stdin" \notin ready /\ (master => backlog = {})
    OBVIOUS
  <2>1. CASE ReportStdin
    BY <2>1, ReportedIsReady DEF ReportStdin, Handle
  <2>2. CASE ReportMaster
    BY <2>2, ReportedIsReady DEF ReportMaster, Handle
  <2>3. ASSUME NEW s \in Socks, ReportSocket(s)
        PROVE  /\ turn' \in sockets \cap ready /\ open[turn']
               /\ "stdin" \notin ready /\ (master => backlog = {})
    BY <2>3, ReportedIsReady DEF ReportSocket, Handle
  <2> QED BY <2>1, <2>2, <2>3, WhoCalls
<1> QED BY <1>1, WaiterInvariant, PTL DEF Spec, ChoosesAsServer

(* After kill() no handler is chosen before the wait has ended.            *)
THEOREM KillComesFirst == Spec => KillPreempts
<1>1. WaiterInv /\ [Next]_vars => [pc = "select" /\ pc' = "handler" => ~signalled]_vars
  <2> SUFFICES ASSUME WaiterInv, [Next]_vars, pc = "select", pc' = "handler"
               PROVE  ~signalled
    OBVIOUS
  <2>1. killEventFD \notin Reported
    BY WhoCalls DEF ReportStdin, ReportMaster, ReportSocket
  <2> QED BY <2>1, ReportedIsReady
<1> QED BY <1>1, WaiterInvariant, PTL DEF Spec, KillPreempts
=============================================================================
