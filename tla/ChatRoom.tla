------------------------------ MODULE ChatRoom ------------------------------
(***************************************************************************)
(* What the server promises to the clients connected to it: there is one   *)
(* conversation, a name joins it at most once, and every connection is     *)
(* shown the conversation from the moment it was accepted, in order and    *)
(* without a gap.  Nothing is said of sockets, descriptors or select().    *)
(***************************************************************************)
EXTENDS Naturals, Sequences, Messages

CONSTANT Conns      \* the connections that may ever be made

VARIABLES
  log,              \* the conversation: every response, in order
  present,          \* the connections that have been accepted
  joined,           \* per connection: the length of log when it was accepted
  delivered         \* per connection: the responses handed to it so far

roomVars == <<log, present, joined, delivered>>

Users == { n \in Names : \E i \in DOMAIN log : log[i] = LoginResponse(n) }

RoomInit ==
  /\ log = <<>>
  /\ present = {}
  /\ joined = [c \in Conns |-> 0]
  /\ delivered = [c \in Conns |-> <<>>]

(* Mutant: a newcomer is shown what was said before it came.               *)
EnterWithPast(c) ==
  /\ c \notin present
  /\ present' = present \cup {c}
  /\ UNCHANGED <<log, joined, delivered>>

Enter(c) ==
  /\ c \notin present
  /\ present' = present \cup {c}
  /\ joined' = [joined EXCEPT ![c] = Len(log)]
  /\ UNCHANGED <<log, delivered>>

(* Somebody's request is answered; the answer is part of the conversation. *)
Publish(r) ==
  /\ log' = Append(log, r)
  /\ UNCHANGED <<present, joined, delivered>>

LogIn(n)  == n \notin Users /\ Publish(LoginResponse(n))

Refuse    == Users # {} /\ Publish(NameInUse)

Say(n, p) == Publish(MessageResponse(n, p))

Complain  == Publish(BadRequest)

(* A connection is handed the next response it has not been handed yet.    *)
Show(c) ==
  LET next == joined[c] + Len(delivered[c]) + 1
  IN  /\ c \in present
      /\ next <= Len(log)
      /\ delivered' = [delivered EXCEPT ![c] = Append(@, log[next])]
      /\ UNCHANGED <<log, present, joined>>

RoomNext ==
  \/ \E c \in Conns : Enter(c) \/ Show(c)
  \/ \E n \in Names : LogIn(n) \/ \E p \in Contents : Say(n, p)
  \/ Refuse
  \/ Complain

RoomSpec == RoomInit /\ [][RoomNext]_roomVars
=============================================================================
