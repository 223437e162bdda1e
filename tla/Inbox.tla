------------------------------- MODULE Inbox --------------------------------
(***************************************************************************)
(* One connection as Server sees it: a queue of requests, each of which is *)
(* read whole or, once its beginning was dropped, in parts that were never *)
(* meant as requests, until one read throws and ends the process.  Framing *)
(* shows that the bytes behind it behave so.                               *)
(***************************************************************************)
EXTENDS Frames

CONSTANT
  Sends      \* the requests clients send

VARIABLES
  trouble,   \* as in Server: "pipeline", "split", "stale"; it does not change
  inbox,     \* the requests sent and not read yet
  answered,  \* the requests read, and the parts taken for one, in order
  torn,      \* the requests whose beginning was dropped unread
  up         \* whether the process still runs

inboxVars == <<trouble, inbox, answered, torn, up>>

InboxInit == inbox = <<>> /\ answered = <<>> /\ torn = 0 /\ up = TRUE

Arrive(request) ==
  /\ up /\ MayFollow(inbox, trouble)
  /\ inbox' = Append(inbox, request)
  /\ UNCHANGED <<trouble, answered, torn, up>>

Answer ==
  /\ up
  /\ \E reading \in Readings(inbox, "split" \in trouble) :
       /\ reading.request # Incomplete
       /\ inbox' = reading.rest
       /\ torn' = torn + reading.torn
       /\ answered' = Append(answered, reading.request)
  /\ UNCHANGED <<trouble, up>>

(* What an aborted process had not read is of no interest any more.        *)
Throw ==
  /\ up /\ MayThrow(inbox, trouble)
  /\ up' = FALSE
  /\ inbox' = <<>> /\ torn' = 0
  /\ UNCHANGED <<trouble, answered>>

InboxNext == Answer \/ Throw \/ \E request \in Sends : Arrive(request)

InboxSpec == InboxInit /\ [][InboxNext]_inboxVars
=============================================================================
