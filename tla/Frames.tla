------------------------------- MODULE Frames -------------------------------
(***************************************************************************)
(* How the requests that have arrived on a connection become one request   *)
(* to visit.  socket::read takes whatever one recv() returns; json::from   *)
(* drops what follows its last newline, and read_json then accepts exactly *)
(* one JSON value with white space around it, or throws.  Which bytes one  *)
(* recv() returns depends on lengths and on the network and is left open;  *)
(* Framing.tla goes down to the bytes.                                     *)
(***************************************************************************)
EXTENDS Naturals, Sequences, Messages

(* What may be left, in front of a queue of requests, of one that an       *)
(* earlier recv() cut: a part without its beginning, or only its newline.  *)
Fragment == [type |-> "fragment"]
Newline  == [type |-> "newline"]
Leftover == {Fragment, Newline}

(* A newline in front is white space to read_json.                         *)
Lead(queue) == IF queue # <<>> /\ Head(queue) = Newline THEN Tail(queue) ELSE queue

(* Mutant: what recv() took beyond the first request is forgotten.         *)
RestForgotten(queue) == { [rest |-> <<>>, torn |-> 0] }

(* What recv() may leave of the requests behind the one that is visited:   *)
(* all of them, or all but the beginning of the first, which is dropped.   *)
Remains(queue) ==
  { [rest |-> queue, torn |-> 0] }
    \cup IF queue = <<>> THEN {}
         ELSE { [rest |-> <<part>> \o Tail(queue), torn |-> 1] : part \in Leftover }

(* The request at the head is read, newline and all.                       *)
ReadWhole(q) ==
  { [request |-> Head(q), rest |-> left.rest, torn |-> left.torn, part |-> 0]
      : left \in Remains(Tail(q)) }

(* It fills the buffer to the last byte.                                   *)
ReadFull(q) == { [request |-> Head(q), rest |-> Tail(q), torn |-> 0, part |-> 0] }

(* All of it is read but the newline.  A newline in front of it would be   *)
(* the last one then, behind which json::from drops everything.            *)
ReadShort(q) ==
  { [request |-> Head(q), rest |-> <<Newline>> \o Tail(q), torn |-> 0, part |-> 0] }

(* A recv() inside a torn request may return just a value that is part of  *)
(* it, such as the object that is nested in every request.  read_json      *)
(* accepts that, and the visitor answers that it has no tags.              *)
ReadPart(q) == { [request |-> Untagged, rest |-> q, torn |-> 0, part |-> 1] }

(* The ways to read a request from a queue.  Its newline stays behind only *)
(* when it comes in pieces, or when it alone exceeds the buffer.           *)
Readings(queue, pieces) ==
  LET q == Lead(queue)
  IN  IF q = <<>> \/ Head(q) = Newline THEN {}
      ELSE IF Head(q) = Fragment THEN ReadPart(q)
      ELSE (IF FitsBuffer(Head(q)) THEN ReadWhole(q) ELSE ReadFull(q))
           \cup (IF q = queue /\ (pieces \/ ~FitsBuffer(Head(q))) THEN ReadShort(q) ELSE {})

(* When what one recv() takes of a queue may be no JSON value, or none     *)
(* that fromJson accepts: it begins with a leftover, does not fit, holds   *)
(* more than one request, or lacks a property; or requests come in pieces, *)
(* or the buffer held something before.                                    *)
MayThrow(queue, trouble) ==
  /\ queue # <<>>
  /\ \/ Head(queue) \in Leftover
     \/ ~FitsBuffer(Head(queue))
     \/ Len(queue) > 1
     \/ \E reading \in Readings(queue, "split" \in trouble) : reading.request = Incomplete
     \/ {"split", "stale"} \cap trouble # {}

(* The buffer is not cleared.  What an earlier recv() left in it may       *)
(* complete a piece of a request to one that nobody sent, and repeat an    *)
(* earlier request when a newline alone arrives, which a client that waits *)
(* for its answers never brings about; so what follows is said of stale    *)
(* bytes only without these two.                                           *)
Foreseen(trouble) == "stale" \in trouble => trouble \cap {"pipeline", "split"} = {}

(* When a client may send: one that waits for its answers only after what  *)
(* it sent has been read.                                                  *)
MayFollow(queue, trouble) == queue \in {<<>>, <<Newline>>} \/ "pipeline" \in trouble

(* The requests of a queue that are still whole.                           *)
Whole(queue) ==
  IF queue # <<>> /\ Head(queue) \in Leftover THEN Len(queue) - 1 ELSE Len(queue)
=============================================================================
