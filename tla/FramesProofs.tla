---------------------------- MODULE FramesProofs ----------------------------
(***************************************************************************)
(* What a reading does to a queue of requests, for queues of any length.   *)
(***************************************************************************)
EXTENDS Frames, SequenceTheorems, TLAPS

(* Leftovers appear at the head of a queue only.                           *)
Proper(queue) == \A i \in 2..Len(queue) : queue[i] \notin Leftover

LEMMA TailElements ==
  ASSUME NEW T, NEW s \in Seq(T), s # <<>>
  PROVE  /\ Tail(s) \in Seq(T) /\ Head(s) = s[1] /\ Head(s) \in T
         /\ Len(s) \in Nat \ {0} /\ Len(Tail(s)) = Len(s) - 1
         /\ \A i \in 1..(Len(s) - 1) : Tail(s)[i] = s[i + 1]
BY HeadTailProperties, LenProperties

LEMMA ConsElements ==
  ASSUME NEW T, NEW s \in Seq(T), NEW e \in T
  PROVE  /\ <<e>> \o s \in Seq(T) /\ <<e>> \o s # <<>>
         /\ Len(<<e>> \o s) = Len(s) + 1
         /\ Head(<<e>> \o s) = e
         /\ \A i \in 2..(Len(s) + 1) : (<<e>> \o s)[i] = s[i - 1]
<1>1. <<e>> \in Seq(T) /\ Len(<<e>>) = 1 /\ <<e>>[1] = e /\ Len(s) \in Nat
  BY LenProperties
<1> DEFINE t == <<e>> \o s
<1>2. /\ t \in Seq(T) /\ Len(t) = Len(s) + 1
      /\ \A i \in 1..Len(t) : t[i] = IF i <= 1 THEN e ELSE s[i - 1]
  BY <1>1, ConcatProperties
<1>3. t # <<>> /\ Head(t) = t[1]
  BY <1>1, <1>2
<1> HIDE DEF t
<1>4. t[1] = e /\ \A i \in 2..(Len(s) + 1) : t[i] = s[i - 1]
  BY <1>1, <1>2
<1> QED BY <1>2, <1>3, <1>4 DEF t

LEMMA WholeOfProper ==
  ASSUME NEW T, NEW s \in Seq(T), s = <<>> \/ Head(s) \notin Leftover
  PROVE  Whole(s) = Len(s)
BY DEF Whole

(* A part of a torn request is read: the queue stays as it is.             *)
LEMMA PartAccount ==
  ASSUME NEW T, NEW q \in Seq(T), NEW pieces, NEW reading \in Readings(q, pieces),
         Head(Lead(q)) = Fragment
  PROVE  /\ q # <<>> /\ reading.request = Untagged /\ reading.torn = 0 /\ reading.part = 1
         /\ reading.rest \in Seq(T)
         /\ Proper(q) => reading.rest = q /\ Head(q) = Fragment
<1>1. Fragment # Newline /\ Fragment \in Leftover
  BY DEF Fragment, Newline, Leftover
<1>2. /\ q # <<>> /\ Lead(q) # <<>>
      /\ \/ Lead(q) = q
         \/ Lead(q) = Tail(q) /\ Head(q) = Newline
  BY DEF Readings, Lead
<1>3. reading = [request |-> Untagged, rest |-> Lead(q), torn |-> 0, part |-> 1]
  BY <1>1, <1>2 DEF Readings, ReadPart
<1>4. /\ Tail(q) \in Seq(T) /\ Len(q) \in Nat \ {0} /\ Len(Tail(q)) = Len(q) - 1
      /\ \A i \in 1..(Len(q) - 1) : Tail(q)[i] = q[i + 1]
  BY <1>2, TailElements
<1>5. ASSUME Proper(q), Lead(q) = Tail(q) PROVE FALSE
  <2>1. Head(Tail(q)) = Tail(q)[1] /\ Len(Tail(q)) \in Nat \ {0}
    BY <1>2, <1>4, <1>5, TailElements
  <2>2. Head(Tail(q)) = q[2] /\ 2 \in 2..Len(q)
    BY <1>4, <2>1
  <2> QED BY <1>1, <1>5, <2>2 DEF Proper
<1> QED BY <1>2, <1>3, <1>4, <1>5

(* Every request of the queue is still whole in what is left of it, or the *)
(* one that is visited, or counted as torn; or what is visited is a part.  *)
AccountsFor(S, q, reading) ==
  /\ q # <<>>
  /\ reading.rest \in Seq(S \cup Leftover)
  /\ reading.torn \in {0, 1} /\ reading.part \in {0, 1}
  /\ reading.part = 0 => reading.request \in S
  /\ reading.part = 1 => reading.request = Untagged /\ reading.torn = 0
  /\ Proper(q) =>
       /\ Proper(reading.rest)
       /\ reading.part = 1 => reading.rest = q /\ Head(q) = Fragment
       /\ reading.rest # <<>> /\ Head(reading.rest) = Fragment
            => reading.torn + reading.part = 1
       /\ Whole(reading.rest) + reading.torn = Whole(q) - 1 + reading.part

(* A reading takes one whole request from a queue, and what is left has    *)
(* one whole request less, or two less, one of which was torn; or it takes *)
(* a part of a request torn before, and everything is left as it was, with *)
(* a request visited that has no tags and that nobody sent (socket::read   *)
(* with json::from and the request visitor).                               *)
THEOREM ReadingsAccount ==
  ASSUME NEW S, S \cap Leftover = {}, NEW q \in Seq(S \cup Leftover),
         NEW pieces, NEW reading \in Readings(q, pieces)
  PROVE  AccountsFor(S, q, reading)
<1>a. CASE Head(Lead(q)) = Fragment
  <2>1. /\ q # <<>> /\ reading.request = Untagged /\ reading.torn = 0 /\ reading.part = 1
        /\ reading.rest \in Seq(S \cup Leftover)
        /\ Proper(q) => reading.rest = q /\ Head(q) = Fragment
    BY <1>a, PartAccount
  <2>2. Whole(q) \in Int
    <3>1. Len(q) \in Nat
      BY LenProperties
    <3> QED BY <3>1 DEF Whole
  <2> QED BY <2>1, <2>2 DEF AccountsFor
<1>b. SUFFICES ASSUME Head(Lead(q)) # Fragment
      PROVE  /\ q # <<>>
             /\ reading.request \in S /\ reading.part = 0
             /\ reading.rest \in Seq(S \cup Leftover) /\ reading.torn \in {0, 1}
             /\ Proper(q) => /\ Proper(reading.rest)
                             /\ Whole(reading.rest) + reading.torn = Whole(q) - 1
                             /\ reading.rest # <<>> /\ Head(reading.rest) = Fragment
                                  => reading.torn = 1
  <2>1. CASE Head(Lead(q)) # Fragment
    <3>1. Len(q) \in Nat
      BY LenProperties
    <3>2. Whole(q) \in Int
      BY <3>1 DEF Whole
    <3> QED BY <2>1, <3>2 DEF AccountsFor
  <2> QED BY <1>a, <2>1
<1> DEFINE T == S \cup Leftover
           h == Lead(q)
           t == Tail(h)
<1>1. Fragment \in T /\ Newline \in T /\ Fragment \in Leftover /\ Newline \in Leftover
  BY DEF Leftover
<1>2. /\ q # <<>> /\ h # <<>> /\ Head(h) \notin Leftover
      /\ \/ h = q
         \/ h = Tail(q) /\ Head(q) \in Leftover
  BY <1>1, <1>b DEF Readings, Lead, Leftover
<1>3. /\ Tail(q) \in Seq(T) /\ Len(q) \in Nat \ {0} /\ Len(Tail(q)) = Len(q) - 1
      /\ \A i \in 1..(Len(q) - 1) : Tail(q)[i] = q[i + 1]
  BY <1>2, TailElements
<1>4. h \in Seq(T)
  BY <1>2, <1>3
<1>5. /\ t \in Seq(T) /\ Head(h) = h[1] /\ Head(h) \in T
      /\ Len(h) \in Nat \ {0} /\ Len(t) = Len(h) - 1
      /\ \A i \in 1..(Len(h) - 1) : t[i] = h[i + 1]
  BY <1>2, <1>4, TailElements
<1>6. /\ \/ reading.rest = t /\ reading.torn = 0
         \/ t # <<>> /\ \E part \in Leftover :
              reading.rest = <<part>> \o Tail(t) /\ reading.torn = 1
         \/ reading.rest = <<Newline>> \o t /\ reading.torn = 0
      /\ reading.request = Head(h) /\ reading.part = 0
  <2>1. reading \in ReadWhole(h) \/ reading \in ReadFull(h) \/ reading \in ReadShort(h)
    BY <1>2, <1>b DEF Readings
  <2>2. CASE reading \in ReadWhole(h)
    <3>1. PICK left \in Remains(t) :
            reading = [request |-> Head(h), rest |-> left.rest, torn |-> left.torn,
                       part |-> 0]
      BY <2>2 DEF ReadWhole
    <3> HIDE DEF t, h
    <3>2. CASE left = [rest |-> t, torn |-> 0]
      <4>1. left.rest = t /\ left.torn = 0
        BY <3>2
      <4> QED BY <3>1, <4>1
    <3>3. CASE left # [rest |-> t, torn |-> 0]
      <4>1. /\ t # <<>>
            /\ \E part \in Leftover : left = [rest |-> <<part>> \o Tail(t), torn |-> 1]
        BY <3>1, <3>3 DEF Remains
      <4>2. PICK part \in Leftover : left = [rest |-> <<part>> \o Tail(t), torn |-> 1]
        BY <4>1
      <4>3. left.rest = <<part>> \o Tail(t) /\ left.torn = 1
        BY <4>2
      <4> QED BY <3>1, <4>1, <4>3
    <3> QED BY <3>2, <3>3
  <2>3. CASE reading \in ReadShort(h)
    BY <2>3 DEF ReadShort
  <2>4. CASE reading \in ReadFull(h)
    BY <2>4 DEF ReadFull
  <2> QED BY <2>1, <2>2, <2>3, <2>4
<1>7. reading.request = Head(h) /\ reading.part = 0
  BY <1>6
<1>8. ASSUME Proper(q)
      PROVE  /\ Whole(q) = Len(h)
             /\ \A i \in 1..Len(t) : t[i] \notin Leftover
  <2>1. CASE h = q
    <3>1. \A i \in 1..Len(t) : t[i] = q[i + 1] /\ i + 1 \in 2..Len(q)
      BY <1>5, <2>1
    <3> QED BY <1>2, <1>8, <2>1, <3>1 DEF Proper, Whole
  <2>2. CASE h = Tail(q) /\ Head(q) \in Leftover
    <3>1. Whole(q) = Len(h)
      BY <1>2, <1>3, <2>2 DEF Whole
    <3>2. \A i \in 1..Len(t) : t[i] = q[i + 2] /\ i + 2 \in 2..Len(q)
      BY <1>3, <1>5, <2>2
    <3> QED BY <1>8, <3>1, <3>2 DEF Proper
  <2> QED BY <1>2, <2>1, <2>2
<1> HIDE DEF t, h
<1>9. CASE reading.rest = t /\ reading.torn = 0
  <2>1. ASSUME Proper(q)
        PROVE  Whole(t) = Len(h) - 1 /\ Proper(t) /\ (t # <<>> => Head(t) # Fragment)
    <3>1. \A i \in 1..Len(t) : t[i] \notin Leftover
      BY <1>8, <2>1
    <3>2. t = <<>> \/ Head(t) \notin Leftover
      BY <1>5, <3>1, TailElements
    <3>3. Proper(t)
      BY <1>5, <3>1 DEF Proper
    <3> QED BY <1>1, <1>5, <3>2, <3>3, WholeOfProper
  <2> QED BY <1>2, <1>5, <1>7, <1>8, <1>9, <2>1
<1>10. CASE t # <<>> /\ \E part \in Leftover :
              reading.rest = <<part>> \o Tail(t) /\ reading.torn = 1
  <2>1. PICK part \in Leftover : reading.rest = <<part>> \o Tail(t)
    BY <1>10
  <2>2. /\ Tail(t) \in Seq(T) /\ Len(Tail(t)) = Len(t) - 1 /\ Len(t) \in Nat \ {0}
        /\ \A i \in 1..(Len(t) - 1) : Tail(t)[i] = t[i + 1]
    BY <1>5, <1>10, TailElements
  <2>3. /\ reading.rest \in Seq(T) /\ reading.rest # <<>>
        /\ Len(reading.rest) = Len(t) /\ Head(reading.rest) = part
        /\ \A i \in 2..Len(t) : reading.rest[i] = Tail(t)[i - 1]
    BY <2>1, <2>2, ConsElements
  <2>4. Whole(reading.rest) = Len(t) - 1
    BY <2>3 DEF Whole
  <2>5. ASSUME Proper(q) PROVE Proper(reading.rest)
    <3>1. \A i \in 2..Len(t) : reading.rest[i] = t[i]
      BY <2>2, <2>3
    <3> QED BY <1>8, <2>3, <2>5, <3>1 DEF Proper
  <2> QED BY <1>2, <1>5, <1>7, <1>8, <1>10, <2>2, <2>3, <2>4, <2>5
<1>11. CASE reading.rest = <<Newline>> \o t /\ reading.torn = 0
  <2>1. /\ reading.rest \in Seq(T) /\ reading.rest # <<>>
        /\ Len(reading.rest) = Len(t) + 1 /\ Head(reading.rest) = Newline
        /\ \A i \in 2..(Len(t) + 1) : reading.rest[i] = t[i - 1]
    BY <1>1, <1>5, <1>11, ConsElements
  <2>2. Whole(reading.rest) = Len(t)
    BY <1>1, <1>5, <2>1 DEF Whole
  <2>3. ASSUME Proper(q) PROVE Proper(reading.rest)
    <3>1. \A i \in 2..Len(reading.rest) : reading.rest[i] = t[i - 1] /\ i - 1 \in 1..Len(t)
      BY <1>5, <2>1
    <3> QED BY <1>8, <2>3, <3>1 DEF Proper
  <2>4. ASSUME Proper(q) PROVE Whole(reading.rest) + reading.torn = Whole(q) - 1
    BY <1>5, <1>8, <1>11, <2>2, <2>4
  <2>5. reading.request \in S /\ reading.part = 0
    BY <1>2, <1>5, <1>7
  <2>6. Head(reading.rest) # Fragment
    BY <2>1 DEF Newline, Fragment
  <2> QED BY <1>2, <1>11, <2>1, <2>3, <2>4, <2>5, <2>6
<1> QED BY <1>6, <1>9, <1>10, <1>11
=============================================================================
