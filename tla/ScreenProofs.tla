---------------------------- MODULE ScreenProofs ----------------------------
(***************************************************************************)
(* What the user reads: the rows that Client puts on the screen or posts   *)
(* for it, proved to be the conversation as it was received.               *)
(***************************************************************************)
EXTENDS ClientProofs, FunctionTheorems, FiniteSetTheorems

-----------------------------------------------------------------------------
(* The rows in a queue of runnables, and how many there are up to one.     *)
RowsIn(q)  == { i \in DOMAIN q : q[i].run = "row" }
Rank(q, i) == Cardinality({ j \in RowsIn(q) : j <= i })

LEMMA RowsFinite ==
  ASSUME NEW q \in Seq(Runnable)
  PROVE  /\ IsFiniteSet(RowsIn(q)) /\ Cardinality(RowsIn(q)) \in Nat
         /\ \A i : IsFiniteSet({ j \in RowsIn(q) : j <= i }) /\ Rank(q, i) \in Nat
<1>1. DOMAIN q = 1..Len(q) /\ Len(q) \in Nat
  BY LenProperties
<1>2. IsFiniteSet(1..Len(q))
  BY <1>1, FS_Interval
<1>3. RowsIn(q) \in SUBSET (1..Len(q))
  BY <1>1 DEF RowsIn
<1>4. IsFiniteSet(RowsIn(q)) /\ Cardinality(RowsIn(q)) \in Nat
  BY <1>2, <1>3, FS_Subset, FS_CardinalityType
<1>5. ASSUME NEW i PROVE IsFiniteSet({ j \in RowsIn(q) : j <= i }) /\ Rank(q, i) \in Nat
  <2>1. { j \in RowsIn(q) : j <= i } \in SUBSET RowsIn(q)
    OBVIOUS
  <2> QED BY <1>4, <2>1, FS_Subset, FS_CardinalityType DEF Rank
<1> QED BY <1>4, <1>5

(* A row has a number from 1 to the number of rows.                        *)
LEMMA RankBounds ==
  ASSUME NEW q \in Seq(Runnable), NEW i \in RowsIn(q)
  PROVE  1 <= Rank(q, i) /\ Rank(q, i) <= Cardinality(RowsIn(q))
<1> DEFINE S == { j \in RowsIn(q) : j <= i }
<1>1. IsFiniteSet(RowsIn(q)) /\ IsFiniteSet(S) /\ Cardinality(S) \in Nat
  BY RowsFinite DEF Rank
<1>2. S \in SUBSET RowsIn(q)
  OBVIOUS
<1>3. i \in S
  <2>1. i \in Nat
    BY LenProperties DEF RowsIn
  <2> QED BY <2>1
<1> HIDE DEF S
<1>4. Cardinality(S) <= Cardinality(RowsIn(q))
  BY <1>1, <1>2, FS_Subset
<1>5. Cardinality(S) # 0
  BY <1>1, <1>3, FS_EmptySet
<1> QED BY <1>1, <1>4, <1>5 DEF S, Rank

LEMMA AppendOther ==
  ASSUME NEW q \in Seq(Runnable), NEW e \in Runnable, e.run # "row"
  PROVE  /\ RowsIn(Append(q, e)) = RowsIn(q)
         /\ \A i \in RowsIn(q) :
              Append(q, e)[i] = q[i] /\ Rank(Append(q, e), i) = Rank(q, i)
<1>1. /\ DOMAIN q = 1..Len(q) /\ Len(q) \in Nat
      /\ DOMAIN Append(q, e) = 1..(Len(q) + 1)
      /\ \A i \in 1..Len(q) : Append(q, e)[i] = q[i]
      /\ Append(q, e)[Len(q) + 1] = e
  BY AppendProperties
<1>2. RowsIn(Append(q, e)) = RowsIn(q)
  BY <1>1 DEF RowsIn
<1>3. \A i \in RowsIn(q) : Append(q, e)[i] = q[i]
  BY <1>1 DEF RowsIn
<1> QED BY <1>2, <1>3 DEF Rank

LEMMA AppendRow ==
  ASSUME NEW q \in Seq(Runnable), NEW e \in Runnable, e.run = "row"
  PROVE  LET t == Append(q, e)
             last == Len(q) + 1
         IN  /\ RowsIn(t) = RowsIn(q) \cup {last} /\ t[last] = e
             /\ Cardinality(RowsIn(t)) = Cardinality(RowsIn(q)) + 1
             /\ Rank(t, last) = Cardinality(RowsIn(q)) + 1
             /\ \A i \in RowsIn(q) : t[i] = q[i] /\ Rank(t, i) = Rank(q, i)
<1> DEFINE t == Append(q, e)
           last == Len(q) + 1
<1>1. /\ DOMAIN q = 1..Len(q) /\ Len(q) \in Nat
      /\ DOMAIN t = 1..last
      /\ \A i \in 1..Len(q) : t[i] = q[i]
      /\ t[last] = e
  BY AppendProperties
<1> HIDE DEF t
<1>2. RowsIn(t) = RowsIn(q) \cup {last} /\ last \notin RowsIn(q)
  BY <1>1 DEF RowsIn
<1>3. Cardinality(RowsIn(t)) = Cardinality(RowsIn(q)) + 1
  BY <1>2, RowsFinite, FS_AddElement
<1>4. { j \in RowsIn(t) : j <= last } = RowsIn(t)
  BY <1>1 DEF RowsIn
<1>5. ASSUME NEW i \in RowsIn(q) PROVE t[i] = q[i] /\ Rank(t, i) = Rank(q, i)
  <2>1. t[i] = q[i] /\ i \in 1..Len(q)
    BY <1>1 DEF RowsIn
  <2>2. { j \in RowsIn(t) : j <= i } = { j \in RowsIn(q) : j <= i }
    BY <1>1, <1>2, <2>1
  <2> QED BY <2>1, <2>2 DEF Rank
<1>6. Rank(t, last) = Cardinality(RowsIn(t))
  BY <1>4 DEF Rank
<1> QED BY <1>1, <1>2, <1>3, <1>5, <1>6 DEF t

(* Taking the first element away shifts the places of the others.          *)
LEMMA Shifted ==
  ASSUME NEW S \in SUBSET Nat, NEW T \in SUBSET Nat, IsFiniteSet(S),
         \A j \in Nat : j \in T <=> j + 1 \in S, 0 \notin S
  PROVE  IsFiniteSet(T) /\ Cardinality(T) = Cardinality(S)
<1> DEFINE f == [s \in S |-> s - 1]
<1>1. \A s \in S : s - 1 \in Nat /\ (s - 1) + 1 = s
  OBVIOUS
<1>2. f \in [S -> T]
  BY <1>1
<1>3. \A a, b \in S : f[a] = f[b] => a = b
  OBVIOUS
<1>4. \A t \in T : \E s \in S : f[s] = t
  <2>1. ASSUME NEW t \in T PROVE \E s \in S : f[s] = t
    <3>1. t + 1 \in S /\ f[t + 1] = t
      OBVIOUS
    <3> QED BY <3>1
  <2> QED BY <2>1
<1>5. f \in Bijection(S, T)
  <2>1. f \in Surjection(S, T)
    BY <1>2, <1>4, Fun_IsSurj
  <2> QED BY <1>2, <1>3, <2>1, Fun_IsBij
<1>6. ExistsBijection(S, T)
  BY <1>5 DEF ExistsBijection
<1> QED BY <1>6, FS_Bijection

LEMMA TailRows ==
  ASSUME NEW q \in Seq(Runnable), q # <<>>
  PROVE  LET t == Tail(q)
             less == IF Head(q).run = "row" THEN 1 ELSE 0
         IN  /\ Cardinality(RowsIn(t)) = Cardinality(RowsIn(q)) - less
             /\ \A i \in RowsIn(t) :
                  i + 1 \in RowsIn(q) /\ t[i] = q[i + 1] /\ Rank(t, i) = Rank(q, i + 1) - less
<1> DEFINE t == Tail(q)
           less == IF Head(q).run = "row" THEN 1 ELSE 0
<1>1. /\ DOMAIN q = 1..Len(q) /\ Len(q) \in Nat \ {0}
      /\ DOMAIN t = 1..(Len(q) - 1)
      /\ \A i \in 1..(Len(q) - 1) : t[i] = q[i + 1]
      /\ Head(q) = q[1]
  BY HeadTailProperties, LenProperties
<1> HIDE DEF t
<1>2. ASSUME NEW n \in Nat
      PROVE  Cardinality({ j \in RowsIn(t) : j <= n })
               = Cardinality({ j \in RowsIn(q) : j <= n + 1 }) - less
  <2> DEFINE S == { j \in RowsIn(q) : j <= n + 1 }
             T == { j \in RowsIn(t) : j <= n }
  <2>1. IsFiniteSet(S) /\ Cardinality(S) \in Nat
    BY RowsFinite DEF Rank
  <2>2. S \in SUBSET Nat /\ T \in SUBSET Nat /\ 0 \notin S
    BY <1>1 DEF RowsIn
  <2>3. \A j \in Nat : j \in T <=> j + 1 \in S \ {1}
    BY <1>1 DEF RowsIn
  <2>4. 1 \in S <=> Head(q).run = "row"
    BY <1>1 DEF RowsIn
  <2> HIDE DEF S, T
  <2>5. IsFiniteSet(S \ {1}) /\ Cardinality(S \ {1}) = Cardinality(S) - less
    BY <2>1, <2>4, FS_RemoveElement
  <2>6. Cardinality(T) = Cardinality(S \ {1})
    <3>1. S \ {1} \in SUBSET Nat /\ 0 \notin S \ {1}
      BY <2>2
    <3> QED BY <2>2, <2>3, <2>5, <3>1, Shifted
  <2> QED BY <2>5, <2>6 DEF S, T
<1>3. /\ { j \in RowsIn(t) : j <= Len(q) } = RowsIn(t)
      /\ { j \in RowsIn(q) : j <= Len(q) + 1 } = RowsIn(q)
  BY <1>1 DEF RowsIn
<1>4. Cardinality(RowsIn(t)) = Cardinality(RowsIn(q)) - less
  BY <1>1, <1>2, <1>3
<1>5. ASSUME NEW i \in RowsIn(t)
      PROVE  i + 1 \in RowsIn(q) /\ t[i] = q[i + 1] /\ Rank(t, i) = Rank(q, i + 1) - less
  <2>1. i \in 1..(Len(q) - 1) /\ i + 1 \in RowsIn(q) /\ t[i] = q[i + 1]
    BY <1>1 DEF RowsIn
  <2> QED BY <1>1, <1>2, <2>1 DEF Rank
<1> QED BY <1>4, <1>5 DEF t

-----------------------------------------------------------------------------
(* Client's Stretch of any screen and any queue.                           *)
Count(rows, q) == Len(rows) + Cardinality(RowsIn(q))

StretchOf(rows, q, list, k) ==
  /\ k + Count(rows, q) - 1 <= Len(list)
  /\ \A n \in DOMAIN rows : rows[n] = list[k + n - 1]
  /\ \A i \in RowsIn(q) : q[i].of = list[k + Len(rows) + Rank(q, i) - 1]

LEMMA SameStretch ==
  /\ RowCount = Count(screen, looper)
  /\ TypeOK => \A k \in Nat : Stretch(received, k) <=> StretchOf(screen, looper, received, k)
<1>1. Posted = RowsIn(looper)
  BY DEF Posted, RowsIn
<1>2. ASSUME TypeOK, NEW k \in Nat
      PROVE  Stretch(received, k) <=> StretchOf(screen, looper, received, k)
  <2>1. \A i \in RowsIn(looper) : Rank(looper, i) \in Nat
    BY <1>2, RowsFinite DEF TypeOK
  <2>2. Len(screen) \in Nat
    BY <1>2, LenProperties DEF TypeOK
  <2>3. \A i \in RowsIn(looper) :
          RowNo(i) = Len(screen) + Rank(looper, i)
            /\ k + RowNo(i) - 1 = k + Len(screen) + Rank(looper, i) - 1
    BY <1>1, <2>1, <2>2 DEF RowNo, Rank
  <2> QED BY <1>1, <2>3 DEF Stretch, StretchOf, RowCount, Count
<1> QED BY <1>1, <1>2 DEF RowCount, Count

(* A response more in the list disturbs no stretch of it.                  *)
LEMMA ListGrows ==
  ASSUME NEW rows \in Seq(Response), NEW q \in Seq(Runnable), NEW list \in Seq(Response),
         NEW k \in Nat \ {0}, StretchOf(rows, q, list, k), NEW r \in Response
  PROVE  StretchOf(rows, q, Append(list, r), k)
<1> DEFINE more == Append(list, r)
<1>1. /\ Len(list) \in Nat /\ Len(more) = Len(list) + 1
      /\ \A i \in 1..Len(list) : more[i] = list[i]
  BY AppendProperties
<1>2. Len(rows) \in Nat /\ DOMAIN rows = 1..Len(rows) /\ Cardinality(RowsIn(q)) \in Nat
  BY RowsFinite, LenProperties
<1> HIDE DEF more
<1>3. k + Count(rows, q) - 1 <= Len(more)
  BY <1>1, <1>2 DEF StretchOf, Count
<1>4. ASSUME NEW n \in DOMAIN rows PROVE rows[n] = more[k + n - 1]
  <2>1. k + n - 1 \in 1..Len(list)
    BY <1>1, <1>2 DEF StretchOf, Count
  <2> QED BY <1>1, <2>1 DEF StretchOf
<1>5. ASSUME NEW i \in RowsIn(q) PROVE q[i].of = more[k + Len(rows) + Rank(q, i) - 1]
  <2>1. Rank(q, i) \in Nat /\ 1 <= Rank(q, i) /\ Rank(q, i) <= Cardinality(RowsIn(q))
    BY RankBounds, RowsFinite
  <2>2. k + Len(rows) + Rank(q, i) - 1 \in 1..Len(list)
    BY <1>1, <1>2, <2>1 DEF StretchOf, Count
  <2> QED BY <1>1, <2>2 DEF StretchOf
<1> QED BY <1>3, <1>4, <1>5 DEF StretchOf, more

(* Posting something other than a row, or the next row.                    *)
LEMMA PostOther ==
  ASSUME NEW rows \in Seq(Response), NEW q \in Seq(Runnable),
         NEW e \in Runnable, e.run # "row"
  PROVE  /\ Count(rows, Append(q, e)) = Count(rows, q)
         /\ \A list, k : StretchOf(rows, q, list, k) => StretchOf(rows, Append(q, e), list, k)
<1> DEFINE t == Append(q, e)
<1>1. RowsIn(t) = RowsIn(q) /\ \A i \in RowsIn(q) : t[i] = q[i] /\ Rank(t, i) = Rank(q, i)
  BY AppendOther
<1> HIDE DEF t
<1>2. Count(rows, t) = Count(rows, q)
  BY <1>1 DEF Count
<1>3. ASSUME NEW list, NEW k, StretchOf(rows, q, list, k) PROVE StretchOf(rows, t, list, k)
  BY <1>1, <1>2, <1>3 DEF StretchOf
<1> QED BY <1>2, <1>3 DEF t

LEMMA PostRow ==
  ASSUME NEW rows \in Seq(Response), NEW q \in Seq(Runnable), NEW r \in Response
  PROVE  /\ Count(rows, Append(q, Row(r))) = Count(rows, q) + 1
         /\ \A list \in Seq(Response), k \in Nat :
              /\ StretchOf(rows, q, list, k)
              /\ k + Count(rows, q) = Len(list) /\ list[Len(list)] = r
              => StretchOf(rows, Append(q, Row(r)), list, k)
<1> DEFINE e == Row(r)
           t == Append(q, e)
           last == Len(q) + 1
<1>1. e \in Runnable /\ e.run = "row" /\ e.of = r
  BY DEF Runnable, Row
<1>2. Len(rows) \in Nat /\ Cardinality(RowsIn(q)) \in Nat
  BY RowsFinite, LenProperties
<1> HIDE DEF e
<1>3. /\ RowsIn(t) = RowsIn(q) \cup {last} /\ t[last] = e
      /\ Cardinality(RowsIn(t)) = Cardinality(RowsIn(q)) + 1
      /\ Rank(t, last) = Cardinality(RowsIn(q)) + 1
      /\ \A i \in RowsIn(q) : t[i] = q[i] /\ Rank(t, i) = Rank(q, i)
  BY <1>1, AppendRow
<1> HIDE DEF t, last
<1>4. Count(rows, t) = Count(rows, q) + 1
  BY <1>2, <1>3 DEF Count
<1>5. ASSUME NEW list \in Seq(Response), NEW k \in Nat, StretchOf(rows, q, list, k),
             k + Count(rows, q) = Len(list), list[Len(list)] = r
      PROVE  StretchOf(rows, t, list, k)
  <2>1. k + Count(rows, t) - 1 <= Len(list)
    BY <1>2, <1>4, <1>5 DEF Count
  <2>2. k + Len(rows) + Rank(t, last) - 1 = Len(list)
    BY <1>2, <1>3, <1>5 DEF Count
  <2>3. \A i \in RowsIn(t) : t[i].of = list[k + Len(rows) + Rank(t, i) - 1]
    BY <1>1, <1>3, <1>5, <2>2 DEF StretchOf
  <2> QED BY <1>5, <2>1, <2>3 DEF StretchOf
<1> QED BY <1>4, <1>5 DEF t, e

(* Running something other than a row, or the next row.                    *)
LEMMA RunOther ==
  ASSUME NEW rows \in Seq(Response), NEW q \in Seq(Runnable), q # <<>>, Head(q).run # "row"
  PROVE  /\ Count(rows, Tail(q)) = Count(rows, q)
         /\ \A list, k : StretchOf(rows, q, list, k) => StretchOf(rows, Tail(q), list, k)
<1> DEFINE t == Tail(q)
<1>1. /\ Cardinality(RowsIn(t)) = Cardinality(RowsIn(q)) - 0
      /\ \A i \in RowsIn(t) :
           i + 1 \in RowsIn(q) /\ t[i] = q[i + 1] /\ Rank(t, i) = Rank(q, i + 1) - 0
  BY TailRows
<1>2. Cardinality(RowsIn(q)) \in Nat /\ \A i : Rank(q, i) \in Nat
  BY RowsFinite
<1> HIDE DEF t
<1>3. Cardinality(RowsIn(t)) = Cardinality(RowsIn(q))
      /\ \A i \in RowsIn(t) : Rank(t, i) = Rank(q, i + 1)
  BY <1>1, <1>2
<1> QED BY <1>1, <1>3 DEF Count, StretchOf, t

LEMMA RunTheRow ==
  ASSUME NEW rows \in Seq(Response), NEW q \in Seq(Runnable), q # <<>>,
         NEW r \in Response, Head(q) = Row(r)
  PROVE  /\ Count(Append(rows, r), Tail(q)) = Count(rows, q)
         /\ \A list : \A k \in Nat :
              StretchOf(rows, q, list, k) => StretchOf(Append(rows, r), Tail(q), list, k)
<1> DEFINE t == Tail(q)
           more == Append(rows, r)
<1>1. Head(q).run = "row" /\ Head(q).of = r
  BY DEF Row
<1>2. /\ Cardinality(RowsIn(t)) = Cardinality(RowsIn(q)) - 1
      /\ \A i \in RowsIn(t) :
           i + 1 \in RowsIn(q) /\ t[i] = q[i + 1] /\ Rank(t, i) = Rank(q, i + 1) - 1
  BY <1>1, TailRows
<1>3. /\ Len(rows) \in Nat /\ DOMAIN rows = 1..Len(rows)
      /\ Len(more) = Len(rows) + 1 /\ DOMAIN more = 1..(Len(rows) + 1)
      /\ \A n \in 1..Len(rows) : more[n] = rows[n]
      /\ more[Len(rows) + 1] = r
  BY AppendProperties, LenProperties
<1>4. Cardinality(RowsIn(q)) \in Nat /\ \A i : Rank(q, i) \in Nat
  BY RowsFinite
<1>5. 1 \in RowsIn(q) /\ q[1] = Head(q) /\ Rank(q, 1) = 1
  <2>1. DOMAIN q = 1..Len(q) /\ Len(q) \in Nat \ {0} /\ q[1] = Head(q)
    BY HeadTailProperties, LenProperties
  <2>2. 1 \in RowsIn(q)
    BY <1>1, <2>1 DEF RowsIn
  <2>3. { j \in RowsIn(q) : j <= 1 } = {1}
    BY <2>1, <2>2 DEF RowsIn
  <2> QED BY <2>1, <2>2, <2>3, FS_Singleton DEF Rank
<1> HIDE DEF t, more
<1>6. Count(more, t) = Count(rows, q)
  BY <1>2, <1>3, <1>4 DEF Count
<1>7. ASSUME NEW list, NEW k \in Nat, StretchOf(rows, q, list, k)
      PROVE  StretchOf(more, t, list, k)
  <2>1. r = list[k + (Len(rows) + 1) - 1]
    <3>1. r = list[k + Len(rows) + 1 - 1]
      BY <1>1, <1>5, <1>7 DEF StretchOf
    <3> QED BY <3>1, <1>3
  <2>2. ASSUME NEW n \in DOMAIN more PROVE more[n] = list[k + n - 1]
    <3>1. CASE n \in DOMAIN rows
      BY <1>3, <1>7, <3>1 DEF StretchOf
    <3>2. CASE n = Len(rows) + 1
      BY <1>3, <2>1, <3>2
    <3> QED BY <1>3, <3>1, <3>2
  <2>3. ASSUME NEW i \in RowsIn(t) PROVE t[i].of = list[k + Len(more) + Rank(t, i) - 1]
    <3>1. k + Len(more) + Rank(t, i) - 1 = k + Len(rows) + Rank(q, i + 1) - 1
      BY <1>2, <1>3, <1>4
    <3> QED BY <1>2, <1>7, <3>1 DEF StretchOf
  <2> QED BY <1>6, <1>7, <2>2, <2>3 DEF StretchOf
<1> QED BY <1>6, <1>7 DEF t, more

-----------------------------------------------------------------------------
(* The user's own login is received at most once, because the server       *)
(* accepts a name once: it is nowhere as long as the name is not taken,    *)
(* and at one place at most among what was received or is on its way.      *)
Heard == received \o incoming

Own == LoginResponse(user)

OwnOnce ==
  /\ user \notin taken => \A i \in DOMAIN Heard : Heard[i] # Own
  /\ \A i, j \in DOMAIN Heard : Heard[i] = Own /\ Heard[j] = Own => i = j

(* What is being visited is what was received last; there is no reader     *)
(* when login() makes one.                                                 *)
VisitedInv ==
  /\ state = "NOCONNECTION" /\ ui = "idle" => reader = "none"
  /\ visited # None <=> reader \in {"showing", "announcing"}
  /\ visited # None => received # <<>> /\ visited = received[Len(received)]

(* Before the user's own login has been received there are no rows; from   *)
(* then on they are a stretch from it, up to the end while state says so.  *)
ScreenInv ==
  \/ /\ \A k \in DOMAIN received : received[k] # Own
     /\ state # "ISLOGGEDIN" /\ RowCount = 0
  \/ \E k \in DOMAIN received :
       /\ received[k] = Own
       /\ Stretch(received, k)
       /\ state = "ISLOGGEDIN" =>
            k + RowCount = Len(received) + IF visited = None THEN 1 ELSE 0

LEMMA InitScreen == Init => OwnOnce /\ VisitedInv /\ ScreenInv
<1> SUFFICES ASSUME Init PROVE OwnOnce /\ VisitedInv /\ ScreenInv
  OBVIOUS
<1>1. /\ received = <<>> /\ incoming = <<>> /\ looper = <<>> /\ screen = <<>>
      /\ state = "NOCONNECTION" /\ visited = None /\ reader = "none"
  BY DEF Init
<1>2. Heard = <<>>
  BY <1>1 DEF Heard
<1>3. RowCount = 0
  BY <1>1, FS_EmptySet DEF RowCount, Posted
<1> QED BY <1>1, <1>2, <1>3 DEF OwnOnce, VisitedInv, ScreenInv

(* How the elements of two queues in a row follow one another.             *)
LEMMA ReadMoves ==
  ASSUME NEW T, NEW s \in Seq(T), NEW t \in Seq(T), t # <<>>
  PROVE  /\ Append(s, Head(t)) \o Tail(t) = s \o t
         /\ (s \o t)[Len(s) + 1] = Head(t) /\ Len(s) + 1 \in DOMAIN (s \o t)
<1>1. /\ Head(t) \in T /\ Tail(t) \in Seq(T) /\ Len(t) \in Nat \ {0} /\ Len(s) \in Nat
      /\ Len(Tail(t)) = Len(t) - 1 /\ Head(t) = t[1]
      /\ \A i \in 1..(Len(t) - 1) : Tail(t)[i] = t[i + 1]
  BY HeadTailProperties, LenProperties
<1> DEFINE m == Append(s, Head(t))
           a == m \o Tail(t)
           b == s \o t
<1>2. /\ m \in Seq(T) /\ Len(m) = Len(s) + 1 /\ m[Len(s) + 1] = Head(t)
      /\ \A i \in 1..Len(s) : m[i] = s[i]
  BY <1>1, AppendProperties
<1>3. /\ b \in Seq(T) /\ Len(b) = Len(s) + Len(t)
      /\ \A i \in 1..(Len(s) + Len(t)) : b[i] = IF i <= Len(s) THEN s[i] ELSE t[i - Len(s)]
  BY ConcatProperties
<1> HIDE DEF m, b
<1>4. /\ a \in Seq(T) /\ Len(a) = Len(m) + Len(Tail(t))
      /\ \A i \in 1..(Len(m) + Len(Tail(t))) :
           a[i] = IF i <= Len(m) THEN m[i] ELSE Tail(t)[i - Len(m)]
  BY <1>1, <1>2, ConcatProperties
<1> HIDE DEF a
<1>5. ASSUME NEW i \in 1..Len(b) PROVE a[i] = b[i]
  <2>0. /\ i \in 1..(Len(s) + Len(t)) /\ i \in 1..(Len(m) + Len(Tail(t)))
        /\ a[i] = IF i <= Len(s) + 1 THEN m[i] ELSE Tail(t)[i - (Len(s) + 1)]
        /\ b[i] = IF i <= Len(s) THEN s[i] ELSE t[i - Len(s)]
    <3>1. i \in 1..(Len(s) + Len(t)) /\ i \in 1..(Len(m) + Len(Tail(t)))
      BY <1>1, <1>2, <1>3
    <3> QED BY <1>2, <1>3, <1>4, <3>1
  <2>1. CASE i <= Len(s)
    <3>1. i <= Len(s) + 1 /\ i \in 1..Len(s)
      BY <1>1, <2>0, <2>1
    <3> QED BY <1>2, <2>0, <2>1, <3>1
  <2>2. CASE i = Len(s) + 1
    <3>1. ~(i <= Len(s)) /\ i <= Len(s) + 1 /\ i - Len(s) = 1
      BY <1>1, <2>2
    <3>2. a[i] = m[i] /\ b[i] = t[1]
      BY <2>0, <3>1
    <3> QED BY <1>1, <1>2, <2>2, <3>2
  <2>3. CASE i > Len(s) + 1
    <3>0. ~(i <= Len(s)) /\ ~(i <= Len(s) + 1)
      BY <1>1, <2>0, <2>3
    <3>1. a[i] = Tail(t)[i - (Len(s) + 1)] /\ b[i] = t[i - Len(s)]
      BY <2>0, <3>0
    <3>2. i - (Len(s) + 1) \in 1..(Len(t) - 1) /\ i - (Len(s) + 1) + 1 = i - Len(s)
      BY <1>1, <1>3, <2>3
    <3> QED BY <1>1, <3>1, <3>2
  <2> QED BY <1>1, <1>3, <2>1, <2>2, <2>3
<1>6. a = b
  BY <1>1, <1>2, <1>3, <1>4, <1>5, SeqEqual
<1>7. b[Len(s) + 1] = Head(t) /\ Len(s) + 1 \in DOMAIN b
  BY <1>1, <1>3, LenProperties
<1> QED BY <1>6, <1>7 DEF a, b, m

LEMMA ReplyAppends ==
  ASSUME NEW T, NEW s \in Seq(T), NEW t \in Seq(T), NEW r \in T
  PROVE  s \o Append(t, r) = Append(s \o t, r)
<1>1. <<r>> \in Seq(T) /\ s \o t \in Seq(T)
  BY ConcatProperties
<1>2. Append(t, r) = t \o <<r>> /\ Append(s \o t, r) = (s \o t) \o <<r>>
  BY <1>1, AppendIsConcat
<1> QED BY <1>1, <1>2, ConcatAssociative

LEMMA OwnOnceStep ==
  ASSUME TypeOK, OwnOnce, [Next]_vars
  PROVE  OwnOnce'
<1>0. user' = user /\ user \in Names /\ Own' = Own
  BY UserStays DEF TypeOK, Own
<1>1. /\ received \in Seq(Response) /\ incoming \in Seq(Response)
      /\ Heard \in Seq(Response) /\ DOMAIN Heard = 1..Len(Heard) /\ Len(Heard) \in Nat
  BY ConcatProperties, LenProperties DEF TypeOK, Heard
<1>2. taken \subseteq taken'
  BY TakenGrows
<1>3. ASSUME Heard' = Heard PROVE OwnOnce'
  BY <1>0, <1>2, <1>3 DEF OwnOnce
<1>4. ASSUME UNCHANGED <<received, incoming>> PROVE OwnOnce'
  BY <1>3, <1>4 DEF Heard
<1>5. ASSUME NEW r, Read(r) PROVE OwnOnce'
  BY <1>1, <1>3, <1>5, ReadMoves DEF Heard, Read
<1>6. ASSUME NEW r \in Response, Reply(r), received' = received,
             r = Own => user \notin taken /\ user \in taken'
      PROVE  OwnOnce'
  <2>1. Heard' = Append(Heard, r)
    BY <1>1, <1>6, ReplyAppends DEF Heard, Reply
  <2>2. /\ DOMAIN Heard' = 1..(Len(Heard) + 1)
        /\ \A i \in 1..Len(Heard) : Heard'[i] = Heard[i]
        /\ Heard'[Len(Heard) + 1] = r
    BY <1>1, <2>1, AppendProperties
  <2> HIDE DEF Heard
  <2>3. user' \notin taken' => \A i \in DOMAIN Heard' : Heard'[i] # Own'
    BY <1>0, <1>1, <1>2, <1>6, <2>2 DEF OwnOnce
  <2>4. ASSUME NEW i \in DOMAIN Heard', NEW j \in DOMAIN Heard',
               Heard'[i] = Own, Heard'[j] = Own
        PROVE  i = j
    <3>1. CASE r = Own
      BY <1>1, <1>6, <2>2, <2>4, <3>1 DEF OwnOnce
    <3>2. CASE r # Own
      BY <1>1, <2>2, <2>4, <3>2 DEF OwnOnce
    <3> QED BY <3>1, <3>2
  <2> QED BY <1>0, <2>3, <2>4 DEF OwnOnce
<1> USE DEF view, conn, net
<1>7. CASE UNCHANGED vars
  BY <1>4, <1>7 DEF vars
<1>8. CASE Crashes
  BY <1>4, <1>8, CrashFrame
<1>9. CASE (\E a \in Addresses : Login(a)) \/ (\E p \in Contents : Type(p)) \/ OnMsgSend
  BY <1>4, <1>9 DEF Login, Type, OnMsgSend
<1>10. CASE LoginNext \/ PostedNext \/ TaskSends
  BY <1>4, <1>10 DEF LoginNext, LoginConnected, LoginSend, LoginAttempted,
                     PostedNext, RunCommit, RunClear, RunRow, TaskSends
<1>11. CASE \/ ReaderLocks \/ ReaderConnects \/ ReaderRefused \/ ReaderEnds
            \/ ShowRoomFragment \/ Announce
  BY <1>4, <1>11 DEF ReaderLocks, ReaderConnects, ReaderRefused, ReaderEnds, ShowRoomFragment,
                     Announce
<1>12. CASE \/ VisitOwnLogin \/ \E n \in Names : VisitOtherLogin(n)
            \/ \E n \in Names, p \in Contents : VisitMessage(n, p)
  BY <1>5, <1>12 DEF VisitOwnLogin, VisitOtherLogin, VisitMessage
<1>13. ASSUME NEW n \in Names, AnswerLogin(n) PROVE OwnOnce'
  <2>1. PICK r \in {NameInUse, LoginResponse(n)} :
          /\ Reply(r) /\ (r = LoginResponse(n) => n \notin taken)
          /\ n \in taken' /\ received' = received
    <3>1. NameInUse # LoginResponse(n)
      BY DEF NameInUse, ServerError, LoginResponse
    <3> QED BY <1>13, <3>1 DEF AnswerLogin
  <2>2. r = Own => n = user /\ r = LoginResponse(n)
    BY NotALogin, LoginResponseNames DEF Own
  <2>3. r \in Response
    BY Vocabulary
  <2> QED BY <1>6, <2>1, <2>2, <2>3
<1>14. ASSUME NEW n \in Names, NEW p \in Contents, AnswerMessage(n, p) PROVE OwnOnce'
  <2>1. MessageResponse(n, p) # Own /\ MessageResponse(n, p) \in Response
    BY Vocabulary, NotALogin DEF Own
  <2> QED BY <1>6, <1>14, <2>1 DEF AnswerMessage
<1>15. ASSUME NEW r \in Others, AnswerOther(r) PROVE OwnOnce'
  <2>1. r \in Response /\ received' = received
    BY <1>15, OthersAssumption DEF AnswerOther
  <2>2. r = Own => user \notin taken /\ user \in taken'
    BY <1>15, <1>0 DEF AnswerOther, Own
  <2>3. CASE Reply(r) BY <1>6, <2>1, <2>2, <2>3
  <2>4. CASE incoming' = incoming BY <1>4, <2>1, <2>4
  <2> QED BY <1>15, <2>3, <2>4 DEF AnswerOther
<1>16. CASE LinkLost
  <2>1. PICK n \in 0..Len(incoming) : incoming' = SubSeq(incoming, 1, n)
    BY <1>16 DEF LinkLost
  <2>2. received' = received
    BY <1>16 DEF LinkLost
  <2>3. /\ n \in Nat /\ n <= Len(incoming) /\ Len(received) \in Nat /\ Len(incoming) \in Nat
        /\ \A i \in 1..n : incoming[i] \in Response
    BY <1>1, LenProperties, ElementOfSeq
  <2>4. /\ incoming' \in Seq(Response) /\ Len(incoming') = n
        /\ \A i \in 1..n : incoming'[i] = incoming[i]
    BY <1>1, <2>1, <2>3, SubSeqProperties
  <2>5. /\ DOMAIN Heard' = 1..(Len(received) + n)
        /\ \A i \in 1..(Len(received) + n) :
             Heard'[i] = IF i <= Len(received) THEN received[i] ELSE incoming'[i - Len(received)]
    BY <1>1, <2>2, <2>4, ConcatProperties, LenProperties DEF Heard
  <2>6. /\ DOMAIN Heard = 1..(Len(received) + Len(incoming))
        /\ \A i \in 1..(Len(received) + Len(incoming)) :
             Heard[i] = IF i <= Len(received) THEN received[i] ELSE incoming[i - Len(received)]
    BY <1>1, ConcatProperties, LenProperties DEF Heard
  <2> HIDE DEF Heard
  <2>7. \A i \in DOMAIN Heard' : i \in DOMAIN Heard /\ Heard'[i] = Heard[i]
    BY <2>3, <2>4, <2>5, <2>6, SMTT(30)
  <2> QED BY <1>0, <1>2, <2>7 DEF OwnOnce
<1>17. CASE Accept
  BY <1>4, <1>17 DEF Accept
<1> QED BY <1>7, <1>8, <1>9, <1>10, <1>11, <1>12, <1>13, <1>14, <1>15, <1>16, <1>17, StepCases

LEMMA VisitedStep ==
  ASSUME TypeOK, VisitedInv, [Next]_vars
  PROVE  VisitedInv'
<1>0. user \in Names
  BY DEF TypeOK
<1> USE DEF VisitedInv
<1>1. ASSUME UNCHANGED <<visited, reader, received>>,
             UNCHANGED <<state, ui>> \/ state' # "NOCONNECTION" \/ ui' # "idle"
      PROVE  VisitedInv'
  BY <1>1
<1>2. \A r \in Response : r # None
  BY DEF Response, None, LoginResponse, MessageResponse, ServerError
<1>3. ASSUME NEW r \in Response, Read(r)
      PROVE  received' # <<>> /\ r = received'[Len(received')]
  <2>1. /\ Len(received') = Len(received) + 1 /\ received'[Len(received) + 1] = r
        /\ received' \in Seq(Response) /\ Len(received) \in Nat
    BY <1>3, AppendProperties, LenProperties DEF Read, TypeOK
  <2> QED BY <2>1
<1> USE DEF view, conn, net
<1>4. CASE UNCHANGED vars
  BY <1>1, <1>4 DEF vars
<1>5. CASE Crashes
  BY <1>1, <1>5, CrashFrame
<1>6. ASSUME NEW a \in Addresses, Login(a) PROVE VisitedInv'
  BY <1>6 DEF Login, UIIdle
<1>7. CASE (\E p \in Contents : Type(p)) \/ OnMsgSend
  BY <1>1, <1>7 DEF Type, OnMsgSend
<1>8. CASE LoginNext \/ PostedNext \/ TaskSends
  BY <1>1, <1>8 DEF LoginNext, LoginConnected, LoginSend, LoginAttempted,
                     PostedNext, RunCommit, RunClear, RunRow, TaskSends
<1>9. CASE ReaderLocks \/ ReaderConnects \/ ReaderRefused \/ ReaderEnds
  BY <1>9 DEF ReaderLocks, ReaderConnects, ReaderRefused, ReaderEnds
<1>10. CASE ShowRoomFragment \/ Announce
  BY <1>10 DEF ShowRoomFragment, Announce
<1>11. ASSUME NEW n \in Names, VisitOwnLogin \/ VisitOtherLogin(n) PROVE VisitedInv'
  <2>1. PICK m \in Names : Read(LoginResponse(m)) /\ visited' = LoginResponse(m)
    BY <1>11, <1>0 DEF VisitOwnLogin, VisitOtherLogin
  <2>2. reader' \in {"showing", "announcing"}
    BY <1>11 DEF VisitOwnLogin, VisitOtherLogin
  <2>3. ~(state' = "NOCONNECTION" /\ ui' = "idle")
    BY <1>11 DEF VisitOwnLogin, VisitOtherLogin, Read
  <2> QED BY <1>2, <1>3, <2>1, <2>2, <2>3, Vocabulary
<1>12. ASSUME NEW n \in Names, NEW p \in Contents, VisitMessage(n, p) PROVE VisitedInv'
  BY <1>12 DEF VisitMessage, Read
<1>13. CASE \/ \E n \in Names : AnswerLogin(n) \/ \E p \in Contents : AnswerMessage(n, p)
            \/ \E r \in Others : AnswerOther(r)
            \/ Accept \/ LinkLost
  BY <1>1, <1>13 DEF AnswerLogin, AnswerMessage, AnswerOther, Accept, LinkLost
<1> QED BY <1>4, <1>5, <1>6, <1>7, <1>8, <1>9, <1>10, <1>11, <1>12, <1>13, StepCases,
           <1>0

-----------------------------------------------------------------------------
(* ScreenInv of any screen, queue, list, state and visited response.       *)
InView(rows, q, list, st, vis) ==
  \/ /\ \A k \in DOMAIN list : list[k] # Own
     /\ st # "ISLOGGEDIN" /\ Count(rows, q) = 0
  \/ \E k \in DOMAIN list :
       /\ list[k] = Own
       /\ StretchOf(rows, q, list, k)
       /\ st = "ISLOGGEDIN" =>
            k + Count(rows, q) = Len(list) + IF vis = None THEN 1 ELSE 0

LEMMA ScreenAlike ==
  TypeOK => (ScreenInv <=> InView(screen, looper, received, state, visited))
<1> SUFFICES ASSUME TypeOK
             PROVE  ScreenInv <=> InView(screen, looper, received, state, visited)
  OBVIOUS
<1>1. \A k \in DOMAIN received : k \in Nat
  BY LenProperties DEF TypeOK
<1>2. \A k \in DOMAIN received :
        Stretch(received, k) <=> StretchOf(screen, looper, received, k)
  BY <1>1, SameStretch
<1> QED BY <1>2, SameStretch DEF ScreenInv, InView

LEMMA ScreenStep ==
  ASSUME TypeOK, TypeOK', Announcing, OwnOnce, VisitedInv, ScreenInv, [Next]_vars
  PROVE  ScreenInv'
<1>0. user' = user /\ user \in Names /\ Own' = Own
  BY UserStays DEF TypeOK, Own
<1>1. InView(screen, looper, received, state, visited)
  BY ScreenAlike
<1>2. (TypeOK => (ScreenInv <=> InView(screen, looper, received, state, visited)))'
  BY ScreenAlike, PTL
<1> SUFFICES InView(screen', looper', received', state', visited')
  BY <1>0, <1>2 DEF InView
<1>3. /\ screen \in Seq(Response) /\ looper \in Seq(Runnable) /\ received \in Seq(Response)
      /\ DOMAIN received = 1..Len(received) /\ Len(received) \in Nat
      /\ Count(screen, looper) \in Nat
  <2>1. screen \in Seq(Response) /\ looper \in Seq(Runnable) /\ received \in Seq(Response)
    BY DEF TypeOK
  <2> QED BY <2>1, RowsFinite, LenProperties DEF Count
<1>4. ASSUME UNCHANGED <<screen, looper, received, visited>>,
             state' = state \/ state' # "ISLOGGEDIN"
      PROVE  InView(screen', looper', received', state', visited')
  BY <1>1, <1>4 DEF InView
(* A response is read.                                                     *)
<1>5. ASSUME NEW r \in Response, received' = Append(received, r)
      PROVE  /\ DOMAIN received' = 1..(Len(received) + 1) /\ Len(received') = Len(received) + 1
             /\ \A i \in 1..Len(received) : received'[i] = received[i]
             /\ received'[Len(received) + 1] = r
             /\ \A k \in DOMAIN received :
                  StretchOf(screen, looper, received, k) => StretchOf(screen, looper, received', k)
  <2>1. /\ DOMAIN received' = 1..(Len(received) + 1) /\ Len(received') = Len(received) + 1
        /\ \A i \in 1..Len(received) : received'[i] = received[i]
        /\ received'[Len(received) + 1] = r
    BY <1>3, <1>5, AppendProperties
  <2>2. ASSUME NEW k \in DOMAIN received, StretchOf(screen, looper, received, k)
        PROVE  StretchOf(screen, looper, received', k)
    <3>1. k \in Nat \ {0} BY <1>3
    <3> QED BY <1>3, <1>5, <2>2, <3>1, ListGrows
  <2> QED BY <2>1, <2>2
<1> USE DEF view, conn, net
<1>6. CASE UNCHANGED vars
  BY <1>4, <1>6 DEF vars
<1>7. CASE Crashes
  BY <1>4, <1>7, CrashFrame
<1>8. CASE (\E a \in Addresses : Login(a)) \/ (\E p \in Contents : Type(p)) \/ OnMsgSend
  BY <1>4, <1>8 DEF Login, Type, OnMsgSend
<1>9. CASE LoginNext \/ TaskSends
  BY <1>4, <1>9 DEF LoginNext, LoginConnected, LoginSend, LoginAttempted, TaskSends
<1>10. CASE ReaderLocks \/ ReaderConnects \/ ReaderRefused \/ ReaderEnds
  BY <1>4, <1>10 DEF ReaderLocks, ReaderConnects, ReaderRefused, ReaderEnds
<1>11. CASE PostedNext
  <2>1. looper # <<>> /\ looper' = Tail(looper) /\ UNCHANGED <<received, state, visited>>
    BY <1>11 DEF PostedNext, RunCommit, RunClear, RunRow, Post
  <2>2. CASE RunCommit \/ RunClear
    <3>1. Head(looper).run # "row" /\ screen' = screen
      BY <2>2 DEF RunCommit, RunClear, Post, Commit, Clear
    <3>2. /\ Count(screen, Tail(looper)) = Count(screen, looper)
          /\ \A list, k : StretchOf(screen, looper, list, k) => StretchOf(screen, Tail(looper), list, k)
      BY <1>3, <2>1, <3>1, RunOther
    <3> QED BY <1>1, <2>1, <3>1, <3>2 DEF InView
  <2>3. ASSUME NEW r \in Response, RunRow(r)
        PROVE  InView(screen', looper', received', state', visited')
    <3>1. Head(looper) = Row(r) /\ screen' = Append(screen, r)
      BY <2>3 DEF RunRow, Post
    <3>2. /\ Count(Append(screen, r), Tail(looper)) = Count(screen, looper)
          /\ \A list : \A k \in Nat :
               StretchOf(screen, looper, list, k) => StretchOf(Append(screen, r), Tail(looper), list, k)
      BY <1>3, <2>1, <3>1, RunTheRow
    <3> QED BY <1>1, <1>3, <2>1, <3>1, <3>2 DEF InView
  <2> QED BY <1>11, <2>2, <2>3 DEF PostedNext
<1>12. CASE ShowRoomFragment
  <2>1. Commit \in Runnable /\ Commit.run # "row"
    BY DEF Commit, Runnable
  <2>2. looper' = Append(looper, Commit) /\ UNCHANGED <<screen, received, state, visited>>
    BY <1>12 DEF ShowRoomFragment
  <2>3. /\ Count(screen, looper') = Count(screen, looper)
        /\ \A list, k : StretchOf(screen, looper, list, k) => StretchOf(screen, looper', list, k)
    BY <1>3, <2>1, <2>2, PostOther
  <2> QED BY <1>1, <2>2, <2>3 DEF InView
<1>13. CASE Announce
  <2>1. /\ visited \in Response /\ visited = received[Len(received)] /\ visited # None
        /\ UNCHANGED <<screen, received, state>> /\ visited' = None
    BY <1>13, <1>0 DEF Announce, Announcing, VisitedInv
  <2>2. CASE state # "ISLOGGEDIN"
    <3>1. looper' = looper BY <1>13, <2>2 DEF Announce
    <3> QED BY <1>1, <2>1, <2>2, <3>1 DEF InView
  <2>3. CASE state = "ISLOGGEDIN"
    <3>1. looper' = Append(looper, Row(visited)) BY <1>13, <2>3 DEF Announce
    <3>2. PICK k \in DOMAIN received :
            /\ received[k] = Own /\ StretchOf(screen, looper, received, k)
            /\ k + Count(screen, looper) = Len(received)
      BY <1>1, <1>3, <2>1, <2>3 DEF InView
    <3>3. k \in Nat BY <1>3
    <3>4. /\ Count(screen, looper') = Count(screen, looper) + 1
          /\ StretchOf(screen, looper', received, k)
      BY <1>3, <2>1, <3>1, <3>2, <3>3, PostRow
    <3>5. k + Count(screen, looper') = Len(received) + 1
      <4>1. \A a, b, c \in Nat : a + b = c => a + (b + 1) = c + 1
        OBVIOUS
      <4>2. k + (Count(screen, looper) + 1) = Len(received) + 1
        BY <1>3, <3>2, <3>3, <4>1
      <4> QED BY <3>4, <4>2
    <3> QED BY <2>1, <3>2, <3>4, <3>5 DEF InView
  <2> QED BY <2>2, <2>3
<1>14. CASE VisitOwnLogin
  <2>1. /\ incoming # <<>> /\ Head(incoming) = Own /\ Own \in Response
        /\ received' = Append(received, Own) /\ UNCHANGED <<screen, looper>>
        /\ visited' = Own
    BY <1>14, Vocabulary, <1>0 DEF VisitOwnLogin, Read, Own
  <2>2. visited' # None
    BY <2>1 DEF Own, LoginResponse, None
  <2>3. \A k \in DOMAIN received : received[k] # Own
    <3>1. incoming \in Seq(Response) BY DEF TypeOK
    <3>2. Heard[Len(received) + 1] = Own /\ Len(received) + 1 \in DOMAIN Heard
      BY <1>3, <2>1, <3>1, ReadMoves DEF Heard
    <3>3. \A k \in DOMAIN received : k \in DOMAIN Heard /\ Heard[k] = received[k]
      BY <1>3, <3>1, ConcatProperties, LenProperties DEF Heard
    <3>4. ASSUME NEW k \in DOMAIN received, received[k] = Own PROVE FALSE
      <4>1. k = Len(received) + 1
        BY <3>2, <3>3, <3>4 DEF OwnOnce
      <4> QED BY <1>3, <4>1
    <3> QED BY <3>4
  <2>4. Count(screen, looper) = 0
    BY <1>1, <2>3 DEF InView
  <2> DEFINE k == Len(received) + 1
  <2>5. k \in DOMAIN received' /\ received'[k] = Own /\ k = Len(received')
    BY <1>3, <1>5, <2>1
  <2>6. StretchOf(screen, looper, received', k)
    <3>1. Len(screen) \in Nat /\ Cardinality(RowsIn(looper)) \in Nat /\ DOMAIN screen = 1..Len(screen)
      BY <1>3, RowsFinite, LenProperties
    <3>2. Len(screen) = 0 /\ Cardinality(RowsIn(looper)) = 0
      BY <2>4, <3>1 DEF Count
    <3>3. DOMAIN screen = {} /\ RowsIn(looper) = {}
      BY <1>3, <3>1, <3>2, RowsFinite, FS_EmptySet
    <3>4. k + Count(screen, looper) - 1 <= Len(received')
      BY <1>3, <2>4, <2>5
    <3> QED BY <3>3, <3>4 DEF StretchOf
  <2>7. k + Count(screen, looper) = Len(received') + 0
    BY <1>3, <2>4, <2>5
  <2> QED BY <2>1, <2>2, <2>5, <2>6, <2>7 DEF InView
<1>15. ASSUME NEW n \in Names, VisitOtherLogin(n)
       PROVE  InView(screen', looper', received', state', visited')
  <2> DEFINE r == LoginResponse(n)
  <2>1. /\ received' = Append(received, r) /\ visited' = r
        /\ UNCHANGED <<screen, looper, state>> /\ reader = "reading" /\ n # user
    BY <1>15 DEF VisitOtherLogin, Read
  <2>2. r \in Response /\ r # None /\ r # Own
    BY <2>1, Vocabulary, LoginResponseNames DEF Own, LoginResponse, None
  <2>3. visited = None
    BY <2>1 DEF VisitedInv
  <2> HIDE DEF r
  <2>4. CASE /\ \A k \in DOMAIN received : received[k] # Own
             /\ state # "ISLOGGEDIN" /\ Count(screen, looper) = 0
    <3>1. ASSUME NEW k \in DOMAIN received' PROVE received'[k] # Own
      <4>1. k \in DOMAIN received \/ k = Len(received) + 1
        BY <1>3, <1>5, <2>1, <2>2
      <4>2. CASE k \in DOMAIN received
        BY <1>3, <1>5, <2>1, <2>2, <2>4, <4>2
      <4>3. CASE k = Len(received) + 1
        BY <1>3, <1>5, <2>1, <2>2, <4>3
      <4> QED BY <4>1, <4>2, <4>3
    <3> QED BY <2>1, <2>4, <3>1 DEF InView
  <2>5. ASSUME NEW k \in DOMAIN received, received[k] = Own,
               StretchOf(screen, looper, received, k),
               state = "ISLOGGEDIN" => k + Count(screen, looper) = Len(received) + 1
        PROVE  InView(screen', looper', received', state', visited')
    <3>1. k \in DOMAIN received' /\ received'[k] = Own /\ StretchOf(screen, looper, received', k)
      BY <1>3, <1>5, <2>1, <2>2, <2>5
    <3>2. state = "ISLOGGEDIN" => k + Count(screen, looper) = Len(received') + 0
      BY <1>3, <1>5, <2>1, <2>2, <2>5
    <3> QED BY <2>1, <2>2, <3>1, <3>2 DEF InView
  <2> QED BY <1>1, <2>3, <2>4, <2>5 DEF InView
<1>16. ASSUME NEW n \in Names, NEW p \in Contents, VisitMessage(n, p)
       PROVE  InView(screen', looper', received', state', visited')
  <2> DEFINE r == MessageResponse(n, p)
  <2>1. /\ received' = Append(received, r) /\ UNCHANGED <<screen, state, visited>>
        /\ reader = "reading"
    BY <1>16 DEF VisitMessage, Read
  <2>2. r \in Response /\ r # Own
    BY Vocabulary, NotALogin DEF Own
  <2>3. visited = None
    BY <2>1 DEF VisitedInv
  <2>4. CASE /\ \A k \in DOMAIN received : received[k] # Own
             /\ state # "ISLOGGEDIN" /\ Count(screen, looper) = 0
    <3>1. ASSUME NEW k \in DOMAIN received' PROVE received'[k] # Own
      <4>1. k \in DOMAIN received \/ k = Len(received) + 1
        BY <1>3, <1>5, <2>1, <2>2
      <4>2. CASE k \in DOMAIN received
        BY <1>3, <1>5, <2>1, <2>2, <2>4, <4>2
      <4>3. CASE k = Len(received) + 1
        BY <1>3, <1>5, <2>1, <2>2, <4>3
      <4> QED BY <4>1, <4>2, <4>3
    <3>2. looper' = looper
      BY <1>16, <2>4 DEF VisitMessage
    <3> QED BY <2>1, <2>4, <3>1, <3>2 DEF InView
  <2>5. ASSUME NEW k \in DOMAIN received, received[k] = Own,
               StretchOf(screen, looper, received, k),
               state = "ISLOGGEDIN" => k + Count(screen, looper) = Len(received) + 1
        PROVE  InView(screen', looper', received', state', visited')
    <3>1. k \in DOMAIN received' /\ received'[k] = Own /\ StretchOf(screen, looper, received', k)
      BY <1>3, <1>5, <2>1, <2>2, <2>5
    <3>2. CASE state # "ISLOGGEDIN"
      <4>1. looper' = looper
        BY <1>16, <3>2 DEF VisitMessage
      <4> QED BY <2>1, <3>1, <3>2, <4>1 DEF InView
    <3>3. CASE state = "ISLOGGEDIN"
      <4> DEFINE cleared == IF n = user THEN Append(looper, Clear) ELSE looper
      <4>1. Clear \in Runnable /\ Clear.run # "row" /\ Row(r) \in Runnable
        BY <2>2 DEF Clear, Runnable
      <4>2. /\ cleared \in Seq(Runnable) /\ Count(screen, cleared) = Count(screen, looper)
            /\ StretchOf(screen, cleared, received', k)
        BY <1>3, <3>1, <4>1, PostOther, AppendProperties
      <4>3. looper' = Append(cleared, Row(r))
        <5>1. looper' = looper \o (IF n = user THEN <<Clear>> ELSE <<>>) \o <<Row(r)>>
          BY <1>16, <3>3 DEF VisitMessage
        <5>2. looper \o (IF n = user THEN <<Clear>> ELSE <<>>) = cleared
          BY <1>3, <4>1, AppendIsConcat, ConcatEmptySeq
        <5>3. Append(cleared, Row(r)) = cleared \o <<Row(r)>>
          BY <4>1, <4>2, AppendIsConcat
        <5> QED BY <5>1, <5>2, <5>3
      <4> HIDE DEF cleared
      <4>4. /\ k \in Nat /\ received' \in Seq(Response)
            /\ k + Count(screen, cleared) = Len(received') /\ received'[Len(received')] = r
        <5>1. k \in Nat /\ received' \in Seq(Response)
          BY <1>3, SMTT(30) DEF TypeOK
        <5>2. k + Count(screen, looper) = Len(received) + 1
          BY <2>5, <3>3
        <5> QED BY <1>3, <1>5, <2>1, <2>2, <4>2, <5>1, <5>2
      <4>5. Count(screen, looper') = Count(screen, cleared) + 1
            /\ StretchOf(screen, looper', received', k)
        BY <1>3, <2>2, <4>2, <4>3, <4>4, PostRow
      <4>6. k + Count(screen, looper') = Len(received') + 1
        <5>1. \A a, b, c \in Nat : a + b = c => a + (b + 1) = c + 1
          OBVIOUS
        <5>2. Count(screen, cleared) \in Nat /\ Len(received') \in Nat
          BY <1>3, <4>2, <4>4, LenProperties
        <5> QED BY <4>4, <4>5, <5>1, <5>2
      <4> QED BY <2>1, <2>3, <3>1, <4>5, <4>6 DEF InView
    <3> QED BY <3>2, <3>3
  <2> QED BY <1>1, <2>3, <2>4, <2>5 DEF InView
<1>17. CASE \/ \E n \in Names : AnswerLogin(n) \/ \E p \in Contents : AnswerMessage(n, p)
            \/ \E r \in Others : AnswerOther(r)
            \/ Accept \/ LinkLost
  BY <1>4, <1>17 DEF AnswerLogin, AnswerMessage, AnswerOther, Accept, LinkLost
<1> QED BY <1>6, <1>7, <1>8, <1>9, <1>10, <1>11, <1>12, <1>13, <1>14, <1>15, <1>16, <1>17,
           StepCases

LEMMA ScreenHolds == Spec => [](TypeOK /\ ScreenInv)
<1> DEFINE Inv == TypeOK /\ Announcing /\ OwnOnce /\ VisitedInv /\ ScreenInv
<1>1. Init => Inv
  BY InitType, InitScreen
<1>2. Inv /\ [Next]_vars => Inv'
  BY TypeStep, AnnouncingStep, OwnOnceStep, VisitedStep, ScreenStep
<1>3. Inv => TypeOK /\ ScreenInv
  OBVIOUS
<1> HIDE DEF Inv
<1> QED BY <1>1, <1>2, <1>3, PTL DEF Spec

(* The user reads what was said: the rows on the screen and those posted   *)
(* for it by the reader thread are a stretch of what was received, in that *)
(* order, from the user's own login on, however the three threads          *)
(* interleave and whatever the UI thread writes into state meanwhile.      *)
THEOREM ReadsInOrder == Spec => []ScreenInOrder
<1>1. TypeOK /\ ScreenInv => ScreenInOrder
  BY DEF ScreenInv, ScreenInOrder, Own
<1> QED BY <1>1, ScreenHolds, PTL

(* The user misses nothing: as long as the activity believes it is logged  *)
(* in, every response received since the login, except one that is being   *)
(* visited, is a row of the screen or posted to become one.                *)
THEOREM ReadsEverything == Spec => []ScreenComplete
<1>1. TypeOK /\ ScreenInv => ScreenComplete
  BY DEF ScreenInv, ScreenComplete, Own
<1> QED BY <1>1, ScreenHolds, PTL

-----------------------------------------------------------------------------
(* A client among others.  What a client relies on, and what its steps do  *)
(* to what it has been shown; OwnOnce is for its environment to maintain.  *)

(* There is no connection before the reader has connected.                 *)
Unconnected == reader \in {"none", "start", "connecting"} => link = "none"

LEMMA UnconnectedStep ==
  ASSUME VisitedInv, Unconnected, [Next]_vars
  PROVE  Unconnected'
<1> USE DEF Unconnected, net
<1>1. CASE UNCHANGED vars
  BY <1>1 DEF vars
<1>2. CASE Crashes
  BY <1>2, CrashFrame
<1>3. CASE \E a \in Addresses : Login(a)
  BY <1>3 DEF Login, UIIdle, VisitedInv
<1>4. CASE (\E p \in Contents : Type(p)) \/ OnMsgSend
  BY <1>4 DEF Type, OnMsgSend
<1>5. CASE LoginNext \/ PostedNext \/ TaskSends
  BY <1>5 DEF LoginNext, LoginConnected, LoginSend, LoginAttempted,
              PostedNext, RunCommit, RunClear, RunRow, TaskSends
<1>6. CASE \/ ReaderLocks \/ ReaderConnects \/ ReaderRefused \/ ReaderEnds
           \/ ShowRoomFragment \/ Announce
  BY <1>6 DEF ReaderLocks, ReaderConnects, ReaderRefused, ReaderEnds, ShowRoomFragment, Announce
<1>7. CASE VisitOwnLogin \/ \E n \in Names : VisitOtherLogin(n)
  BY <1>7 DEF VisitOwnLogin, VisitOtherLogin
<1>8. CASE \E n \in Names, p \in Contents : VisitMessage(n, p) \/ AnswerMessage(n, p)
  BY <1>8 DEF VisitMessage, AnswerMessage, Read
<1>9. CASE (\E n \in Names : AnswerLogin(n)) \/ (\E r \in Others : AnswerOther(r))
  BY <1>9 DEF AnswerLogin, AnswerOther
<1>10. CASE Accept \/ LinkLost
  BY <1>10 DEF Accept, LinkLost
<1> QED BY <1>1, <1>2, <1>3, <1>4, <1>5, <1>6, <1>7, <1>8, <1>9, <1>10, StepCases

ClientInv ==
  /\ TypeOK /\ Announcing /\ VisitedInv /\ ScreenInv /\ AcceptedInv /\ SignedInv
  /\ Unconnected

LEMMA ClientInit == Init => ClientInv
<1>1. Init => AcceptedInv /\ SignedInv /\ Unconnected
  BY DEF Init, AcceptedInv, SignedInv, Unconnected
<1> QED BY <1>1, InitType, InitScreen DEF ClientInv

LEMMA ClientStep ==
  ASSUME ClientInv, OwnOnce, [Next]_vars
  PROVE  ClientInv'
<1> USE DEF ClientInv
<1>1. TypeOK' /\ Announcing'
  BY TypeStep, AnnouncingStep
<1>2. VisitedInv' /\ ScreenInv'
  BY <1>1, VisitedStep, ScreenStep
<1>3. AcceptedInv' /\ SignedInv' /\ Unconnected'
  BY <1>1, AcceptedStep, SignedStep, UnconnectedStep
<1> QED BY <1>1, <1>2, <1>3

(* The server answers a request, or hands it a response, or serves others: *)
(* whatever is on its way then, the client's own state does not change.    *)
LEMMA ClientWaits ==
  ASSUME ClientInv, taken \subseteq taken', taken' \subseteq Names,
         UNCHANGED <<app, state, ui, view, looper, conn, tasks, reader, visited, link,
                     others, clicks, received>>,
         \/ incoming' = incoming
         \/ \E r \in Response : incoming' = Append(incoming, r)
                                /\ (r = LoginResponse(user) => user \in taken'),
         outgoing' = outgoing \/ (outgoing # <<>> /\ outgoing' = Tail(outgoing))
  PROVE  ClientInv'
<1> USE DEF ClientInv, view, conn
<1>1. /\ incoming \in Seq(Response) /\ outgoing \in Seq(Request)
      /\ incoming' \in Seq(Response) /\ outgoing' \in Seq(Request)
  <2>1. incoming \in Seq(Response) /\ outgoing \in Seq(Request)
    BY DEF TypeOK
  <2>2. incoming' \in Seq(Response)
    BY <2>1, AppendProperties
  <2>3. outgoing' \in Seq(Request)
    BY <2>1, HeadTailProperties
  <2> QED BY <2>1, <2>2, <2>3
<1>2. TypeOK'
  BY <1>1 DEF TypeOK
<1>3. Announcing' /\ VisitedInv' /\ Unconnected'
  BY DEF Announcing, VisitedInv, Unconnected
<1>4. ScreenInv'
  <2>1. /\ UNCHANGED <<screen, looper, received, state, visited>> /\ Own' = Own
        /\ TypeOK /\ ScreenInv
    BY DEF Own
  <2>2. InView(screen, looper, received, state, visited)
    BY <2>1, ScreenAlike
  <2>3. (TypeOK => (ScreenInv <=> InView(screen, looper, received, state, visited)))'
    BY ScreenAlike, PTL
  <2> QED BY <1>2, <2>1, <2>2, <2>3 DEF InView
<1>5. ASSUME NEW P, \A i \in DOMAIN outgoing : outgoing[i] \in P
      PROVE  \A i \in DOMAIN outgoing' : outgoing'[i] \in P
  BY <1>1, <1>5, TailKeeps
<1>6. SignedInv'
  BY <1>5 DEF SignedInv, Signed
<1>7. AcceptedInv'
  <2> SUFFICES ASSUME user \notin taken'
               PROVE  /\ state' # "ISLOGGEDIN"
                      /\ \A i \in DOMAIN incoming' : incoming'[i] # LoginResponse(user)
                      /\ \A i \in DOMAIN tasks' : tasks'[i].type # "MessageRequest"
                      /\ \A i \in DOMAIN outgoing' : outgoing'[i].type # "MessageRequest"
    BY DEF AcceptedInv
  <2>1. /\ state # "ISLOGGEDIN"
        /\ \A i \in DOMAIN incoming : incoming[i] \in Foreign
        /\ \A i \in DOMAIN tasks : tasks[i] \in Quiet
        /\ \A i \in DOMAIN outgoing : outgoing[i] \in Quiet
    BY AcceptedAlike
  <2>2. \A i \in DOMAIN outgoing' : outgoing'[i] \in Quiet
    BY <1>5, <2>1
  <2>3. \A i \in DOMAIN incoming' : incoming'[i] \in Foreign
    <3>1. CASE incoming' = incoming
      BY <2>1, <3>1
    <3>2. ASSUME NEW r \in Response, incoming' = Append(incoming, r), r # LoginResponse(user)
          PROVE  \A i \in DOMAIN incoming' : incoming'[i] \in Foreign
      <4>1. r \in Foreign
        BY <3>2 DEF Foreign
      <4> QED BY <1>1, <2>1, <3>2, <4>1, AppendKeeps
    <3> QED BY <3>1, <3>2
  <2> QED BY <2>1, <2>2, <2>3 DEF Foreign, Quiet
<1> QED BY <1>2, <1>3, <1>4, <1>6, <1>7

(* A client sends one login and a message for each click: m requests that  *)
(* were answered and those in its queues are never more than that.         *)
LoginMade ==
  IF (state = "NOCONNECTION" /\ ui = "idle") \/ ui \in {"connected", "sending"} THEN 0 ELSE 1

Quota(m) == m + Len(tasks) + Len(outgoing) <= clicks + LoginMade

LEMMA QuotaStep ==
  ASSUME TypeOK, OwnNext \/ LinkLost, NEW m \in Nat, Quota(m)
  PROVE  Quota(m)'
<1>1. /\ tasks \in Seq(Request) /\ outgoing \in Seq(Request)
      /\ Len(tasks) \in Nat /\ Len(outgoing) \in Nat /\ clicks \in Nat
      /\ LoginMade \in {0, 1}
  BY BoundAssumption, LenProperties DEF TypeOK, LoginMade
<1>2. ASSUME UNCHANGED <<tasks, outgoing, clicks>>, LoginMade' = LoginMade \/ LoginMade' = 1
      PROVE  Quota(m)'
  BY <1>1, <1>2 DEF Quota
<1>3. ASSUME NEW r \in Request, tasks' = Append(tasks, r), outgoing' = outgoing,
             clicks' + LoginMade' = clicks + LoginMade + 1
      PROVE  Quota(m)'
  <2>1. Len(tasks') = Len(tasks) + 1
    BY <1>1, <1>3, AppendProperties
  <2> QED BY <1>1, <1>3, <2>1 DEF Quota
<1> USE DEF view, conn, net
<1>4. CASE \E a \in Addresses : Login(a)
  BY <1>2, <1>4 DEF Login, UIIdle, LoginMade
<1>5. CASE \E a \in Addresses : LoginUnknownHost(a)
  BY <1>2, <1>5 DEF LoginUnknownHost, Crash, LoginMade
<1>6. CASE \E p \in Contents : Type(p)
  BY <1>2, <1>6 DEF Type, LoginMade
<1>7. CASE OnMsgSend
  <2>1. MessageRequest(user, draft) \in Request
    BY <1>7, Vocabulary DEF OnMsgSend, TypeOK
  <2>2. clicks' = clicks + 1 /\ LoginMade' = LoginMade
    BY <1>7 DEF OnMsgSend, LoginMade
  <2> QED BY <1>1, <1>3, <1>7, <2>1, <2>2 DEF OnMsgSend
<1>8. CASE LoginConnected \/ LoginAttempted
  BY <1>2, <1>8 DEF LoginConnected, LoginAttempted, LoginMade
<1>9. CASE LoginSend
  <2>1. LoginRequest(user) \in Request
    BY Vocabulary DEF TypeOK
  <2>2. clicks' = clicks /\ LoginMade' = 1 /\ LoginMade = 0
    BY <1>9 DEF LoginSend, LoginMade
  <2> QED BY <1>1, <1>3, <1>9, <2>1, <2>2 DEF LoginSend
<1>10. CASE PostedNext
  BY <1>2, <1>10 DEF PostedNext, RunCommit, RunClear, RunRow, LoginMade
<1>11. CASE TaskSends
  <2>1. Head(tasks) \in Request /\ Len(tasks') = Len(tasks) - 1
    BY <1>1, <1>11, HeadTailProperties DEF TaskSends
  <2>2. Len(outgoing') \in {Len(outgoing), Len(outgoing) + 1}
    BY <1>1, <1>11, <2>1, AppendProperties DEF TaskSends
  <2>3. clicks' = clicks /\ LoginMade' = LoginMade
    BY <1>11 DEF TaskSends, LoginMade
  <2> QED BY <1>1, <2>1, <2>2, <2>3 DEF Quota
<1>12. CASE TaskTooEarly \/ VisitThrows
  BY <1>2, <1>12 DEF TaskTooEarly, VisitThrows, Crash, LoginMade
<1>13. CASE \/ ReaderLocks \/ ReaderConnects \/ ReaderRefused \/ ReaderEnds
            \/ ShowRoomFragment \/ Announce
  BY <1>2, <1>13 DEF ReaderLocks, ReaderConnects, ReaderRefused, ReaderEnds, ShowRoomFragment,
                     Announce, LoginMade
<1>14. CASE \/ VisitOwnLogin
            \/ \E n \in Names : VisitOtherLogin(n) \/ \E p \in Contents : VisitMessage(n, p)
  BY <1>2, <1>14 DEF VisitOwnLogin, VisitOtherLogin, VisitMessage, Read, LoginMade
<1>15. CASE LinkLost
  <2>1. Len(outgoing') = 0 /\ tasks' = tasks /\ clicks' = clicks /\ LoginMade' = LoginMade
    BY <1>15 DEF LinkLost, LoginMade
  <2> QED BY <1>1, <2>1 DEF Quota
<1> QED BY <1>4, <1>5, <1>6, <1>7, <1>8, <1>9, <1>10, <1>11, <1>12, <1>13, <1>14, <1>15
        DEF OwnNext, UserNext, LoginNext, TaskNext, ReaderNext

LEMMA QuotaAnswer ==
  ASSUME TypeOK, UNCHANGED <<state, ui, tasks, clicks>>, outgoing # <<>>, outgoing' = Tail(outgoing),
         NEW m \in Nat, Quota(m)
  PROVE  Quota(m + 1)' /\ m < MaxClicks + 1
<1>1. /\ tasks \in Seq(Request) /\ outgoing \in Seq(Request)
      /\ Len(tasks) \in Nat /\ Len(outgoing) \in Nat \ {0} /\ clicks \in 0..MaxClicks
      /\ MaxClicks \in Nat /\ LoginMade \in {0, 1} /\ LoginMade' = LoginMade
  BY BoundAssumption, LenProperties, EmptySeq DEF TypeOK, LoginMade
<1>2. Len(outgoing') = Len(outgoing) - 1
  BY <1>1, HeadTailProperties
<1> QED BY <1>1, <1>2 DEF Quota

(* Reading moves a response from what is on its way to what was received;  *)
(* no step of the client's own does more to either.                        *)
LEMMA HeardStays ==
  ASSUME TypeOK, OwnNext
  PROVE  Heard' = Heard /\ (link' = link \/ (reader = "connecting" /\ link' = "made"))
<1> USE DEF view, conn, net
<1>1. ASSUME UNCHANGED <<received, incoming, link>>
      PROVE  Heard' = Heard /\ (link' = link \/ (reader = "connecting" /\ link' = "made"))
  BY <1>1 DEF Heard
<1>2. ASSUME NEW r, Read(r) PROVE Heard' = Heard /\ (link' = link \/ (reader = "connecting" /\ link' = "made"))
  <2>1. received \in Seq(Response) /\ incoming \in Seq(Response)
    BY DEF TypeOK
  <2> QED BY <1>2, <2>1, ReadMoves DEF Heard, Read
<1>3. CASE UserNext
  BY <1>1, <1>3 DEF UserNext, Login, LoginUnknownHost, Crash, Type, OnMsgSend
<1>4. CASE LoginNext \/ PostedNext
  BY <1>1, <1>4 DEF LoginNext, LoginConnected, LoginSend, LoginAttempted,
                    PostedNext, RunCommit, RunClear, RunRow
<1>5. CASE TaskNext
  BY <1>1, <1>5 DEF TaskNext, TaskSends, TaskTooEarly, Crash
<1>6. CASE ReaderLocks \/ ReaderRefused \/ ReaderEnds \/ VisitThrows \/ ShowRoomFragment \/ Announce
  BY <1>1, <1>6 DEF ReaderLocks, ReaderRefused, ReaderEnds, VisitThrows, Crash,
                    ShowRoomFragment, Announce
<1>7. CASE ReaderConnects
  BY <1>7 DEF ReaderConnects, Heard
<1>8. CASE \/ VisitOwnLogin
           \/ \E n \in Names : VisitOtherLogin(n) \/ \E p \in Contents : VisitMessage(n, p)
  BY <1>2, <1>8 DEF VisitOwnLogin, VisitOtherLogin, VisitMessage
<1> QED BY <1>3, <1>4, <1>5, <1>6, <1>7, <1>8 DEF OwnNext, ReaderNext

(* A connection that is lost takes away the end of it.                     *)
LEMMA CutTheEnd ==
  ASSUME NEW T, NEW s \in Seq(T), NEW t \in Seq(T), NEW u \in Seq(T),
         Len(u) <= Len(t), \A i \in 1..Len(u) : u[i] = t[i]
  PROVE  \A i \in DOMAIN (s \o u) : i \in DOMAIN (s \o t) /\ (s \o u)[i] = (s \o t)[i]
<1> DEFINE a == s \o u
           b == s \o t
<1>1. Len(s) \in Nat /\ Len(t) \in Nat /\ Len(u) \in Nat
  BY LenProperties
<1>2. /\ a \in Seq(T) /\ Len(a) = Len(s) + Len(u)
      /\ \A i \in 1..(Len(s) + Len(u)) : a[i] = IF i <= Len(s) THEN s[i] ELSE u[i - Len(s)]
  BY ConcatProperties
<1>3. /\ b \in Seq(T) /\ Len(b) = Len(s) + Len(t)
      /\ \A i \in 1..(Len(s) + Len(t)) : b[i] = IF i <= Len(s) THEN s[i] ELSE t[i - Len(s)]
  BY ConcatProperties
<1> HIDE DEF a, b
<1>4. DOMAIN a = 1..(Len(s) + Len(u)) /\ DOMAIN b = 1..(Len(s) + Len(t))
  BY <1>2, <1>3, LenProperties
<1>5. ASSUME NEW i \in DOMAIN a PROVE i \in DOMAIN b /\ a[i] = b[i]
  <2>1. i \in 1..(Len(s) + Len(u)) /\ i \in 1..(Len(s) + Len(t))
    BY <1>1, <1>4
  <2>2. CASE i <= Len(s)
    BY <1>2, <1>3, <1>4, <2>1, <2>2
  <2>3. CASE ~(i <= Len(s))
    <3>1. i - Len(s) \in 1..Len(u)
      BY <1>1, <2>1, <2>3
    <3> QED BY <1>2, <1>3, <1>4, <2>1, <2>3, <3>1
  <2> QED BY <2>2, <2>3
<1> QED BY <1>5 DEF a, b

LEMMA HeardCut ==
  ASSUME TypeOK, LinkLost
  PROVE  /\ link' = "lost"
         /\ \A i \in DOMAIN Heard' : i \in DOMAIN Heard /\ Heard'[i] = Heard[i]
<1>1. PICK n \in 0..Len(incoming) : incoming' = SubSeq(incoming, 1, n)
  BY DEF LinkLost
<1>2. received' = received /\ received \in Seq(Response) /\ incoming \in Seq(Response)
  BY DEF LinkLost, TypeOK
<1>3. /\ n \in Nat /\ n <= Len(incoming) /\ Len(incoming) \in Nat
      /\ \A i \in 1..n : incoming[i] \in Response
  BY <1>2, LenProperties, ElementOfSeq
<1>4. /\ incoming' \in Seq(Response) /\ Len(incoming') = n
      /\ \A i \in 1..n : incoming'[i] = incoming[i]
  BY <1>1, <1>2, <1>3, SubSeqProperties
<1>5. \A i \in DOMAIN (received \o incoming') :
        i \in DOMAIN (received \o incoming)
          /\ (received \o incoming')[i] = (received \o incoming)[i]
  BY <1>2, <1>3, <1>4, CutTheEnd
<1> QED BY <1>2, <1>5 DEF LinkLost, Heard

(* The rows are a stretch of any list that holds what was heard in one     *)
(* piece, from its d-th element on.                                        *)
LEMMA StretchMoves ==
  ASSUME TypeOK, ScreenInv, RowCount > 0, NEW list \in Seq(Response), NEW d \in Nat,
         \A i \in DOMAIN Heard : d + i \in DOMAIN list /\ list[d + i] = Heard[i]
  PROVE  \E k \in DOMAIN list : Stretch(list, k)
<1>1. /\ received \in Seq(Response) /\ incoming \in Seq(Response)
      /\ screen \in Seq(Response) /\ looper \in Seq(Runnable)
  BY DEF TypeOK
<1>2. /\ DOMAIN received = 1..Len(received) /\ Len(received) \in Nat
      /\ DOMAIN list = 1..Len(list) /\ Len(list) \in Nat
      /\ DOMAIN screen = 1..Len(screen) /\ Len(screen) \in Nat
      /\ Cardinality(RowsIn(looper)) \in Nat
  BY <1>1, RowsFinite, LenProperties
<1>3. \A i \in DOMAIN received : d + i \in DOMAIN list /\ list[d + i] = received[i]
  <2>1. \A i \in DOMAIN received : i \in DOMAIN Heard /\ Heard[i] = received[i]
    BY <1>1, <1>2, ConcatProperties, LenProperties DEF Heard
  <2> QED BY <2>1
<1>4. PICK k \in DOMAIN received : Stretch(received, k)
  BY DEF ScreenInv
<1>5. k \in Nat \ {0} /\ StretchOf(screen, looper, received, k) /\ Count(screen, looper) > 0
  BY <1>2, <1>4, SameStretch
<1>6. d + k \in DOMAIN list
  BY <1>3, <1>4
<1>7. Posted = RowsIn(looper) /\ RowCount = Count(screen, looper)
  BY SameStretch DEF Posted, RowsIn
<1>8. d + k + RowCount - 1 <= Len(list)
  <2>1. k + Count(screen, looper) - 1 \in DOMAIN received
    BY <1>2, <1>5 DEF StretchOf, Count
  <2>2. d + (k + Count(screen, looper) - 1) \in DOMAIN list
    BY <1>3, <2>1
  <2> QED BY <1>2, <1>5, <1>7, <2>2 DEF Count
<1>9. ASSUME NEW n \in DOMAIN screen PROVE screen[n] = list[d + k + n - 1]
  <2>1. k + n - 1 \in DOMAIN received
    BY <1>2, <1>5 DEF StretchOf, Count
  <2>2. d + (k + n - 1) = d + k + n - 1
    BY <1>2, <1>5
  <2>3. screen[n] = received[k + n - 1]
    BY <1>5 DEF StretchOf
  <2> QED BY <1>3, <2>1, <2>2, <2>3
<1>10. ASSUME NEW i \in Posted PROVE looper[i].of = list[d + k + RowNo(i) - 1]
  <2>1. /\ Rank(looper, i) \in Nat /\ 1 <= Rank(looper, i)
        /\ Rank(looper, i) <= Cardinality(RowsIn(looper))
        /\ RowNo(i) = Len(screen) + Rank(looper, i)
    BY <1>1, <1>7, RankBounds, RowsFinite DEF RowNo, Rank
  <2>2. k + Len(screen) + Rank(looper, i) - 1 \in DOMAIN received
    BY <1>2, <1>5, <2>1 DEF StretchOf, Count
  <2>3. d + (k + Len(screen) + Rank(looper, i) - 1) = d + k + RowNo(i) - 1
    BY <1>2, <1>5, <2>1
  <2>4. looper[i].of = received[k + Len(screen) + Rank(looper, i) - 1]
    BY <1>5, <1>7 DEF StretchOf
  <2> QED BY <1>3, <2>2, <2>3, <2>4
<1>11. Stretch(list, d + k)
  BY <1>8, <1>9, <1>10 DEF Stretch
<1> QED BY <1>6, <1>11
=============================================================================
